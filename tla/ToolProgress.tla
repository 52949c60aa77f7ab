---------------------------- MODULE ToolProgress ----------------------------
(***************************************************************************)
(* The progress message of tool_progress.py: one object of a turn, from    *)
(* its deferred first post over its throttled edits to its removal by      *)
(* stop(), or its change into the answer by transition_to_final().  Four   *)
(* kinds of tasks work on it: the turn, the task of the first post, the    *)
(* writers (a tick per streamed token, the update the turn awaits, and the *)
(* deferred flush) and the detached delete.  A task that is cancelled      *)
(* leaves its request behind, and Discord may still carry it out.  The     *)
(* text is progress or the answer; that an interval has not passed yet is  *)
(* a free choice.                                                          *)
(***************************************************************************)
EXTENDS Naturals, FiniteSets

CONSTANTS
    Ticks,          \* bound: ticks at a time
    None,
    MaxFaults       \* bound: requests that fail, rate limits apart


Writers == Ticks \cup {"update", "deferred"}
\* channel.send() of the first post, its second try as a reply, the fallback
\* of the transition and the turn's own reply.
Posts == {"post", "repost"}
Messages == Posts \cup {"fallback", "reply"}

VARIABLES
    turn,       \* where the turn is
    awaited,    \* the turn awaits the first post: start(), not start_defer()
    poster,     \* the task of the first post: waiting, sending or done
    writer,     \* writer -> off, asleep, queued (for the lock), editing
    posted,     \* _posted, or None
    stopped, streaming,
    held,       \* the message transition_to_final() took over, or None
    asked,      \* task -> its request in flight, or None
    loose,      \* requests whose task was cancelled
    channel,    \* Discord: message -> what it shows
    faults,
    delivered,  \* delivered_chunks: the message that carries the answer, or None
    excused,    \* history: messages a failed or cut request was about
    overtaken   \* history: messages with an edit in flight at the transition

object == <<posted, stopped, streaming, held>>
net == <<asked, loose, channel, faults>>
history == <<delivered, excused, overtaken>>
progressVars == <<turn, awaited, poster, writer, object, net, history>>

Tasks == Writers \cup {"turn", "poster", "deleter"}
Request(m, shows) == [on |-> m, shows |-> shows]
Requests == [on : Messages, shows : {"progress", "answer", "deleted"}]

ASSUME ProgressAssumption ==
    /\ MaxFaults \in Nat
    /\ None \notin Messages \cup Requests
    /\ Ticks \cap {"update", "deferred", "turn", "poster", "deleter"} = {}

ProgressInit ==
    /\ awaited \in BOOLEAN
    /\ turn = IF awaited THEN "starting" ELSE "working"
    /\ poster = "waiting"
    /\ writer = [w \in Writers |-> "off"]
    /\ posted = None /\ stopped = FALSE /\ streaming = FALSE /\ held = None
    /\ asked = [t \in Tasks |-> None] /\ loose = {}
    /\ channel = [m \in Messages |-> "absent"]
    /\ faults = 0 /\ delivered = None /\ excused = {} /\ overtaken = {}
-----------------------------------------------------------------------------
(* What a set of tasks asked for when they are cancelled.                  *)
CutBy(ts) == { asked[t] : t \in ts } \ {None}
Asking(t, r) == [asked EXCEPT ![t] = r]
WriterAt(w, place) == writer' = [writer EXCEPT ![w] = place]
Deferred == IF writer["deferred"] = "off" THEN {} ELSE {"deferred"}

(* Plausible wrong forms of the definitions below.                         *)
\* The message is handed to the answer and not given up.
KeepsHold == UNCHANGED <<posted, stopped>>
\* A rate limit disables the message like any other failure.
Disabled == posted' = None
-----------------------------------------------------------------------------
(* stop(), which never awaits: it cancels the first post and the deferred  *)
(* flush and leaves the removal to a task of its own.  The turn is at      *)
(* place afterwards; more are tasks that are cancelled with it, those of   *)
(* the turn that is cancelled itself.                                      *)
Stop(place, more) ==
    LET own == IF poster # "done" /\ ~awaited THEN {"poster"} ELSE {}
        cut == more \cup (IF stopped THEN {} ELSE own \cup Deferred)
        removed == IF stopped \/ posted = None THEN None
                   ELSE Request(posted, "deleted")
    IN  /\ turn' = place
        /\ stopped' = TRUE
        /\ posted' = IF stopped THEN posted ELSE None
        /\ poster' = IF "poster" \in cut THEN "done" ELSE poster
        /\ writer' = [w \in Writers |-> IF w \in cut THEN "off" ELSE writer[w]]
        /\ asked' = [t \in Tasks |-> IF t \in cut THEN None
                                     ELSE IF t = "deleter" /\ removed # None
                                     THEN removed ELSE asked[t]]
        /\ loose' = loose \cup CutBy(cut)
        /\ excused' = excused \cup { r.on : r \in CutBy(cut \cap {"poster", "turn"}) }
        /\ UNCHANGED <<awaited, streaming, held, channel, faults, delivered, overtaken>>

(* The answer of Discord to a request: it is carried out or not, and the   *)
(* task learns that it was, that it failed, or of the rate limit.  A       *)
(* deleted message is gone: an edit of it fails.                           *)
Carried(r) == [channel EXCEPT ![r.on] =
                 IF r.on \in Posts /\ channel[r.on] = "deleted" THEN "deleted"
                 ELSE r.shows]
Succeeds(t) == /\ asked[t] # None
               /\ channel[asked[t].on] # "deleted"
               /\ channel' = Carried(asked[t])
               /\ asked' = Asking(t, None)
               /\ UNCHANGED <<loose, faults, excused>>
Fails(t) == /\ asked[t] # None
            /\ \/ faults < MaxFaults /\ faults' = faults + 1
                  /\ channel' \in {channel, Carried(asked[t])}
               \/ channel[asked[t].on] = "deleted" /\ UNCHANGED <<faults, channel>>
            /\ excused' = excused \cup {asked[t].on}
            /\ loose' = loose

(* A request nobody waits for is carried out late, or never.               *)
Straggler == \E r \in loose : /\ loose' = loose \ {r}
                              /\ channel' \in {channel, Carried(r)}
                              /\ UNCHANGED <<turn, awaited, poster, writer, object,
                                             asked, faults, history>>
-----------------------------------------------------------------------------
(* The first post: after the window and the grace it is sent, unless the   *)
(* object stopped or the tool posts its own output; a send that fails is   *)
(* tried again as a reply.                                                 *)
PostBegins ==
    /\ poster = "waiting"
    /\ IF stopped \/ streaming \/ posted # None
       THEN poster' = "done" /\ asked' = asked
       ELSE poster' = "sending" /\ asked' = Asking("poster", Request("post", "progress"))
    /\ UNCHANGED <<turn, awaited, writer, object, loose, channel, faults, history>>

PostArrives == /\ poster = "sending" /\ Succeeds("poster")
               /\ posted' = asked["poster"].on
               /\ poster' = "done"
               /\ UNCHANGED <<turn, awaited, writer, stopped, streaming, held, delivered, overtaken>>

PostFails == /\ poster = "sending" /\ Fails("poster")
             /\ IF asked["poster"].on = "post"
                THEN poster' = poster /\ asked' = Asking("poster", Request("repost", "progress"))
                ELSE poster' = "done" /\ asked' = Asking("poster", None)
             /\ UNCHANGED <<turn, awaited, writer, object, delivered, overtaken>>

\* The turn is not inside an update.
Idle == turn = "working" /\ writer["update"] = "off"

(* A tool posts its own output: notify_streaming().                        *)
Streams == /\ Idle /\ ~streaming /\ streaming' = TRUE
           /\ WriterAt("deferred", "off")
           /\ asked' = Asking("deferred", None)
           /\ loose' = loose \cup CutBy(Deferred)
           /\ UNCHANGED <<turn, awaited, poster, posted, stopped, held, channel, faults, history>>
-----------------------------------------------------------------------------
(* A tick or an update has news for the message: it goes for the lock.     *)
Live == ~stopped /\ ~streaming /\ posted # None
Writes(w) == /\ w \in Writers \ {"deferred"} /\ writer[w] = "off" /\ Live
             /\ IF w = "update" THEN turn = "working" ELSE ~awaited
             /\ WriterAt(w, "queued")
             /\ UNCHANGED <<turn, awaited, poster, object, net, history>>

(* An update that comes too soon leaves it to the deferred flush, which    *)
(* replaces the one before it.                                             *)
Defers == /\ Idle /\ Live
          /\ WriterAt("deferred", "asleep")
          /\ asked' = Asking("deferred", None)
          /\ loose' = loose \cup CutBy(Deferred)
          /\ UNCHANGED <<turn, awaited, poster, object, channel, faults, history>>

Wakes == /\ writer["deferred"] = "asleep"
         /\ WriterAt("deferred", IF Live THEN "queued" ELSE "off")
         /\ UNCHANGED <<turn, awaited, poster, object, net, history>>

(* _flush() with the lock: it looks again, and edits or finds the interval *)
(* not over.                                                               *)
StillLive == ~stopped /\ posted # None
Flush(w) == /\ writer[w] = "queued"
            /\ \A v \in Writers : writer[v] # "editing"
            /\ \/ StillLive /\ WriterAt(w, "editing")
                  /\ asked' = Asking(w, Request(posted, "progress"))
               \/ WriterAt(w, "off") /\ asked' = asked
            /\ UNCHANGED <<turn, awaited, poster, object, loose, channel, faults, history>>

Edited(w) == /\ writer[w] = "editing" /\ Succeeds(w)
             /\ WriterAt(w, "off")
             /\ UNCHANGED <<turn, awaited, poster, object, delivered, overtaken>>

RateLimited == posted' = posted
Limited(w) == /\ writer[w] = "editing" /\ WriterAt(w, "off")
              /\ asked' = Asking(w, None)
              /\ RateLimited
              /\ UNCHANGED <<turn, awaited, poster, stopped, streaming, held, loose, channel,
                             faults, history>>

EditFails(w) == /\ writer[w] = "editing" /\ Fails(w)
                /\ WriterAt(w, "off") /\ asked' = Asking(w, None)
                /\ posted' = None
                /\ UNCHANGED <<turn, awaited, poster, stopped, streaming, held, delivered, overtaken>>
-----------------------------------------------------------------------------
(* start() is over and the tools run, whatever became of the post.         *)
Started == /\ turn = "starting" /\ poster = "done" /\ turn' = "working"
           /\ UNCHANGED <<awaited, poster, writer, object, net, history>>

(* The generation had no tool calls, or the tools are done: stop().  A     *)
(* follow-up without tool calls leaves the message for the answer.         *)
BatchEnds == Idle /\ Stop("finishing", {})
FollowUpEnds == /\ Idle /\ ~awaited /\ turn' = "finishing"
                /\ UNCHANGED <<awaited, poster, writer, object, net, history>>

(* transition_to_final(), or the plain reply when there is nothing to      *)
(* change.                                                                 *)
GivesUp == posted' = None /\ stopped' = TRUE
Transition ==
    /\ turn = "finishing" /\ ~stopped /\ posted # None
    /\ turn' = "changing"
    /\ GivesUp /\ held' = posted
    /\ writer' = [writer EXCEPT !["deferred"] = "off"]
    /\ asked' = [asked EXCEPT !["deferred"] = None, !["turn"] = Request(posted, "answer")]
    /\ loose' = loose \cup CutBy(Deferred)
    /\ overtaken' = IF Request(posted, "progress") \in loose \cup CutBy(Writers)
                    THEN {posted} ELSE {}
    /\ UNCHANGED <<awaited, poster, streaming, channel, faults, delivered, excused>>

Replies == /\ turn = "finishing" /\ (stopped \/ posted = None)
           /\ turn' = "replying"
           /\ asked' = Asking("turn", Request("reply", "answer"))
           /\ UNCHANGED <<awaited, poster, writer, object, loose, channel, faults, history>>

\* A tool gave the answer: there is no reply.
Silent == /\ turn = "finishing" /\ turn' = "settling"
          /\ UNCHANGED <<awaited, poster, writer, object, net, history>>

(* The final edit is carried out; or it fails, and the answer is sent      *)
(* anew, the placeholder being removed whatever comes of it.               *)
Changed == /\ turn = "changing" /\ Succeeds("turn")
           /\ turn' = "settling" /\ delivered' = asked["turn"].on
           /\ UNCHANGED <<awaited, poster, writer, object, overtaken>>

ChangeFails == /\ turn = "changing" /\ Fails("turn")
               /\ turn' = "resending"
               /\ asked' = [asked EXCEPT !["turn"] = Request("fallback", "answer")]
               /\ UNCHANGED <<awaited, poster, writer, object, delivered, overtaken>>

\* The placeholder is removed, in a task of its own.
Spawned == [asked EXCEPT !["turn"] = None, !["deleter"] = Request(held, "deleted")]

Resent == /\ turn = "resending" /\ asked["turn"] # None
          /\ channel' = Carried(asked["turn"])
          /\ asked' = Spawned
          /\ turn' = "settling" /\ delivered' = "fallback"
          /\ UNCHANGED <<awaited, poster, writer, object, loose, faults, excused, overtaken>>

ResendFails == /\ turn = "resending" /\ Fails("turn")
               /\ asked' = [Spawned EXCEPT !["turn"] = Request("reply", "answer")]
               /\ turn' = "replying"
               /\ UNCHANGED <<awaited, poster, writer, object, delivered, overtaken>>

Replied == /\ turn = "replying" /\ Succeeds("turn")
           /\ turn' = "settling" /\ delivered' = "reply"
           /\ UNCHANGED <<awaited, poster, writer, object, overtaken>>

ReplyFails == /\ turn = "replying" /\ Fails("turn")
              /\ turn' = "settling" /\ asked' = Asking("turn", None)
              /\ UNCHANGED <<awaited, poster, writer, object, delivered, overtaken>>

(* The cleanup of the turn, which stops what is still alive.               *)
Cleanup == turn = "settling" /\ Stop("over", {})

(* The turn fails or is cancelled.  While it awaits the first post, the    *)
(* handler of that task takes the cancellation and the turn goes on        *)
(* (tool_progress.py:226).  A fallback that is cut removes the placeholder.*)
Cancelled ==
    \/ /\ turn = "starting" /\ poster # "done"
       /\ poster' = "done"
       /\ asked' = Asking("poster", None)
       /\ loose' = loose \cup CutBy({"poster"})
       /\ excused' = excused \cup { r.on : r \in CutBy({"poster"}) }
       /\ UNCHANGED <<turn, awaited, writer, object, channel, faults, delivered, overtaken>>
    \/ turn = "working" /\ Stop("over", {"update"})
    \/ turn \in {"changing", "replying"} /\ Stop("over", {"turn"})
    \/ /\ turn = "resending" /\ turn' = "settling"
       /\ asked' = Spawned
       /\ loose' = loose \cup CutBy({"turn"})
       /\ UNCHANGED <<awaited, poster, writer, object, channel, faults, history>>

Deleted == /\ Succeeds("deleter")
           /\ UNCHANGED <<turn, awaited, poster, writer, object, delivered, overtaken>>

DeleteFails == /\ Fails("deleter") /\ asked' = Asking("deleter", None)
               /\ UNCHANGED <<turn, awaited, poster, writer, object, delivered, overtaken>>

ProgressNext ==
    \/ PostBegins \/ PostArrives \/ PostFails \/ Started
    \/ \E w \in Writers : \/ Writes(w) \/ Flush(w)
                          \/ Edited(w) \/ Limited(w) \/ EditFails(w)
    \/ Streams \/ Defers \/ Wakes
    \/ BatchEnds \/ FollowUpEnds \/ Transition \/ Replies \/ Silent
    \/ Changed \/ ChangeFails \/ Resent \/ ResendFails \/ Replied \/ ReplyFails
    \/ Cleanup \/ Cancelled \/ Deleted \/ DeleteFails \/ Straggler

ProgressSpec == ProgressInit /\ [][ProgressNext]_progressVars
-----------------------------------------------------------------------------
ProgressTypeOK ==
    /\ turn \in {"starting", "working", "finishing", "changing", "resending",
                 "replying", "settling", "over"}
    /\ awaited \in BOOLEAN /\ poster \in {"waiting", "sending", "done"}
    /\ writer \in [Writers -> {"off", "asleep", "queued", "editing"}]
    /\ {posted, held} \subseteq Posts \cup {None}
    /\ stopped \in BOOLEAN /\ streaming \in BOOLEAN
    /\ asked \in [Tasks -> Requests \cup {None}] /\ loose \subseteq Requests
    /\ channel \in [Messages -> {"absent", "progress", "answer", "deleted"}]
    /\ faults \in 0..MaxFaults /\ delivered \in Messages \cup {None}
    /\ excused \subseteq Messages /\ overtaken \subseteq Messages

(* An answer the turn counts as delivered stays: no late tick, flush or    *)
(* removal touches the message that became the answer, apart from an edit  *)
(* that was already on its way when the answer's was sent                  *)
(* (tool_progress.py:401-404 and 590-613).                                 *)
AnswerStands ==
    delivered # None => channel[delivered] = "answer" \/ delivered \in overtaken

(* When everything has settled, no placeholder is left, unless a request   *)
(* about it failed, was cut by a cancellation or came after the answer's:  *)
(* a rate limit, a tool that streams, a late post or an unfinished turn    *)
(* leave none (tool_progress.py:550-588, bot.py:11919-11922).              *)
Settled == /\ turn = "over" /\ poster = "done" /\ loose = {}
           /\ \A w \in Writers : writer[w] = "off"
           /\ \A t \in Tasks : asked[t] = None
NoneIsLeft == Settled => \A m \in Posts : channel[m] = "progress" => m \in excused \cup overtaken

(* "stop() in finally guarantees the message disappears whether the batch  *)
(* succeeds, raises, or is cancelled" (bot.py:13581-13583).                *)
ProgressDisappears == Settled => \A m \in Posts : channel[m] # "progress"
=============================================================================
