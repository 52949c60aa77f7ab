-------------------------- MODULE MessageEdits --------------------------
(***************************************************************************)
(* How an edit of a message reaches the turn that answers it.  Discord     *)
(* edits a message, or adds the preview of a link to it, while the bot has *)
(* it in on_message, in the debounce bucket of its room, in the reply line *)
(* or in a turn.  _refresh_edited_message runs once per update, awaits the *)
(* memory and the download of the pictures, and only then hands the new    *)
(* text to the bucket and to the turn; a turn looks for such a notice when *)
(* its prompt has been built.                                              *)
(*                                                                         *)
(* One message is asked and answered; it may reply to another one.  The    *)
(* versions of a message are numbered, version 0 is its creation: a        *)
(* fingerprint is the number, the text of a version differs from that of   *)
(* every other, its picture is PictureOf[version].  A message object is    *)
(* either the one the Discord library holds, which it edits in place (Live)*)
(* or a copy, known by its version.  The writes of the memory wait for one *)
(* fair lock, so that a row is given its value when its write is requested.*)
(* The pictures inside a prompt are left out, those the room remembers for *)
(* later turns are not.                                                    *)
(***************************************************************************)
EXTENDS Naturals, FiniteSets

CONSTANTS Asked, Parent,      \* the message of the turn, the one it replies to
          Edits,              \* message -> how often it is edited (bound)
          Pictures,
          PictureOf,          \* version -> its picture, or NoPicture
          Held,               \* the messages the Discord library has cached
          NoPicture, Live, None

Messages == {Asked, Parent}
Versions == UNION {0..Edits[x] : x \in Messages}

ASSUME EditsAssumption ==
    /\ Asked # Parent
    /\ Edits \in [Messages -> Nat]
    /\ PictureOf \in [Versions -> Pictures \cup {NoPicture}]
    /\ NoPicture \notin Pictures
    /\ Held \subseteq Messages
    /\ Live \notin Nat /\ None \notin Nat \cup {Live}

VARIABLES newest,     \* message -> its version at Discord
          delivered,  \* message -> the last update the gateway has delivered
          handler,    \* message -> update -> its _refresh_edited_message
          known,      \* _message_update_state: the version last registered
          snapshot,   \* _message_snapshots: message object or None
          row,        \* message -> the version in the memory, or None
          visual,     \* _media_context: message -> its cached pictures
          bucket,     \* the debounce bucket's latest_directed, or None
          turn,       \* where the asked message is, and the turn's own copies
          context     \* its entry of _inflight_context, and what it was told

vars == <<newest, delivered, handler, known, snapshot, row, visual, bucket,
          turn, context>>

(* A handler fetches an update of a message the library does not hold,     *)
(* waits for the memory, then for the download.                            *)
HandlerStates == {"none", "fetching", "storing", "loading", "done"}
Unborn == [at |-> "none", version |-> 0, changed |-> FALSE]
Pending(x, n) == handler[x][n].at \in {"fetching", "storing", "loading"}
Settled(x) == \A n \in 1..Edits[x] : ~Pending(x, n)

(* "received": on_message has it; "bucket" and "line": it waits for a      *)
(* reply; then its turn fetches it again for a late preview, downloads the *)
(* pictures, builds the prompt, builds it again, runs the tools again,     *)
(* waits for a model slot and has sent its request.                        *)
TurnStates == {"received", "bucket", "line", "begun", "fetching", "fetched",
               "extracting", "building", "rebuilding", "retooling", "slot",
               "asked", "over"}

(* What the message object o of x says when it is read now.                *)
Read(x, o) == IF o = Live THEN delivered[x] ELSE o
Created(x) == IF x \in Held THEN Live ELSE 0
PicturesOf(v) == {PictureOf[v]} \ {NoPicture}

(* told is a history: the version of its own message the turn was last     *)
(* told of; early: before it had its pictures; followed: a notice of the   *)
(* parent has come since.                                                  *)
Closed == [open |-> FALSE, ids |-> {}, message |-> None, latest |-> None,
           version |-> 0, seen |-> 0,
           told |-> None, early |-> FALSE, followed |-> FALSE]

Init == /\ newest = [x \in Messages |-> 0]
        /\ delivered = [x \in Messages |-> 0]
        /\ handler = [x \in Messages |-> [n \in 1..Edits[x] |-> Unborn]]
        /\ known = [x \in Messages |-> None]
        /\ snapshot = [x \in Messages |-> None]
        /\ row = [x \in Messages |-> IF x = Asked THEN None ELSE 0]
        /\ visual = [x \in Messages |-> {}]
        /\ bucket = None
        /\ turn = [at |-> "received", object |-> Created(Asked), content |-> 0,
                   fetched |-> None, mark |-> 0]
        /\ context = Closed
-----------------------------------------------------------------------------
(* Plausible wrong forms of the definitions below: each breaks a property. *)
NeverSuperseded(x, v) == FALSE           \* a slow download wins
NothingMeanwhile == FALSE                \* builds the prompt again only once
-----------------------------------------------------------------------------
(* Discord: the message changes, and the gateway reports it in order.      *)
Edit(x) == /\ newest[x] < Edits[x]
           /\ newest' = [newest EXCEPT ![x] = @ + 1]
           /\ UNCHANGED <<delivered, handler, known, snapshot, row, visual,
                          bucket, turn, context>>

(* _refresh_edited_message up to its first await, for version v of x: an   *)
(* update that is the registered one already changes nothing more.  A held *)
(* message is reported twice, raw and as an object; the second report ends *)
(* at once and leaves the library's object as the snapshot.                *)
Register(x, n, v) ==
    /\ snapshot' = [snapshot EXCEPT ![x] = IF x \in Held THEN Live ELSE v]
    /\ IF known[x] = v
       THEN /\ handler' = [handler EXCEPT ![x][n].at = "done"]
            /\ UNCHANGED <<known, row>>
       ELSE /\ known' = [known EXCEPT ![x] = v]
            /\ row' = [row EXCEPT ![x] = v]
            /\ handler' = [handler EXCEPT ![x][n] =
                 [at |-> "storing", version |-> v,
                  changed |-> known[x] = None
                              \/ PictureOf[known[x]] # PictureOf[v]]]
    /\ UNCHANGED <<newest, visual, bucket, turn, context>>

Deliver(x) ==
    LET n == delivered[x] + 1
    IN  /\ delivered[x] < newest[x]
        /\ delivered' = [delivered EXCEPT ![x] = n]
        /\ IF x \in Held THEN Register(x, n, n)
           ELSE /\ handler' = [handler EXCEPT ![x][n].at = "fetching"]
                /\ UNCHANGED <<newest, known, snapshot, row, visual, bucket,
                               turn, context>>

(* _message_from_raw_update: Discord's answer, or the update itself when   *)
(* the fetch fails or takes longer than four seconds.                      *)
FetchUpdate(x, n) == /\ handler[x][n].at = "fetching"
                     /\ \E v \in n..newest[x] : Register(x, n, v)
                     /\ UNCHANGED delivered

(* A newer update, or a turn, has registered another version of x.         *)
Superseded(x, v) == known[x] # v

(* The target of the bucket is replaced by the edited message.             *)
RefreshBucket(x, v) ==
    bucket' = IF x = Asked /\ bucket # None THEN v ELSE bucket

(* The turn is told: of its own message, or of the one it replies to.      *)
Early == {"begun", "fetching", "fetched", "extracting"}
TellOwn(v) == [context EXCEPT !.message = v, !.latest = v, !.version = @ + 1,
                  !.told = v, !.early = turn.at \in Early, !.followed = FALSE]
TellParent == [context EXCEPT !.latest = context.message, !.version = @ + 1,
                              !.followed = TRUE]
NotifyTurn(x, v) ==
    context' = IF ~context.open \/ x \notin context.ids THEN context
               ELSE IF x = Asked THEN TellOwn(v) ELSE TellParent

(* The end of a handler: it hands its version over unless superseded.      *)
HandOver(x, n) ==
    LET v == handler[x][n].version
    IN  /\ handler' = [handler EXCEPT ![x][n].at = "done"]
        /\ IF Superseded(x, v) THEN UNCHANGED <<bucket, context>>
           ELSE RefreshBucket(x, v) /\ NotifyTurn(x, v)

Stored(x, n) ==
    /\ handler[x][n].at = "storing"
    /\ IF handler[x][n].changed
       THEN /\ handler' = [handler EXCEPT ![x][n].at = "loading"]
            /\ UNCHANGED <<bucket, context>>
       ELSE HandOver(x, n)
    /\ UNCHANGED <<newest, delivered, known, snapshot, row, visual, turn>>

(* The download ends; a superseded one leaves the cache alone, a failed    *)
(* one (ok is FALSE) still hands the text over.                            *)
Loaded(x, n, ok) ==
    LET v == handler[x][n].version
    IN  /\ handler[x][n].at = "loading"
        /\ visual' = IF ~Superseded(x, v) /\ ok
                     THEN [visual EXCEPT ![x] = PicturesOf(v)] ELSE visual
        /\ HandOver(x, n)
        /\ UNCHANGED <<newest, delivered, known, snapshot, row, turn>>
-----------------------------------------------------------------------------
Outside == <<newest, delivered, handler>>

(* on_message stores the message and dispatches it with its text.          *)
Dispatch ==
    /\ turn.at = "received"
    /\ row' = [row EXCEPT ![Asked] = Read(Asked, turn.object)]
    /\ \/ /\ bucket' = turn.object
          /\ turn' = [turn EXCEPT !.at = "bucket"]
       \/ /\ turn' = [turn EXCEPT !.at = "line",
                                  !.content = Read(Asked, turn.object)]
          /\ UNCHANGED bucket
    /\ UNCHANGED <<Outside, known, snapshot, visual, context>>

(* _flush_watch_reply: the bucket's target goes into the line.             *)
Flush == /\ turn.at = "bucket"
         /\ bucket' = None
         /\ turn' = [turn EXCEPT !.at = "line", !.object = bucket,
                                 !.content = Read(Asked, bucket)]
         /\ UNCHANGED <<Outside, known, snapshot, row, visual, context>>

(* The turn registers itself; it answers the text it was dispatched with.  *)
Begin == /\ turn.at = "line"
         /\ turn' = [turn EXCEPT !.at = "begun"]
         /\ context' = [Closed EXCEPT !.open = TRUE, !.ids = {Asked},
                                      !.message = turn.object]
         /\ UNCHANGED <<Outside, known, snapshot, row, visual, bucket>>

(* _wait_for_late_embeds asks Discord again for a message whose link has   *)
(* no preview yet; the answer is a copy, and an update may overtake it.    *)
AskAgain == /\ turn.at = "begun"
            /\ turn' = [turn EXCEPT !.at = "fetching"]
            /\ UNCHANGED <<Outside, known, snapshot, row, visual, bucket,
                           context>>

Answered == /\ turn.at = "fetching"
            /\ turn' = [turn EXCEPT !.at = "fetched", !.fetched = newest[Asked]]
            /\ UNCHANGED <<Outside, known, snapshot, row, visual, bucket,
                           context>>

TakeAnswer ==
    /\ turn.at = "fetched"
    /\ turn' = [turn EXCEPT !.at = "extracting", !.object = turn.fetched,
                            !.content = turn.fetched]
    /\ context' = [context EXCEPT !.message = turn.fetched]
    /\ row' = IF context.version = 0
              THEN [row EXCEPT ![Asked] = turn.fetched] ELSE row
    /\ UNCHANGED <<Outside, known, snapshot, visual, bucket>>

(* The message has its preview or no link, or the fetch fails.             *)
NoAnswer == /\ turn.at \in {"begun", "fetching"}
            /\ turn' = [turn EXCEPT !.at = "extracting"]
            /\ UNCHANGED <<Outside, known, snapshot, row, visual, bucket,
                           context>>

(* The pictures have been downloaded: unless it has been told of an edit,  *)
(* the turn registers its own message as the newest.                       *)
Extracted ==
    LET own == PicturesOf(Read(Asked, turn.object))
        told == context.version # 0
    IN  /\ turn.at = "extracting"
        /\ turn' = [turn EXCEPT !.at = "building"]
        /\ context' = [context EXCEPT !.ids = {Asked, Parent},
                                      !.message = turn.object]
        /\ IF told THEN UNCHANGED <<known, snapshot, visual>>
           ELSE /\ visual' = [visual EXCEPT ![Asked] = @ \cup own]
                /\ snapshot' = [snapshot EXCEPT ![Asked] = turn.object]
                /\ known' = [known EXCEPT ![Asked] = Read(Asked, turn.object)]
        /\ UNCHANGED <<Outside, row, bucket>>

Unseen == context.version > context.seen

(* _apply_inflight_refresh: the newest notice becomes the message of the   *)
(* turn and the prompt is built again.                                     *)
Rebuild ==
    /\ turn' = [turn EXCEPT !.at = "rebuilding", !.object = context.latest,
                            !.content = Read(Asked, context.latest),
                            !.mark = context.version]
    /\ context' = [context EXCEPT !.message = context.latest,
                                  !.seen = context.version]
    /\ UNCHANGED <<Outside, known, snapshot, row, visual, bucket>>

(* The turn goes for its model slot; one that was told of an edit registers*)
(* its message once more.                                                  *)
GoToSlot ==
    /\ turn' = [turn EXCEPT !.at = "slot"]
    /\ context' = [context EXCEPT !.message = turn.object]
    /\ IF context.version = 0 THEN UNCHANGED <<known, snapshot>>
       ELSE /\ snapshot' = [snapshot EXCEPT ![Asked] = turn.object]
            /\ known' = [known EXCEPT ![Asked] = Read(Asked, turn.object)]
    /\ UNCHANGED <<Outside, row, visual, bucket>>

Built == /\ turn.at = "building"
         /\ IF Unseen THEN Rebuild ELSE GoToSlot

(* Another notice came while the prompt was built again.                   *)
NoticedMeanwhile == context.version # turn.mark
Rebuilt ==
    /\ turn.at = "rebuilding"
    /\ IF NoticedMeanwhile THEN Rebuild
       ELSE /\ turn' = [turn EXCEPT !.at = "retooling"]
            /\ UNCHANGED <<Outside, known, snapshot, row, visual, bucket,
                           context>>

(* The tools that ran before the first prompt have run for the new text.   *)
Retooled == turn.at = "retooling" /\ GoToSlot

Ask == /\ turn.at = "slot"
       /\ turn' = [turn EXCEPT !.at = "asked"]
       /\ UNCHANGED <<Outside, known, snapshot, row, visual, bucket, context>>

Finish == /\ turn.at = "asked"
          /\ turn' = [turn EXCEPT !.at = "over"]
          /\ context' = Closed
          /\ UNCHANGED <<Outside, known, snapshot, row, visual, bucket>>

TurnStep == Dispatch \/ Flush \/ Begin \/ AskAgain \/ Answered \/ TakeAnswer
            \/ NoAnswer \/ Extracted \/ Built \/ Rebuilt \/ Retooled \/ Ask
            \/ Finish

HandlerStep(x, n) == \/ FetchUpdate(x, n) \/ Stored(x, n)
                     \/ \E ok \in BOOLEAN : Loaded(x, n, ok)

Next == \/ \E x \in Messages : Edit(x) \/ Deliver(x)
        \/ \E x \in Messages : \E n \in 1..Edits[x] : HandlerStep(x, n)
        \/ TurnStep

Spec == Init /\ [][Next]_vars
-----------------------------------------------------------------------------
Object(x) == Versions \cup {None} \cup (IF x \in Held THEN {Live} ELSE {})

(* Every variable of the edit path keeps its shape: the library's object is*)
(* only ever named for a message the library holds.                        *)
TypeOK ==
    /\ newest \in [Messages -> Versions] /\ delivered \in [Messages -> Versions]
    /\ \A x \in Messages :
         /\ delivered[x] <= newest[x] /\ newest[x] <= Edits[x]
         /\ handler[x] \in [1..Edits[x] -> [at : HandlerStates,
                                version : Versions, changed : BOOLEAN]]
         /\ snapshot[x] \in Object(x)
    /\ known \in [Messages -> Versions \cup {None}]
    /\ row \in [Messages -> Versions \cup {None}]
    /\ visual \in [Messages -> SUBSET Pictures]
    /\ bucket \in Object(Asked)
    /\ turn \in [at : TurnStates, object : Object(Asked), content : Versions,
                 fetched : Versions \cup {None}, mark : Nat]
    /\ context \in [open : BOOLEAN, ids : SUBSET Messages,
                    message : Object(Asked), latest : Object(Asked),
                    version : Nat, seen : Nat, told : Versions \cup {None},
                    early : BOOLEAN, followed : BOOLEAN]

Building == {"building", "rebuilding"}
Completes == turn.at \in Building /\ turn'.at \notin Building
Reverted == context.early /\ context.followed
TakesAllIn == context.version # 0 => turn.mark = context.version
AnswersTold == context.told # None => turn.content >= context.told

(* A notice that arrives while the prompt is built, or built again, is     *)
(* never marked as seen and then left out: a complete prompt was begun     *)
(* after the last notice of either message, and answers no older text than *)
(* the one the turn was last told of (bot.py:4567-4628).  Apart: a text    *)
(* told before the turn had its pictures, which the turn writes over       *)
(* (bot.py:11435, 11649), when a notice of the parent follows.             *)
PromptIsFresh == [][Completes => TakesAllIn /\ (Reverted \/ AnswersTold)]_vars

(* The same without that case.  The code breaks it, although the notice of *)
(* a parent "must not replace the message" being answered (bot.py:4755).   *)
ToldIsAnswered == [][Completes => AnswersTold]_vars

(* While a message waits for its reply and none of its updates is being    *)
(* handled, the bucket of its room and its row in the memory are those of  *)
(* the newest update, in whatever order the downloads of the updates ended *)
(* (bot.py:4699-4730).                                                     *)
WaitingIsCurrent ==
    turn.at \in {"bucket", "line"} /\ Asked \in Held /\ Settled(Asked)
    => /\ row[Asked] = delivered[Asked]
       /\ bucket # None => Read(Asked, bucket) = delivered[Asked]

(* Once every update of the asked message has been handled and its turn is *)
(* over, the bot remembers its newest version: "Keep transcript/visual     *)
(* context current without answering the edit" (bot.py:4773).              *)
EditsAreKept ==
    turn.at = "over" /\ Settled(Asked) /\ delivered[Asked] = newest[Asked]
    => /\ row[Asked] = newest[Asked]
       /\ Read(Asked, snapshot[Asked]) = newest[Asked]
=========================================================================
