------------------------------- MODULE Inbox -------------------------------
(* The inbox: a ring of items in one JSON file, each operation of which     *)
(* holds a lock from its read to its write; the relationship events,        *)
(* actions and notices that are made of several such operations; and the    *)
(* turns that show the unread items in their prompts and, once a reply is   *)
(* out, mark the notices as read through one list shared by every room.     *)
EXTENDS Integers, Sequences, SequencesExt, FiniteSets

CONSTANTS Users,     \* people; a person's friend request is an item of that name
          Notices,   \* items that wait for no decision
          Handlers,  \* tasks of gateway events, one event each at a time
          Actions,   \* tool calls of inbox_act
          Turns,     \* replies being written, one per room
          Ring,      \* INBOX_RING_SIZE
          Lines,     \* how many items the tail of a prompt has room for
          PerKind,   \* KIND_RENDER_CAP_DEFAULT
          MaxMoves,  \* bound: what people, servers, tools and turns begin, in all
          MaxLate,   \* bound: writes that outlive their tasks at one time
          None

Calls == Handlers \cup Actions \cup Turns
Ids == Users \cup Notices
Actionable == {"unread", "read"}
States == {"unread", "read", "dismissed", "acted"}
Kinds == {"add", "gone", "friends", "seed", "notice", "dismiss", "blind", "see", "accept",
          "decline", "announce"}
Writing == {"upserting", "marking"}

InboxAssumption == /\ Ring \in Nat \ {0} /\ Lines \in Nat /\ PerKind \in Nat
                   /\ MaxMoves \in Nat /\ MaxLate \in Nat /\ Users \cap Notices = {}
                   /\ Handlers \cap Actions = {} /\ Turns \cap (Handlers \cup Actions) = {}
                   /\ None \notin Calls \cup Ids \cup States \cup Kinds
ASSUME InboxAssumption

VARIABLES items,    \* the file: items in the order of their creation
          queue,    \* the lock: its holder, then the tasks that wait for it
          call,     \* where each task is, for which item, with what it has read
          late,     \* writes that outlived the task that asked for them
          relation, \* what Discord holds of each person
          cache,    \* what the library knows of it
          wire,     \* gateway events on their way
          shown,    \* _inbox_shown_ids
          carried,  \* the notices the prompt of a turn did carry
          moves,
          told,     \* history: notices a reply has carried, or he has read himself
          lost,     \* history: notices whose marking was cancelled, or that a later
                    \* prompt had no place for
          closed,   \* history: items he dismissed and nobody sent again
          fresh,    \* history: requests nothing has happened to since they came
          strayed,  \* history: a write has outlived its task
          dropped   \* history: people whose request the ring has dropped

file == <<items, queue, call, late>>
discord == <<relation, cache, wire>>
prompts == <<shown, carried>>
history == <<told, lost, closed, fresh, strayed, dropped>>
inboxVars == <<file, discord, prompts, moves, history>>

Task(at, kind, i, todo) == [at |-> at, kind |-> kind, id |-> i, base |-> <<>>, todo |-> todo]
Idle == Task("idle", None, None, <<>>)

InboxInit == /\ items = <<>> /\ queue = <<>> /\ late = {} /\ wire = <<>>
             /\ call = [c \in Calls |-> Idle]
             /\ relation = [u \in Users |-> "none"] /\ cache = relation
             /\ shown = <<>> /\ carried = [t \in Turns |-> {}] /\ moves = 0
             /\ told = {} /\ lost = {} /\ closed = {} /\ fresh = {}
             /\ strayed = FALSE /\ dropped = {}

-----------------------------------------------------------------------------
(* What the operations make of the list they have read.                     *)

(* The elements of a list that are in a set, in their order.                *)
Only(list, wanted) ==
    LET kept[n \in 0..Len(list)] ==
            IF n = 0 THEN <<>>
            ELSE IF list[n] \in wanted THEN Append(kept[n - 1], list[n]) ELSE kept[n - 1]
    IN kept[Len(list)]

Has(list, i) == \E k \in DOMAIN list : list[k].id = i
State(list, i) == IF Has(list, i)
                  THEN (CHOOSE x \in ToSet(list) : x.id = i).state ELSE None
Marked(list, i, s) ==
    [k \in DOMAIN list |-> IF list[k].id = i THEN [id |-> i, state |-> s] ELSE list[k]]
Upserted(list, i) == IF Has(list, i) THEN Marked(list, i, "unread")
                     ELSE Append(list, [id |-> i, state |-> "unread"])
Ringed(list) == SubSeq(list, IF Len(list) > Ring THEN Len(list) - Ring + 1 ELSE 1, Len(list))

(* planner_items for a prompt: unread before read, requests before notices, *)
(* newest first, and no more than PerKind of a kind.                        *)
Of(ids, state) == [id : ids, state : {state}]
Capped(list) == SubSeq(list, 1, IF Len(list) > PerKind THEN PerKind ELSE Len(list))
Pending(list) ==
    LET feed == Reverse(list)
        requests == Capped(Only(feed, Of(Users, "unread")) \o Only(feed, Of(Users, "read")))
    IN Only(requests, Of(Users, "unread")) \o Capped(Only(feed, Of(Notices, "unread")))
         \o Only(requests, Of(Users, "read"))
Rendered(list) == SubSeq(list, 1, IF Len(list) > Lines THEN Lines ELSE Len(list))
(* _append_inbox_dynamic remembers more than the prompt had room for.       *)
Remembered(list) ==
    LET news == Only(list, Of(Notices, "unread")) IN [k \in DOMAIN news |-> news[k].id]

-----------------------------------------------------------------------------
(* The sections under the lock.                                             *)

Begins(c, section, kind, i) ==
    /\ call[c] = Idle
    /\ call' = [call EXCEPT ![c] = Task(section, kind, i, <<>>)]
    /\ queue' = Append(queue, c)

(* What a task does after a section: it is done, or goes on to another one, *)
(* at the end of the line, or to Discord.                                   *)
GoesOn(c, next) ==
    /\ call' = [call EXCEPT ![c] = next]
    /\ queue' = IF next.at \in {"get", "upsert", "mark"} THEN Append(Tail(queue), c)
                ELSE Tail(queue)

(* A seed leaves the items it finds alone; a plausible wrong form does not. *)
ReseedsAll(x) == TRUE
Reseeds(x) == x = None

AfterGet(c, list) ==
    LET w == call[c]
        x == State(list, w.id)
        marks == \/ w.kind = "friends" /\ x \in Actionable
                 \/ w.kind \in {"dismiss", "see"} /\ (x # None \/ w.id \in Users)
        blind == w.kind = "dismiss" /\ x = None
    IN IF marks THEN Task("mark", IF blind THEN "blind" ELSE w.kind, w.id, <<>>)
       ELSE IF w.kind = "seed" /\ Reseeds(x) THEN Task("upsert", w.kind, w.id, <<>>)
       ELSE IF w.kind \in {"accept", "decline"} /\ cache[w.id] # "none"
       THEN Task("asking", w.kind, w.id, <<>>)
       ELSE Idle

(* _mark_inbox_announced marks one notice after the other.                  *)
Announce(ids) == IF ids = <<>> THEN Idle ELSE Task("mark", "announce", Head(ids), Tail(ids))
NextMark(c) == Announce(call[c].todo)

HasLock(c) == queue # <<>> /\ Head(queue) = c

(* InboxStore.get.                                                          *)
Get(c) ==
    /\ HasLock(c) /\ call[c].at = "get"
    /\ GoesOn(c, AfterGet(c, items))
    /\ UNCHANGED <<items, late, discord, prompts, moves, history>>

Loaded(w) == [at |-> IF w.at = "mark" THEN "marking" ELSE "upserting", kind |-> w.kind,
              id |-> w.id, base |-> items, todo |-> w.todo]

(* A section that writes has read the file; a mark that finds no item is    *)
(* over.                                                                    *)
Load(c) ==
    /\ HasLock(c) /\ call[c].at \in {"upsert", "mark"}
    /\ IF call[c].at = "mark" /\ ~Has(items, call[c].id)
       THEN GoesOn(c, NextMark(c))
       ELSE call' = [call EXCEPT ![c] = Loaded(@)] /\ UNCHANGED queue
    /\ UNCHANGED <<items, late, discord, prompts, moves, history>>

Outcome == [dismiss |-> "dismissed", blind |-> "dismissed", gone |-> "dismissed",
            see |-> "read", announce |-> "read", friends |-> "acted", accept |-> "acted",
            decline |-> "acted"]
Written(w) == Ringed(IF w.at = "upserting" THEN Upserted(w.base, w.id)
                     ELSE Marked(w.base, w.id, Outcome[w.kind]))

(* What the write of a call means for the histories.                        *)
Recorded(w) ==
    /\ told' = IF w.at = "upserting" THEN told \ {w.id}
               ELSE IF w.kind = "see" THEN told \cup {w.id} ELSE told
    /\ closed' = IF w.at = "upserting"
                 THEN IF w.kind = "seed" /\ Has(w.base, w.id) THEN closed ELSE closed \ {w.id}
                 ELSE IF w.kind = "dismiss" THEN closed \cup {w.id}
                 ELSE IF w.kind = "see" THEN closed \ {w.id} ELSE closed
    /\ carried' = IF w.at = "upserting" THEN [t \in Turns |-> carried[t] \ {w.id}]
                  ELSE carried
    /\ dropped' = dropped \cup {u \in Users : Has(items, u) /\ ~Has(items', u)}

(* The file is replaced, and only then the lock is free.                    *)
Save(c) ==
    /\ HasLock(c) /\ call[c].at \in Writing
    /\ items' = Written(call[c])
    /\ Recorded(call[c])
    /\ GoesOn(c, NextMark(c))
    /\ UNCHANGED <<late, discord, shown, moves, lost, fresh, strayed>>

(* A turn can be cancelled at any of its awaits, and its tool calls with    *)
(* it. The lock is free at once; a thread that is writing goes on.          *)
Cancel(c) ==
    /\ c \in Actions \cup Turns /\ call[c] # Idle
    /\ call' = [call EXCEPT ![c] = Idle]
    /\ queue' = Only(queue, Calls \ {c})
    /\ IF call[c].at \in Writing
       THEN Cardinality(late) < MaxLate /\ late' = late \cup {call[c]} /\ strayed' = TRUE
       ELSE UNCHANGED <<late, strayed>>
    /\ lost' = IF call[c].kind = "announce" THEN lost \cup ToSet(call[c].todo) \cup {call[c].id}
               ELSE lost
    /\ carried' = IF c \in Turns THEN [carried EXCEPT ![c] = {}] ELSE carried
    /\ UNCHANGED <<items, discord, shown, moves, told, closed, fresh, dropped>>

LateSave(w) ==
    /\ w \in late /\ late' = late \ {w}
    /\ items' = Written(w)
    /\ Recorded(w)
    /\ UNCHANGED <<queue, call, discord, shown, moves, lost, fresh, strayed>>

-----------------------------------------------------------------------------
(* Discord and its people.                                                  *)

Moves == moves < MaxMoves /\ moves' = moves + 1
Becomes(u, state, event) ==
    /\ relation' = [relation EXCEPT ![u] = state]
    /\ wire' = Append(wire, [kind |-> event, id |-> u])
    /\ UNCHANGED cache

PersonAsks(u) == relation[u] = "none" /\ Moves /\ Becomes(u, "incoming", "add")
                 /\ UNCHANGED <<file, prompts, history>>
PersonLeaves(u) ==
    /\ relation[u] # "none" /\ Moves
    /\ Becomes(u, "none", IF relation[u] = "incoming" THEN "gone" ELSE "parted")
    /\ UNCHANGED <<file, prompts, history>>

(* A new request opens its item again; a plausible wrong form inserts it    *)
(* only if there is none, as a seed does.                                   *)
RequestInserts(c, u) == Begins(c, "get", "seed", u)
Request(c, u) == Begins(c, "upsert", "add", u)

(* ingest_relationship: the library updates its cache, and the handler runs *)
(* to its first await, which is the lock.                                   *)
Handle(c) ==
    LET e == Head(wire)
        open == \E d \in Calls : call[d].id = e.id /\ call[d].kind # "gone"
    IN /\ wire # <<>> /\ wire' = Tail(wire)
       /\ cache' = [cache EXCEPT ![e.id] = CASE e.kind = "add" -> "incoming"
                                              [] e.kind = "friends" -> "friend"
                                              [] OTHER -> "none"]
       /\ fresh' = IF e.kind = "add" /\ ~open THEN fresh \cup {e.id} ELSE fresh \ {e.id}
       /\ \/ e.kind = "add" /\ Request(c, e.id)
          \/ e.kind = "gone" /\ Begins(c, "mark", "gone", e.id)
          \/ e.kind = "friends" /\ Begins(c, "get", "friends", e.id)
          \/ e.kind = "parted" /\ UNCHANGED <<call, queue>>
       /\ UNCHANGED <<items, late, relation, prompts, moves, told, lost, closed, strayed, dropped>>

(* on_ready: a new session knows the relationships of the moment, the       *)
(* events on the wire are gone, and seed_from_bot looks at a request it     *)
(* finds.                                                                   *)
Seed(c, u) ==
    /\ Moves
    /\ wire' = <<>> /\ cache' = relation
    /\ IF relation[u] = "incoming" THEN Begins(c, "get", "seed", u)
       ELSE call[c] = Idle /\ UNCHANGED <<call, queue>>
    /\ fresh' = fresh \ {x \in Users : relation[x] # cache[x] \/ relation[x] # "incoming"}
    /\ UNCHANGED <<items, late, relation, prompts, told, lost, closed, strayed, dropped>>

(* add_notice, with an id of its own or that of an earlier notice.          *)
Notice(c, n) ==
    /\ Moves
    /\ Begins(c, "upsert", "notice", n)
    /\ UNCHANGED <<items, late, discord, prompts, history>>

-----------------------------------------------------------------------------
(* apply_inbox_action.                                                      *)

Act(c, kind, i) ==
    /\ Moves
    /\ Begins(c, "get", kind, i)
    /\ fresh' = fresh \ {i}
    /\ UNCHANGED <<items, late, discord, prompts, told, lost, closed, strayed, dropped>>

(* The request to Discord takes effect, and then its reply arrives; either  *)
(* may fail.                                                                *)
Effect(c) ==
    /\ call[c].at = "asking"
    /\ call' = [call EXCEPT ![c].at = "answered"]
    /\ LET u == call[c].id IN
         IF call[c].kind = "accept"
         THEN relation[u] = "incoming" /\ Becomes(u, "friend", "friends")
         ELSE /\ relation[u] # "none"
              /\ Becomes(u, "none", IF relation[u] = "incoming" THEN "gone" ELSE "parted")
    /\ UNCHANGED <<items, queue, late, prompts, moves, history>>
Reply(c) ==
    /\ call[c].at = "answered"
    /\ call' = [call EXCEPT ![c].at = "mark"]
    /\ queue' = Append(queue, c)
    /\ UNCHANGED <<items, late, discord, prompts, moves, history>>
Refused(c) ==
    /\ call[c].at \in {"asking", "answered"}
    /\ call' = [call EXCEPT ![c] = Idle]
    /\ UNCHANGED <<items, queue, late, discord, prompts, moves, history>>

-----------------------------------------------------------------------------
(* Turns.                                                                   *)

(* _append_inbox_dynamic. An empty inbox leaves the list as it is.          *)
Prompt(t) ==
    /\ Moves
    /\ call[t] = Idle /\ queue = <<>>
    /\ call' = [call EXCEPT ![t] = Task("writing", None, None, <<>>)]
    /\ IF Pending(items) = <<>>
       THEN carried' = [carried EXCEPT ![t] = {}] /\ UNCHANGED <<shown, lost>>
       ELSE /\ shown' = Remembered(Pending(items))
            /\ carried' = [carried EXCEPT ![t] = {x.id : x \in ToSet(Rendered(Pending(items)))}]
            /\ lost' = lost \cup {n \in ToSet(shown) \ ToSet(shown') : State(items, n) = "unread"}
    /\ UNCHANGED <<items, queue, late, discord, told, closed, fresh, strayed, dropped>>

(* The reply is out: _mark_inbox_announced.                                 *)
Delivered(t) ==
    /\ call[t].at = "writing"
    /\ shown' = <<>>
    /\ told' = told \cup (carried[t] \cap Notices)
    /\ carried' = [carried EXCEPT ![t] = {}]
    /\ call' = [call EXCEPT ![t] = Announce(shown)]
    /\ queue' = IF shown = <<>> THEN queue ELSE Append(queue, t)
    /\ UNCHANGED <<items, late, discord, moves, lost, closed, fresh, strayed, dropped>>

(* A plausible wrong form: a silent turn drops the list, which is another's *)
(* as well.                                                                 *)
SilentForgets(t) ==
    /\ call[t].at = "writing"
    /\ call' = [call EXCEPT ![t] = Idle]
    /\ carried' = [carried EXCEPT ![t] = {}] /\ shown' = <<>>
    /\ UNCHANGED <<items, queue, late, discord, moves, history>>

(* The turn ends without a reply.                                           *)
Silent(t) ==
    /\ call[t].at = "writing"
    /\ call' = [call EXCEPT ![t] = Idle]
    /\ carried' = [carried EXCEPT ![t] = {}]
    /\ UNCHANGED <<items, queue, late, discord, shown, moves, history>>

InboxNext ==
    \/ \E c \in Calls : Get(c) \/ Load(c) \/ Save(c) \/ Cancel(c)
    \/ \E w \in late : LateSave(w)
    \/ \E u \in Users : PersonAsks(u) \/ PersonLeaves(u)
    \/ \E c \in Handlers : Handle(c) \/ (\E u \in Users : Seed(c, u))
                           \/ (\E n \in Notices : Notice(c, n))
    \/ \E c \in Actions : \/ \E k \in {"dismiss", "see"} : \E i \in Ids : Act(c, k, i)
                          \/ \E k \in {"accept", "decline"} : \E u \in Users : Act(c, k, u)
                          \/ Effect(c) \/ Reply(c) \/ Refused(c)
    \/ \E t \in Turns : Prompt(t) \/ Delivered(t) \/ Silent(t)

InboxSpec == InboxInit /\ [][InboxNext]_inboxVars

-----------------------------------------------------------------------------
InboxTypeOK ==
    /\ \A x \in ToSet(items) : x.id \in Ids /\ x.state \in States
    /\ Len(items) <= Ring
    /\ \A c \in Calls : call[c].kind \in Kinds \cup {None} /\ call[c].id \in Ids \cup {None}
    /\ relation \in [Users -> {"none", "incoming", "friend"}]
    /\ ToSet(queue) \subseteq Calls /\ moves \in 0..MaxMoves
    /\ told \subseteq Ids /\ lost \subseteq Ids /\ closed \subseteq Ids
    /\ fresh \subseteq Users /\ dropped \subseteq Users

(* A friend request that nobody has touched since it came is not hidden:    *)
(* whatever withdrawals, acceptances and seeds went before it, once its own *)
(* operation is over its item, if the ring still holds it, asks for the     *)
(* decision (inbox.py:294-345, where each event is one section or two).     *)
Coming(u) == \E c \in Calls : call[c].kind = "add" /\ call[c].id = u
WaitingIsShown ==
    \A u \in fresh : ~strayed /\ ~Coming(u) /\ Has(items, u) =>
        State(items, u) \in Actionable

(* A request he has dismissed stays dismissed until the same person asks    *)
(* anew: no turn that had it in its prompt and no seed brings it back       *)
(* (inbox.py:234-245).                                                      *)
DecisionStands ==
    ~strayed => \A u \in (closed \cap Users) \ dropped : State(items, u) \notin Actionable

(* A notice that a reply has carried is not announced again: when no task   *)
(* is left to mark it, it is no longer unread (bot.py:3899-3903).           *)
Quiet == \A c \in Calls : call[c] = Idle
AnnouncedOnce ==
    Quiet /\ ~strayed => \A n \in told \ lost : State(items, n) # "unread"

(* Claimed by bot.py:3899-3901: a notice is marked as read once a reply has *)
(* carried it, and not on a turn that stayed silent.                        *)
OnlyCarriedAreRead ==
    \A n \in Notices : State(items, n) = "read" => n \in told

(* Claimed by inbox.py:86: one lock around every read-modify-write.         *)
WritesAreSerial ==
    \A w \in late \cup {call[c] : c \in Calls} : w.at \in Writing => w.base = items
=============================================================================
