--------------------------- MODULE ReplyQueue ---------------------------
(***************************************************************************)
(* message_pipeline.ReplyQueue: one reply turn at a time in every room, the*)
(* other messages wait.  A room with work has a pump task that pops its    *)
(* queue and awaits one turn after the other; submit, cancel_channel and   *)
(* cancel_message run between the steps of the event loop, close suspends  *)
(* while it awaits each room's turn and pump.                              *)
(*                                                                         *)
(* A pump task is modelled together with the turn it awaits.  A room is in *)
(* _channels exactly while its state names a pump, so the dictionary is    *)
(* not kept apart.  running_message_id is set and cleared with running: it *)
(* is the message of that turn.  The clock is left out: a queued entry may *)
(* at any time turn older than max_age.  The burst of an entry is left out,*)
(* as the pump never hands it to the turn.                                 *)
(*                                                                         *)
(* Left out: a pump that is cancelled under a live turn (lines 327-331).   *)
(* Only close() cancels pumps, and it has awaited the turn by then.        *)
(***************************************************************************)
EXTENDS Naturals, Sequences, FiniteSets, SequencesExt

CONSTANTS Rooms, Messages,
          RoomOf,        \* the channel of a message
          MaxDirected,   \* max_directed
          Copies,        \* names for the pump tasks of one room
          None

ASSUME QueueAssumption ==
    /\ RoomOf \in [Messages -> Rooms]
    /\ MaxDirected \in Nat \ {0}
    /\ Copies # {}
    /\ None \notin Rooms \cup Messages \cup (Rooms \X Copies)

VARIABLES queue,     \* room -> sequence of pending entries
          pump,      \* room -> its pump task, or None
          running,   \* room -> the pump whose turn is state.running, or None
          worker,    \* pump -> what this task is doing and for whom
          phase,     \* close(): "open", "closing" or "closed"
          toClose,   \* rooms close() has still to visit
          visiting   \* the room close() is awaiting, or None

vars == <<queue, pump, running, worker, phase, toClose, visiting>>

Entry == [msg : Messages, directed : BOOLEAN, stale : BOOLEAN]

(* "ready" has been created but not run; "live" and "cancelling" await a   *)
(* turn, "over" is about to be resumed after it; "done" has finished.      *)
WorkerStates == {"done", "ready", "live", "cancelling", "over"}
Idle == [state |-> "done", msg |-> None]

(* The pump tasks of room r; a correct queue never has two of them.        *)
Pumps == Rooms \X Copies
RoomFor(p) == p[1]

Ids(line) == {line[i].msg : i \in DOMAIN line}
InTurn(p) == worker[p].state \in {"live", "cancelling"}
Active(r) == running[r] # None /\ InTurn(running[r])

Init == /\ queue = [r \in Rooms |-> <<>>]
        /\ pump = [r \in Rooms |-> None]
        /\ running = [r \in Rooms |-> None]
        /\ worker = [p \in Pumps |-> Idle]
        /\ phase = "open"
        /\ toClose = {}
        /\ visiting = None
-----------------------------------------------------------------------------
(* Plausible wrong forms of the definitions below: each breaks a property. *)
OldestFirst(line) == 1                       \* evicts whatever is oldest
ToTheBack(line, i, e) == Append(RemoveAt(line, i), e)
AlwaysMissing(r) == TRUE                     \* a pump for every submission
OneTurnOnly(r) == running[r] = None /\ queue[r] # <<>>  \* no loop
Unrecorded(r, p) == running[r]               \* forgets to set running
-----------------------------------------------------------------------------
(* _expire: entries too old to be answered leave the line.                 *)
Unexpired(line) ==
    LET kept[n \in 0..Len(line)] ==
            IF n = 0 THEN <<>>
            ELSE IF line[n].stale THEN kept[n - 1]
            ELSE Append(kept[n - 1], line[n])
    IN  kept[Len(line)]

(* The place of the only soft entry in the line, or 0.                     *)
SoftPlace(line) == SelectInSeq(line, LAMBDA e : ~e.directed)

(* The place of message m in the line, or 0.                               *)
PlaceOf(line, m) == SelectInSeq(line, LAMBDA e : e.msg = m)

(* The newer entry takes over the place of the one it replaces.            *)
TakePlace(line, i, e) == ReplaceAt(line, i, e)

Overfull(line) == Len(line) > MaxDirected

(* _enforce_bound gives up the soft entry, or else the oldest.             *)
Victim(line) == IF SoftPlace(line) # 0 THEN SoftPlace(line) ELSE 1
EnforceBound(line) ==
    IF Overfull(line) THEN RemoveAt(line, Victim(line)) ELSE line

(* Where submit() leaves the entry: in the place of the same message, in   *)
(* the place of an older soft line, or at the end.                         *)
Placed(line, e) ==
    LET again == PlaceOf(line, e.msg)
    IN  IF again # 0
        THEN TakePlace(line, again,
                       [e EXCEPT !.directed = @ \/ line[again].directed])
        ELSE IF ~e.directed /\ SoftPlace(line) # 0
        THEN TakePlace(line, SoftPlace(line), e)
        ELSE EnforceBound(Append(line, e))

(* _ensure_pump: a new task, unless the room has one that is not done.     *)
NeedsPump(r) == pump[r] # None => worker[pump[r]].state = "done"
Free(r) == {p \in {r} \X Copies : worker[p] = Idle}
NewWorker(r) == CHOOSE p \in Free(r) : TRUE
EnsurePump(r) ==
    IF NeedsPump(r)
    THEN /\ Free(r) # {}
         /\ worker' = [worker EXCEPT ![NewWorker(r)].state = "ready"]
         /\ pump' = [pump EXCEPT ![r] = NewWorker(r)]
    ELSE UNCHANGED <<worker, pump>>

Accepting == phase = "open"

Submit(m, directed) ==
    LET r == RoomOf[m]
        e == [msg |-> m, directed |-> directed, stale |-> FALSE]
    IN  /\ Accepting
        /\ queue' = [queue EXCEPT ![r] = Placed(Unexpired(@), e)]
        /\ EnsurePump(r)
        /\ UNCHANGED <<running, phase, toClose, visiting>>

(* The clock: a queued entry is now older than max_age.                    *)
GrowOld(r, i) ==
    /\ i \in DOMAIN queue[r]
    /\ ~queue[r][i].stale
    /\ queue' = [queue EXCEPT ![r][i].stale = TRUE]
    /\ UNCHANGED <<pump, running, worker, phase, toClose, visiting>>
-----------------------------------------------------------------------------
(* _pump, from a resumption to the next await: the turn it awaited is      *)
(* forgotten, and the next entry's turn starts or the task ends.           *)
HasWork(r) == queue[r] # <<>>
Recorded(r, p) == p

PumpRuns(p) ==
    LET r == RoomFor(p)
    IN  /\ worker[p].state \in {"ready", "over"}
        /\ \/ /\ HasWork(r)
              /\ queue' = [queue EXCEPT ![r] = Tail(@)]
              /\ worker' = [worker EXCEPT ![p] =
                    [@ EXCEPT !.state = "live", !.msg = Head(queue[r]).msg]]
              /\ running' = [running EXCEPT ![r] = Recorded(r, p)]
              /\ UNCHANGED pump
           \/ /\ ~HasWork(r)
              /\ worker' = [worker EXCEPT ![p] = Idle]
              /\ running' = [running EXCEPT ![r] = None]
              /\ pump' = [pump EXCEPT ![r] = None]
              /\ UNCHANGED queue
        /\ UNCHANGED <<phase, toClose, visiting>>

(* A turn answers, fails, runs into its deadline or obeys a cancellation.  *)
TurnEnds(p) == /\ InTurn(p)
               /\ worker' = [worker EXCEPT ![p].state = "over"]
               /\ UNCHANGED <<queue, pump, running, phase, toClose, visiting>>

(* task.cancel() of the room's running turn, if it has one.                *)
CancelTurn(r) ==
    worker' = IF Active(r)
              THEN [worker EXCEPT ![running[r]].state = "cancelling"]
              ELSE worker

(* cancel_channel, as "!stop" calls it.                                    *)
CancelChannel(r) ==
    /\ pump[r] # None
    /\ CancelTurn(r)
    /\ queue' = [queue EXCEPT ![r] = <<>>]
    /\ UNCHANGED <<pump, running, phase, toClose, visiting>>

(* cancel_message: the turn of this message, or else its pending entry.    *)
CancelMessage(m) ==
    LET r == RoomOf[m]
        turn == running[r] # None /\ worker[running[r]].msg = m
        place == PlaceOf(queue[r], m)
    IN  /\ \/ turn /\ CancelTurn(r) /\ UNCHANGED queue
           \/ /\ ~turn /\ place # 0
              /\ queue' = [queue EXCEPT ![r] = RemoveAt(@, place)]
              /\ UNCHANGED worker
        /\ UNCHANGED <<pump, running, phase, toClose, visiting>>

(* Another message of the same person cancels the turn, not the line.      *)
Interrupt(r) == /\ Active(r)
                /\ CancelTurn(r)
                /\ UNCHANGED <<queue, pump, running, phase, toClose, visiting>>
-----------------------------------------------------------------------------
CloseBegins == /\ phase = "open"
               /\ phase' = "closing"
               /\ toClose' = {r \in Rooms : pump[r] # None}
               /\ UNCHANGED <<queue, pump, running, worker, visiting>>

(* close() empties a room's line and cancels its turn, or, without a turn, *)
(* the pump that has not run yet.                                          *)
CloseVisits(r) ==
    /\ phase = "closing" /\ visiting = None /\ r \in toClose
    /\ queue' = [queue EXCEPT ![r] = <<>>]
    /\ IF pump[r] # None /\ worker[pump[r]].state = "ready"
       THEN /\ worker' = [worker EXCEPT ![pump[r]] = Idle]
            /\ pump' = [pump EXCEPT ![r] = None]
       ELSE CancelTurn(r) /\ UNCHANGED pump
    /\ toClose' = toClose \ {r}
    /\ visiting' = r
    /\ UNCHANGED <<running, phase>>

(* The turn and the pump of the visited room are done.                     *)
CloseMovesOn == /\ visiting # None
                /\ pump[visiting] = None
                /\ visiting' = None
                /\ UNCHANGED <<queue, pump, running, worker, phase, toClose>>

CloseEnds == /\ phase = "closing" /\ visiting = None /\ toClose = {}
             /\ phase' = "closed"
             /\ UNCHANGED <<queue, pump, running, worker, toClose, visiting>>

Close == CloseBegins \/ (\E r \in Rooms : CloseVisits(r))
         \/ CloseMovesOn \/ CloseEnds

Next == \/ \E m \in Messages, d \in BOOLEAN : Submit(m, d)
        \/ \E r \in Rooms, i \in 1..MaxDirected : GrowOld(r, i)
        \/ \E p \in Pumps : PumpRuns(p) \/ TurnEnds(p)
        \/ \E r \in Rooms : CancelChannel(r) \/ Interrupt(r)
        \/ \E m \in Messages : CancelMessage(m)
        \/ Close

Spec == Init /\ [][Next]_vars

(* The event loop resumes what is ready, the turn's deadline ends every    *)
(* turn (_handle_message), and close() is awaited by the shutdown.  Nobody *)
(* has to send, stop or cancel anything, and closing never has to begin.   *)
Fairness == /\ \A p \in Pumps : WF_vars(PumpRuns(p)) /\ WF_vars(TurnEnds(p))
            /\ WF_vars(\E r \in Rooms : CloseVisits(r))
            /\ WF_vars(CloseMovesOn \/ CloseEnds)

FairSpec == Spec /\ Fairness
-----------------------------------------------------------------------------
(* The types, and the bound on a line (submit, _enforce_bound).            *)
TypeOK == /\ queue \in [Rooms -> Seq(Entry)]
          /\ \A r \in Rooms : Len(queue[r]) <= MaxDirected
          /\ pump \in [Rooms -> Pumps \cup {None}]
          /\ running \in [Rooms -> Pumps \cup {None}]
          /\ worker \in [Pumps -> [state : WorkerStates,
                                   msg : Messages \cup {None}]]
          /\ phase \in {"open", "closing", "closed"}
          /\ toClose \subseteq Rooms
          /\ visiting \in Rooms \cup {None}

(* A message waits at most once, and at most one soft line waits in a room *)
(* ("at most one soft entry is pending per channel").                      *)
WellFormed(line) ==
    \A i, j \in DOMAIN line :
        i # j => /\ line[i].msg # line[j].msg
                 /\ line[i].directed \/ line[j].directed
WellFormedLines == \A r \in Rooms : WellFormed(queue[r])

(* Whoever waits has a pump that will come for it: no interleaving of      *)
(* submissions, stops, finished turns and close strands a queue.           *)
NobodyForgotten ==
    \A r \in Rooms : queue[r] # <<>> =>
        /\ pump[r] # None
        /\ worker[pump[r]].state # "done"

(* Every live turn is the one its room's state.running points at: "!stop", *)
(* the interrupt and close() can reach it, and a room never has two.       *)
TurnIsTracked ==
    \A p \in Pumps : InTurn(p) => running[RoomFor(p)] = p

(* When close() has returned, no turn is generating and none will start.   *)
QuietAfterClose ==
    phase = "closed" => /\ \A p \in Pumps : worker[p].state = "done"
                        /\ \A r \in Rooms : queue[r] = <<>>

(* A newcomer costs a directed message that is not yet stale its place     *)
(* only when the line is full of such messages, only if the newcomer is    *)
(* directed too, and then it is the oldest that goes (_enforce_bound).     *)
Directed(line) == {line[i].msg : i \in {j \in DOMAIN line : line[j].directed}}
Lively(line) == Directed(Unexpired(line))
Newcomers(r) == Ids(queue'[r]) \ Ids(queue[r])

OldestGivesWay ==
    [][\A r \in Rooms : Newcomers(r) # {} =>
          LET lost == Lively(queue[r]) \ Ids(queue'[r])
          IN  \/ lost = {}
              \/ /\ Newcomers(r) \subseteq Directed(queue'[r])
                 /\ Cardinality(Lively(queue[r])) = MaxDirected
                 /\ lost = {Unexpired(queue[r])[1].msg}]_vars

(* "none of them can drop a directed message": a newcomer never costs a    *)
(* directed message its place.                                             *)
DirectedNeverDropped ==
    [][\A r \in Rooms : Newcomers(r) # {} =>
          Directed(queue[r]) \subseteq Ids(queue'[r])]_vars

(* Nobody waits for ever, however many messages keep arriving: an entry    *)
(* neither stays young nor, once it is too old, stays in the line.  (Only  *)
(* submitting the message again makes an old entry young.)                 *)
Waits(m, old) == \E i \in DOMAIN queue[RoomOf[m]] :
                    /\ queue[RoomOf[m]][i].msg = m
                    /\ queue[RoomOf[m]][i].stale = old
EachLeavesTheLine ==
    \A m \in Messages, old \in BOOLEAN : Waits(m, old) ~> ~Waits(m, old)

(* The promise without the machinery.                                      *)
Turns(r) == {p \in Pumps : RoomFor(p) = r /\ InTurn(p)}
Waiting == [r \in Rooms |-> Ids(queue[r])]
Answering == [r \in Rooms |-> {worker[p].msg : p \in Turns(r)}]

Line == INSTANCE ReplyLine WITH waiting <- Waiting, answering <- Answering,
                                isOpen <- phase # "closed"
LineSpec == Line!Spec
=========================================================================
