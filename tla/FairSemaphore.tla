------------------------- MODULE FairSemaphore -------------------------
(***************************************************************************)
(* concurrency_safety.FairSemaphore: admission to the pool of model slots. *)
(* Every critical section runs under one asyncio.Condition and suspends    *)
(* only in Condition.wait, so each action is one uninterrupted run of the  *)
(* event loop.  A call that is not admitted sleeps in Condition.wait;      *)
(* notify_all marks every sleeper "woken", and each woken call takes the   *)
(* loop body again (Recheck) at a time the loop chooses.                   *)
(*                                                                         *)
(* Two unbounded numbers of the code only serve as an order: the arrival   *)
(* number seq, kept here as ahead[c], the waiting calls with a smaller     *)
(* seq, and the clock values in _last_served, kept as colder[k], the known *)
(* rooms admitted longer ago than room k.                                  *)
(***************************************************************************)
EXTENDS Naturals, FiniteSets

CONSTANTS Calls,            \* concurrent callers of acquire()
          Rooms,            \* fairness keys: channel ids, "autonomy", ...
          RoomOf,           \* the key a call passes
          PriorityOf,       \* the priority a call passes
          Capacities,       \* the values set_capacity may be given
          InitialCapacity,
          History           \* bound on remembered rooms

ASSUME CallAssumption ==
    /\ IsFiniteSet(Calls)
    /\ RoomOf \in [Calls -> Rooms]
    /\ PriorityOf \in [Calls -> {"user", "background"}]
ASSUME CapacityAssumption ==
    /\ Capacities \subseteq Nat
    /\ InitialCapacity \in Nat \ {0}
ASSUME HistoryAssumption == History \in Nat \ {0, 1}

VARIABLES capacity,     \* _capacity
          active,       \* _active
          activeLower,  \* _active_lower
          status,       \* where each call is: idle, asleep, woken, holding
          ahead,        \* waiting calls that arrived before this one
          known,        \* rooms in _last_served
          colder        \* known rooms served less recently than this one

vars == <<capacity, active, activeLower, status, ahead, known, colder>>

Waiting == {c \in Calls : status[c] \in {"asleep", "woken"}}
Holding == {c \in Calls : status[c] = "holding"}
Lower   == {c \in Calls : PriorityOf[c] # "user"}

Init == /\ capacity = InitialCapacity
        /\ active = 0
        /\ activeLower = 0
        /\ status = [c \in Calls |-> "idle"]
        /\ ahead = [c \in Calls |-> {}]
        /\ known = {}
        /\ colder = [k \in Rooms |-> {}]
-----------------------------------------------------------------------------
(* Plausible wrong forms of the definitions below: each breaks a property. *)
NoWakeup(s) == s                                     \* forgets notify_all
OneTooMany(c) == active <= capacity                  \* off by one
ReserveOfOne(c) == /\ active < capacity              \* reserves the only slot
                   /\ c \in Lower => activeLower < capacity - 1
IgnoreRooms(j, k) == FALSE                           \* drops _last_served
UncountedLower(c) == 0                               \* drops _active_lower
-----------------------------------------------------------------------------
NotifyAll(s) == [c \in Calls |-> IF s[c] = "asleep" THEN "woken" ELSE s[c]]

Admissible(c) == /\ active < capacity
                 /\ c \in Lower /\ capacity # 1 => activeLower < capacity - 1

(* Room j was served less recently than room k; a room that was never      *)
(* served, or has been forgotten, comes before every known one.            *)
ServedEarlier(j, k) == IF j \in known THEN j \in colder[k] ELSE k \in known

(* c sorts before d in (priority, last served, arrival); older holds the   *)
(* calls that arrived before c.                                            *)
Outranks(c, d, older) ==
    IF (c \in Lower) # (d \in Lower)
    THEN d \in Lower
    ELSE \/ ServedEarlier(RoomOf[c], RoomOf[d])
         \/ /\ ~ServedEarlier(RoomOf[d], RoomOf[c])
            /\ d \notin older

Wins(c, older) == /\ Admissible(c)
                  /\ \A d \in Waiting \ {c} : Outranks(c, d, older)

(* How much a slot of this call weighs in _active_lower.                   *)
LowerWeight(c) == IF c \in Lower THEN 1 ELSE 0

(* The rooms _mark_served keeps: all, or the most recent half of History.  *)
Kept(k) == LET served == known \cup {k}
               later(j) == IF j = k THEN {}
                           ELSE {i \in served \ {j} : i = k \/ j \in colder[i]}
           IN  IF Cardinality(served) <= History THEN served
               ELSE {j \in served : Cardinality(later(j)) < History \div 2}

MarkServed(k) ==
    /\ known' = Kept(k)
    /\ colder' = [j \in Rooms |->
                    IF j \notin Kept(k) THEN {}
                    ELSE IF j = k THEN Kept(k) \ {k}
                    ELSE (colder[j] \ {k}) \cap Kept(k)]

Forget(c) == [d \in Calls |-> IF d = c THEN {} ELSE ahead[d] \ {c}]

Admit(c) == /\ active' = active + 1
            /\ activeLower' = activeLower + LowerWeight(c)
            /\ MarkServed(RoomOf[c])
            /\ status' = NotifyAll([status EXCEPT ![c] = "holding"])
            /\ ahead' = Forget(c)
            /\ UNCHANGED capacity

(* acquire(): queue up, and take a slot at once when first in line.        *)
Acquire(c) ==
    /\ status[c] = "idle"
    /\ \/ Wins(c, Waiting) /\ Admit(c)
       \/ /\ ~Wins(c, Waiting)
          /\ status' = [status EXCEPT ![c] = "asleep"]
          /\ ahead' = [ahead EXCEPT ![c] = Waiting]
          /\ UNCHANGED <<capacity, active, activeLower, known, colder>>

(* A notified call goes round the loop of acquire() again.                 *)
Recheck(c) ==
    /\ status[c] = "woken"
    /\ \/ Wins(c, ahead[c]) /\ Admit(c)
       \/ /\ ~Wins(c, ahead[c])
          /\ status' = [status EXCEPT ![c] = "asleep"]
          /\ UNCHANGED <<capacity, active, activeLower, ahead, known, colder>>

(* Its timeout ran out or its task was cancelled, notified or not.         *)
GiveUp(c) ==
    /\ c \in Waiting
    /\ status' = NotifyAll([status EXCEPT ![c] = "idle"])
    /\ ahead' = Forget(c)
    /\ UNCHANGED <<capacity, active, activeLower, known, colder>>

Release(c) ==
    /\ status[c] = "holding"
    /\ active' = IF active > 0 THEN active - 1 ELSE active
    /\ activeLower' = IF activeLower > 0 THEN activeLower - LowerWeight(c)
                      ELSE activeLower
    /\ status' = NotifyAll([status EXCEPT ![c] = "idle"])
    /\ ahead' = ahead
    /\ UNCHANGED <<capacity, known, colder>>

Clamp(n) == IF n < 1 THEN 1 ELSE n

SetCapacity(n) ==
    /\ Clamp(n) # capacity
    /\ capacity' = Clamp(n)
    /\ status' = NotifyAll(status)
    /\ UNCHANGED <<active, activeLower, ahead, known, colder>>

Next == \/ \E c \in Calls : Acquire(c) \/ Recheck(c) \/ GiveUp(c) \/ Release(c)
        \/ \E n \in Capacities : SetCapacity(n)

Spec == Init /\ [][Next]_vars

(* A notified task runs, and a holder's provider call ends (each one has a *)
(* timeout).  Nothing makes callers ask, give up, or the operator resize.  *)
Fairness == \A c \in Calls : WF_vars(Recheck(c)) /\ WF_vars(Release(c))
FairSpec == Spec /\ Fairness
-----------------------------------------------------------------------------
(* Every variable keeps its shape; ahead only ever names waiting calls.    *)
TypeOK == /\ capacity \in Nat \ {0}
          /\ active \in Nat
          /\ activeLower \in Nat
          /\ status \in [Calls -> {"idle", "asleep", "woken", "holding"}]
          /\ ahead \in [Calls -> SUBSET Calls]
          /\ known \subseteq Rooms
          /\ colder \in [Rooms -> SUBSET Rooms]

(* The two counters of the pool (_active, _active_lower) agree with the    *)
(* calls that hold a slot, through every admission, release and resize.    *)
Accounting == /\ active = Cardinality(Holding)
              /\ activeLower = Cardinality(Holding \cap Lower)

(* No lost wake-up: a call that would be admitted if it looked again is    *)
(* never asleep in Condition.wait, whatever just changed the queue.        *)
NoSleepingWinner ==
    \A c \in Calls : status[c] = "asleep" => ~Wins(c, ahead[c])

(* concurrency_safety.py: lower priorities "may hold at most capacity - 1  *)
(* slots, so one slot is always free for the top priority".                *)
ReservedSlot == capacity > 1 => activeLower < capacity

(* The semaphore is a slot pool: its admissions, releases and timeouts are *)
(* allowed by SlotPool, which knows nothing of rooms, order or wake-ups.   *)
Pool == INSTANCE SlotPool WITH pool <- capacity, holders <- Holding,
                               queued <- Waiting
PoolSpec == Pool!Spec

(* A person's call that queues is admitted (or gives up) in the end, no    *)
(* matter how often other rooms and background ticks come back for more, as *)
(* long as they do not for ever ask only to give up before their turn.      *)
CallersWait == <>[][\A c \in Calls : ~GiveUp(c)]_vars
PersonServed ==
    CallersWait => \A c \in Calls \ Lower : c \in Waiting ~> c \notin Waiting

(* A queued background call gets its turn once people stop asking: neither *)
(* the reserved slot nor the order can leave it asleep beside a free slot. *)
BackgroundServed ==
    <>[](\A d \in Calls \ Lower : status[d] = "idle")
        => \A c \in Lower : c \in Waiting ~> c \notin Waiting
=============================================================================
