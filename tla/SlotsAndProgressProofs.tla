----------------------- MODULE SlotsAndProgressProofs -----------------------
(***************************************************************************)
(* Two components of a turn, each proved for itself.                       *)
(*                                                                         *)
(* FairSemaphore, for every finite set of calls, every map of calls to     *)
(* rooms and priorities, and every sequence of resizes.                    *)
(*                                                                         *)
(* The progress message, for any set of ticks and any number of failing    *)
(* requests: what each task has asked Discord for (Asks) and where the     *)
(* object of the turn stands meanwhile (Object) say who answers for a      *)
(* message that shows progress (Shown); the message that carries the       *)
(* answer has nobody left who would touch it (Carries).                    *)
(***************************************************************************)
EXTENDS FairSemaphoreTurns, ToolProgress, FiniteSetTheorems, TLAPS


Admits(c) == \/ status[c] = "idle" /\ Wins(c, Waiting) /\ Admit(c)
             \/ status[c] = "woken" /\ Wins(c, ahead[c]) /\ Admit(c)

Sleeps(c) == \/ status[c] = "idle" /\ ~Wins(c, Waiting) /\ Acquire(c)
             \/ status[c] = "woken" /\ ~Wins(c, ahead[c]) /\ Recheck(c)

(* Every step admits a call, puts one to sleep, or changes the queue and   *)
(* notifies everybody.                                                     *)
LEMMA StepCases ==
    ASSUME [Next]_vars
    PROVE  \/ \E c \in Calls : Admits(c) \/ Sleeps(c) \/ GiveUp(c) \/ Release(c)
           \/ \E n \in Capacities : SetCapacity(n)
           \/ UNCHANGED vars
BY DEF Next, Admits, Sleeps, Acquire, Recheck

(* TypeOK is preserved by every step: the two ordering variables keep      *)
(* naming calls and rooms, the capacity never becomes zero.                *)
THEOREM TypeCorrect == Spec => []TypeOK
<1>1. Init => TypeOK
  BY CapacityAssumption DEF Init, TypeOK
<1>2. TypeOK /\ [Next]_vars => TypeOK'
  <2> SUFFICES ASSUME TypeOK, [Next]_vars PROVE TypeOK'
    OBVIOUS
  <2> USE DEF TypeOK
  <2>1. ASSUME NEW c \in Calls, Admits(c) PROVE TypeOK'
    <3>1. c \in Calls /\ RoomOf[c] \in Rooms
      BY CallAssumption
    <3>2. Admit(c)
      BY <2>1 DEF Admits
    <3>3. /\ capacity' \in Nat \ {0}
          /\ active' \in Nat
          /\ activeLower' \in Nat
      BY <3>2 DEF Admit, LowerWeight
    <3>4. /\ status' \in [Calls -> {"idle", "asleep", "woken", "holding"}]
          /\ ahead' \in [Calls -> SUBSET Calls]
      BY <3>2 DEF Admit, NotifyAll, Forget
    <3>5. Kept(RoomOf[c]) \subseteq Rooms
      BY <3>1 DEF Kept
    <3>6. known' \subseteq Rooms
      BY <3>2, <3>5 DEF Admit, MarkServed
    <3>7. colder' = [j \in Rooms |->
                        IF j \notin Kept(RoomOf[c]) THEN {}
                        ELSE IF j = RoomOf[c] THEN Kept(RoomOf[c]) \ {RoomOf[c]}
                        ELSE (colder[j] \ {RoomOf[c]}) \cap Kept(RoomOf[c])]
      BY <3>2 DEF Admit, MarkServed
    <3>8. colder' \in [Rooms -> SUBSET Rooms]
      BY <3>5, <3>7
    <3> QED BY <3>3, <3>4, <3>6, <3>8
  <2>2. ASSUME NEW c \in Calls, Sleeps(c) PROVE TypeOK'
    BY <2>2 DEF Sleeps, Acquire, Recheck, Admit, Waiting
  <2>3. ASSUME NEW c \in Calls, GiveUp(c) PROVE TypeOK'
    BY <2>3 DEF GiveUp, NotifyAll, Forget
  <2>4. ASSUME NEW c \in Calls, Release(c) PROVE TypeOK'
    BY <2>4 DEF Release, NotifyAll, LowerWeight
  <2>5. ASSUME NEW n \in Capacities, SetCapacity(n) PROVE TypeOK'
    BY <2>5, CapacityAssumption DEF SetCapacity, NotifyAll, Clamp
  <2>6. CASE UNCHANGED vars
    BY <2>6 DEF vars
  <2> QED BY <2>1, <2>2, <2>3, <2>4, <2>5, <2>6, StepCases
<1> QED BY <1>1, <1>2, PTL DEF Spec
-----------------------------------------------------------------------------
(* After notify_all nobody sleeps.                                         *)
LEMMA NotifiedAwake ==
    ASSUME NEW c \in Calls, TypeOK,
           Admits(c) \/ GiveUp(c) \/ Release(c)
              \/ \E n \in Capacities : SetCapacity(n)
    PROVE  \A d \in Calls : status'[d] # "asleep"
BY DEF Admits, Admit, GiveUp, Release, SetCapacity, NotifyAll, TypeOK

(* A call that is about to sleep changes nothing another sleeper depends   *)
(* on, except that one more call stands in line.                           *)
LEMMA SleepersKeep ==
    ASSUME TypeOK, NEW c \in Calls, Sleeps(c),
           NEW d \in Calls, d # c, status'[d] = "asleep"
    PROVE  /\ status[d] = "asleep"
           /\ Wins(d, ahead[d])' => Wins(d, ahead[d])
<1>1. status[d] = "asleep" /\ ahead'[d] = ahead[d]
  BY DEF Sleeps, Acquire, Recheck, TypeOK
<1>2. UNCHANGED <<capacity, active, activeLower, known, colder>>
  BY DEF Sleeps, Acquire, Recheck
<1>3. Waiting \subseteq Waiting'
  BY DEF Sleeps, Acquire, Recheck, TypeOK, Waiting
<1> QED
  BY <1>1, <1>2, <1>3 DEF Wins, Admissible, Outranks, ServedEarlier, Lower

(* No lost wake-up (NoSleepingWinner): every step of acquire, release and  *)
(* set_capacity that could let a sleeping call in also notifies it.        *)
THEOREM NoLostWakeup == Spec => []NoSleepingWinner
<1>1. Init => NoSleepingWinner
  BY DEF Init, NoSleepingWinner
<1>2. TypeOK /\ NoSleepingWinner /\ [Next]_vars => NoSleepingWinner'
  <2> SUFFICES ASSUME TypeOK, NoSleepingWinner, [Next]_vars
               PROVE  NoSleepingWinner'
    OBVIOUS
  <2>1. ASSUME NEW c \in Calls,
               Admits(c) \/ GiveUp(c) \/ Release(c)
                  \/ \E n \in Capacities : SetCapacity(n)
        PROVE  NoSleepingWinner'
    BY <2>1, NotifiedAwake DEF NoSleepingWinner
  <2>2. ASSUME NEW c \in Calls, Sleeps(c) PROVE NoSleepingWinner'
    <3> SUFFICES ASSUME NEW d \in Calls, status'[d] = "asleep"
                 PROVE  ~Wins(d, ahead[d])'
      BY DEF NoSleepingWinner
    <3>1. CASE d # c
      BY <2>2, <3>1, SleepersKeep DEF NoSleepingWinner
    <3>2. CASE d = c
      <4>1. UNCHANGED <<capacity, active, activeLower, known, colder>>
        BY <2>2 DEF Sleeps, Acquire, Recheck
      <4>2. Waiting \ {c} = Waiting' \ {c}
        BY <2>2 DEF Sleeps, Acquire, Recheck, TypeOK, Waiting
      <4>3. ~Wins(c, ahead'[c])
        BY <2>2 DEF Sleeps, Acquire, Recheck, TypeOK
      <4> QED
        BY <3>2, <4>1, <4>2, <4>3
           DEF Wins, Admissible, Outranks, ServedEarlier, Lower
    <3> QED BY <3>1, <3>2
  <2>3. ASSUME NEW n \in Capacities, SetCapacity(n) PROVE NoSleepingWinner'
    <3>1. \A d \in Calls : status'[d] # "asleep"
      BY <2>3 DEF SetCapacity, NotifyAll, TypeOK
    <3> QED BY <3>1 DEF NoSleepingWinner
  <2>4. CASE UNCHANGED vars
    BY <2>4 DEF vars, NoSleepingWinner, Wins, Admissible, Outranks,
                ServedEarlier, Waiting
  <2> QED BY <2>1, <2>2, <2>3, <2>4, StepCases
<1> QED BY <1>1, <1>2, TypeCorrect, PTL DEF Spec
-----------------------------------------------------------------------------
(* How the set of holders moves, whatever the action.                      *)
LEMMA HoldersMove ==
    ASSUME TypeOK, NEW c \in Calls
    PROVE  /\ Admits(c) => c \notin Holding /\ Holding' = Holding \cup {c}
           /\ Sleeps(c) \/ GiveUp(c) => Holding' = Holding
           /\ Release(c) => c \in Holding /\ Holding' = Holding \ {c}
           /\ \A n \in Capacities : SetCapacity(n) => Holding' = Holding
<1>1. Admits(c) => c \notin Holding /\ Holding' = Holding \cup {c}
  BY DEF TypeOK, Admits, Admit, NotifyAll, Holding
<1>2. Sleeps(c) => Holding' = Holding
  BY DEF TypeOK, Sleeps, Acquire, Recheck, Holding
<1>3. GiveUp(c) => Holding' = Holding
  BY DEF TypeOK, GiveUp, NotifyAll, Holding, Waiting
<1>4. Release(c) => c \in Holding /\ Holding' = Holding \ {c}
  BY DEF TypeOK, Release, NotifyAll, Holding
<1>5. \A n \in Capacities : SetCapacity(n) => Holding' = Holding
  BY DEF TypeOK, SetCapacity, NotifyAll, Holding
<1> QED BY <1>1, <1>2, <1>3, <1>4, <1>5

(* The counters equal the number of calls that hold a slot (Accounting):   *)
(* nothing is counted twice, and no release is missed or doubled.          *)
THEOREM CountersCorrect == Spec => []Accounting
<1>1. Init => Accounting
  <2> SUFFICES ASSUME Init PROVE Accounting
    OBVIOUS
  <2>1. Holding = {} /\ Holding \cap Lower = {}
    BY DEF Init, Holding
  <2> QED BY <2>1, FS_EmptySet DEF Init, Accounting
<1>2. TypeOK /\ Accounting /\ [Next]_vars => Accounting'
  <2> SUFFICES ASSUME TypeOK, Accounting, [Next]_vars PROVE Accounting'
    OBVIOUS
  <2>0. /\ Lower' = Lower
        /\ IsFiniteSet(Holding)
        /\ IsFiniteSet(Holding \cap Lower)
    <3>1. Holding \subseteq Calls /\ Holding \cap Lower \subseteq Calls
      BY DEF Holding
    <3> QED BY <3>1, CallAssumption, FS_Subset DEF Lower
  <2>1. ASSUME NEW c \in Calls, Admits(c) PROVE Accounting'
    <3>1. Holding' = Holding \cup {c} /\ c \notin Holding
      BY <2>1, HoldersMove
    <3>2. active' = active + 1 /\ activeLower' = activeLower + LowerWeight(c)
      BY <2>1 DEF Admits, Admit
    <3>3. Cardinality(Holding') = active + 1
      BY <3>1, <2>0, FS_AddElement DEF Accounting
    <3>4. CASE c \in Lower
      <4>1. (Holding \cap Lower)' = (Holding \cap Lower) \cup {c}
        BY <3>1, <3>4, <2>0
      <4>2. Cardinality((Holding \cap Lower)') = activeLower + 1
        BY <4>1, <3>1, <2>0, FS_AddElement DEF Accounting
      <4> QED BY <4>2, <3>2, <3>3, <3>4 DEF Accounting, LowerWeight
    <3>5. CASE c \notin Lower
      <4>1. (Holding \cap Lower)' = Holding \cap Lower
        BY <3>1, <3>5, <2>0
      <4> QED BY <4>1, <3>2, <3>3, <3>5 DEF Accounting, LowerWeight, TypeOK
    <3> QED BY <3>4, <3>5
  <2>2. ASSUME NEW c \in Calls, Sleeps(c) \/ GiveUp(c) PROVE Accounting'
    <3>1. Holding' = Holding
      BY <2>2, HoldersMove
    <3>2. UNCHANGED <<active, activeLower>>
      BY <2>2 DEF Sleeps, Acquire, Recheck, GiveUp
    <3> QED BY <3>1, <3>2, <2>0 DEF Accounting
  <2>3. ASSUME NEW c \in Calls, Release(c) PROVE Accounting'
    <3>1. Holding' = Holding \ {c} /\ c \in Holding
      BY <2>3, HoldersMove
    <3>2. /\ Cardinality(Holding') = active - 1
          /\ active # 0
      BY <3>1, <2>0, FS_RemoveElement, FS_EmptySet DEF Accounting
    <3>3. active' = active - 1
      BY <2>3, <3>2 DEF Release, TypeOK
    <3>4. CASE c \in Lower
      <4>1. (Holding \cap Lower)' = (Holding \cap Lower) \ {c}
        BY <3>1, <3>4, <2>0
      <4>2. /\ Cardinality((Holding \cap Lower)') = activeLower - 1
            /\ activeLower # 0
        BY <4>1, <3>1, <3>4, <2>0, FS_RemoveElement, FS_EmptySet DEF Accounting
      <4>3. activeLower' = activeLower - 1
        BY <2>3, <3>4, <4>2 DEF Release, LowerWeight, TypeOK
      <4> QED BY <3>2, <3>3, <4>2, <4>3 DEF Accounting
    <3>5. CASE c \notin Lower
      <4>1. (Holding \cap Lower)' = Holding \cap Lower
        BY <3>1, <3>5, <2>0
      <4>2. activeLower' = activeLower
        BY <2>3, <3>5 DEF Release, LowerWeight, TypeOK
      <4> QED BY <3>2, <3>3, <4>1, <4>2 DEF Accounting
    <3> QED BY <3>4, <3>5
  <2>4. ASSUME NEW n \in Capacities, SetCapacity(n) PROVE Accounting'
    <3>1. Holding' = Holding
      BY <2>4 DEF TypeOK, SetCapacity, NotifyAll, Holding
    <3> QED BY <2>4, <3>1, <2>0 DEF Accounting, SetCapacity
  <2>5. CASE UNCHANGED vars
    BY <2>5 DEF vars, Accounting, Holding
  <2> QED BY <2>1, <2>2, <2>3, <2>4, <2>5, StepCases
<1> QED BY <1>1, <1>2, TypeCorrect, PTL DEF Spec
-----------------------------------------------------------------------------
(* A semaphore that is never resized keeps one slot out of the reach of    *)
(* background work (ReservedSlot).                                         *)
THEOREM SlotStaysReserved ==
    ASSUME \A n \in Capacities : Clamp(n) = InitialCapacity
    PROVE  Spec => [](capacity = InitialCapacity /\ ReservedSlot)
<1> DEFINE Inv == capacity = InitialCapacity /\ ReservedSlot
<1>1. Init => Inv
  BY CapacityAssumption DEF Init, ReservedSlot
<1>2. TypeOK /\ Inv /\ [Next]_vars => Inv'
  <2> SUFFICES ASSUME TypeOK, Inv, [Next]_vars PROVE Inv'
    OBVIOUS
  <2>1. ASSUME NEW c \in Calls, Admits(c) PROVE Inv'
    BY <2>1 DEF Admits, Wins, Admissible, Admit, LowerWeight, ReservedSlot, TypeOK
  <2>2. ASSUME NEW c \in Calls, Sleeps(c) \/ GiveUp(c) PROVE Inv'
    BY <2>2 DEF Sleeps, Acquire, Recheck, GiveUp, ReservedSlot
  <2>3. ASSUME NEW c \in Calls, Release(c) PROVE Inv'
    BY <2>3 DEF Release, LowerWeight, ReservedSlot, TypeOK
  <2>4. ASSUME NEW n \in Capacities, SetCapacity(n) PROVE Inv'
    BY <2>4 DEF SetCapacity
  <2>5. CASE UNCHANGED vars
    BY <2>5 DEF vars, ReservedSlot
  <2> QED BY <2>1, <2>2, <2>3, <2>4, <2>5, StepCases
<1> QED BY <1>1, <1>2, TypeCorrect, PTL DEF Spec
-----------------------------------------------------------------------------
(* FairSemaphore implements SlotPool (PoolSpec): each admission is one the *)
(* pool allows, so the counters, the order and the wake-ups never hand out *)
(* a slot that is not free, nor one to a background call over a person.    *)
THEOREM ImplementsPool == Spec => PoolSpec
<1>1. Init => Pool!Init
  BY DEF Init, Pool!Init, Holding, Waiting
<1>2. TypeOK /\ Accounting /\ [Next]_vars => [Pool!Next]_(Pool!vars)
  <2> SUFFICES ASSUME TypeOK, Accounting, [Next]_vars
               PROVE  Pool!Next \/ UNCHANGED Pool!vars
    OBVIOUS
  <2>1. ASSUME NEW c \in Calls, Admits(c) PROVE Pool!Take(c)
    <3>1. Holding' = Holding \cup {c} /\ c \notin Holding
      BY <2>1, HoldersMove
    <3>2. Waiting' = Waiting \ {c} /\ capacity' = capacity
      BY <2>1 DEF TypeOK, Admits, Admit, NotifyAll, Waiting
    <3>3. Admissible(c) /\ \A d \in Waiting \ {c} : c \in Lower => d \in Lower
      BY <2>1 DEF Admits, Wins, Outranks
    <3>4. c \in Lower => Waiting \ {c} \subseteq Lower
      BY <3>3
    <3>5. Pool!FreeFor(c)
      <4>1. \A S : Pool!Cardinality(S) = Cardinality(S)
        BY Zenon DEF Pool!Cardinality, Cardinality
      <4> QED
        BY <3>3, <4>1 DEF Admissible, Accounting, Pool!FreeFor, TypeOK
    <3> QED BY <3>1, <3>2, <3>4, <3>5 DEF Pool!Take, Pool!MayTake
  <2>2. ASSUME NEW c \in Calls, Sleeps(c)
        PROVE  Pool!Ask(c) \/ UNCHANGED Pool!vars
    <3>1. Holding' = Holding /\ capacity' = capacity
      BY <2>2, HoldersMove DEF Sleeps, Acquire, Recheck
    <3>2. CASE status[c] = "idle"
      <4>1. /\ c \notin Holding \cup Waiting
            /\ Waiting' = Waiting \cup {c}
        BY <2>2, <3>2 DEF TypeOK, Sleeps, Acquire, Holding, Waiting
      <4> QED BY <3>1, <4>1 DEF Pool!Ask
    <3>3. CASE status[c] = "woken"
      <4>1. Waiting' = Waiting
        BY <2>2, <3>3 DEF TypeOK, Sleeps, Recheck, Waiting
      <4> QED BY <3>1, <4>1 DEF Pool!vars
    <3> QED BY <2>2, <3>2, <3>3 DEF Sleeps
  <2>3. ASSUME NEW c \in Calls, GiveUp(c) PROVE Pool!Abandon(c)
    <3>1. Holding' = Holding
      BY <2>3, HoldersMove
    <3>2. /\ c \in Waiting
          /\ Waiting' = Waiting \ {c}
          /\ capacity' = capacity
      BY <2>3 DEF TypeOK, GiveUp, NotifyAll, Waiting
    <3> QED BY <3>1, <3>2 DEF Pool!Abandon
  <2>4. ASSUME NEW c \in Calls, Release(c) PROVE Pool!GiveBack(c)
    <3>1. Holding' = Holding \ {c} /\ c \in Holding
      BY <2>4, HoldersMove
    <3>2. Waiting' = Waiting /\ capacity' = capacity
      BY <2>4 DEF TypeOK, Release, NotifyAll, Waiting
    <3> QED BY <3>1, <3>2 DEF Pool!GiveBack
  <2>5. ASSUME NEW n \in Capacities, SetCapacity(n) PROVE Pool!Resize
    <3>1. Holding' = Holding /\ Waiting' = Waiting
      BY <2>5 DEF TypeOK, SetCapacity, NotifyAll, Holding, Waiting
    <3>2. capacity' \in Nat \ {0}
      BY <2>5, CapacityAssumption DEF SetCapacity, Clamp
    <3> QED BY <3>1, <3>2 DEF Pool!Resize
  <2>6. CASE UNCHANGED vars
    BY <2>6 DEF vars, Pool!vars, Holding, Waiting
  <2> QED BY <2>1, <2>2, <2>3, <2>4, <2>5, <2>6, StepCases DEF Pool!Next
<1> QED BY <1>1, <1>2, TypeCorrect, CountersCorrect, PTL DEF Spec, PoolSpec, Pool!Spec
-------------------------------------------------------------------------
(* Nothing is forgotten while the rooms fit in the history.                *)
AllFit == IsFiniteSet(Rooms) /\ Cardinality(Rooms) <= History

(* The order of the known rooms, and where in it the rooms are that were   *)
(* served while a call waits: after that call's own room.                  *)
RoomsOrdered == \A i, j \in Rooms : i \in colder[j] => j \notin colder[i]
PassedLater ==
    \A c \in Waiting : \A j \in passed[c] :
        /\ j \in known /\ j # RoomOf[c]
        /\ RoomOf[c] \in known => RoomOf[c] \in colder[j]
Turns == /\ passed \in [Calls -> SUBSET Rooms]
         /\ \A j \in Rooms \ known : colder[j] = {}
         /\ RoomsOrdered /\ PassedLater

LEMMA NoneForgotten ==
    ASSUME AllFit, TypeOK, NEW k \in Rooms
    PROVE  Kept(k) = known \cup {k}
<1>1. known \cup {k} \in SUBSET Rooms
  BY DEF TypeOK
<1>2. IsFiniteSet(known \cup {k}) /\ Cardinality(known \cup {k}) <= Cardinality(Rooms)
  BY <1>1, FS_Subset DEF AllFit
<1>3. Cardinality(known \cup {k}) \in Nat /\ Cardinality(Rooms) \in Nat
  BY <1>2, FS_CardinalityType DEF AllFit
<1>4. Cardinality(known \cup {k}) <= History
  BY <1>2, <1>3, HistoryAssumption DEF AllFit
<1> QED BY <1>4 DEF Kept

(* One call at most is given a slot by a step, the call that wins.         *)
LEMMA OnlyAdmitsAdmit ==
    ASSUME TypeOK, [Next]_vars, NEW d \in Calls, Admitted(d)
    PROVE  Admits(d) /\ \A e \in Calls : Admitted(e) => e = d
<1>1. PICK c \in Calls : Admits(c)
  BY StepCases DEF TypeOK, Admitted, Sleeps, Acquire, Recheck, GiveUp, Release, SetCapacity,
                   NotifyAll, vars
<1>2. \A e \in Calls : Admitted(e) => e = c
  BY <1>1 DEF TypeOK, Admits, Admit, NotifyAll, Admitted
<1> QED BY <1>1, <1>2

(* A call does not win over a call of its priority whose room has waited   *)
(* for its turn while the room of the winner had one.                      *)
LEMMA WinnerNotPassed ==
    ASSUME Turns, NEW c \in Waiting, NEW d \in Calls, Admits(d), SamePriority(c, d)
    PROVE  RoomOf[d] \notin passed[c]
<1> SUFFICES ASSUME RoomOf[d] \in passed[c] PROVE FALSE
  OBVIOUS
<1>1. c \in Calls /\ RoomOf[c] \in Rooms /\ RoomOf[d] \in Rooms
  BY CallAssumption DEF Waiting
<1>2. /\ RoomOf[d] \in known /\ RoomOf[d] # RoomOf[c]
      /\ RoomOf[c] \in known => RoomOf[c] \in colder[RoomOf[d]]
  BY DEF Turns, PassedLater
<1>3. ServedEarlier(RoomOf[c], RoomOf[d])
  BY <1>2 DEF ServedEarlier
<1>4. ~ServedEarlier(RoomOf[d], RoomOf[c])
  BY <1>1, <1>2 DEF ServedEarlier, Turns, RoomsOrdered
<1>5. PICK older : Wins(d, older)
  BY DEF Admits
<1>6. Outranks(d, c, older)
  BY <1>2, <1>5 DEF Wins
<1> QED BY <1>3, <1>4, <1>6 DEF Outranks, SamePriority

LEMMA TurnsKept ==
    ASSUME AllFit, TypeOK, Turns, [TurnsNext]_turnVars
    PROVE  Turns'
<1>1. CASE UNCHANGED turnVars
  BY <1>1 DEF turnVars, vars, Turns, RoomsOrdered, PassedLater, Waiting
<1>2. CASE TurnsNext
  <2>1. /\ [Next]_vars
        /\ passed' = [c \in Calls |->
             IF c \notin Waiting' \/ c \notin Waiting THEN {}
             ELSE IF \E d \in Calls : Admitted(d) /\ RoomOf[d] = RoomOf[c] THEN {}
             ELSE passed[c] \cup {RoomOf[d] : d \in {e \in Calls :
                                        Admitted(e) /\ SamePriority(c, e)}}]
    BY <1>2 DEF TurnsNext
  <2>2. passed' \in [Calls -> SUBSET Rooms]
    BY <2>1, CallAssumption DEF Turns
  <2>3. CASE \A d \in Calls : ~Admitted(d)
    <3>1. known' = known /\ colder' = colder
      BY <2>1, <2>3, StepCases
         DEF TypeOK, Admits, Admit, NotifyAll, Admitted, Sleeps, Acquire, Recheck, GiveUp,
             Release, SetCapacity, vars
    <3>2. \A c \in Calls : /\ passed'[c] \subseteq passed[c]
                           /\ passed'[c] # {} => c \in Waiting
      BY <2>1, <2>3
    <3>3. PassedLater'
      BY <3>1, <3>2 DEF Turns, PassedLater, Waiting
    <3> QED BY <2>2, <3>1, <3>3 DEF Turns, RoomsOrdered
  <2>4. ASSUME NEW d \in Calls, Admitted(d) PROVE Turns'
    <3> DEFINE x == RoomOf[d]
    <3>1. Admits(d) /\ \A e \in Calls : Admitted(e) => e = d
      BY <2>1, <2>4, OnlyAdmitsAdmit
    <3>2. x \in Rooms
      BY CallAssumption
    <3>3. /\ known' = known \cup {x}
          /\ colder' = [j \in Rooms |-> IF j \notin known \cup {x} THEN {}
                                        ELSE IF j = x THEN (known \cup {x}) \ {x}
                                        ELSE (colder[j] \ {x}) \cap (known \cup {x})]
      BY <3>1, <3>2, NoneForgotten DEF Admits, Admit, MarkServed
    <3> HIDE DEF x
    <3>4. RoomsOrdered'
      <4> SUFFICES ASSUME NEW i \in Rooms, NEW j \in Rooms, i \in colder'[j]
                   PROVE  j \notin colder'[i]
        BY DEF RoomsOrdered
      <4>1. CASE j = x
        BY <3>3, <4>1
      <4>2. CASE j # x
        BY <3>3, <4>2 DEF Turns, RoomsOrdered
      <4> QED BY <4>1, <4>2
    <3>5. \A j \in Rooms \ known' : colder'[j] = {}
      BY <3>3
    <3>6. PassedLater'
      <4> SUFFICES ASSUME NEW c \in Waiting', NEW j \in passed'[c]
                   PROVE  /\ j \in known' /\ j # RoomOf[c]
                          /\ RoomOf[c] \in known' => RoomOf[c] \in colder'[j]
        BY DEF PassedLater
      <4>1. c \in Calls /\ RoomOf[c] \in Rooms
        BY CallAssumption DEF Waiting
      <4>2. c \in Waiting /\ RoomOf[c] # x /\ j \in passed[c] \cup {x}
        BY <2>1, <2>4, <3>1, <4>1 DEF x
      <4>3. CASE j = x
        BY <3>2, <3>3, <4>1, <4>2, <4>3
      <4>4. CASE j # x
        <5>1. /\ j \in Rooms /\ j \in known /\ j # RoomOf[c]
              /\ RoomOf[c] \in known => RoomOf[c] \in colder[j]
          BY <4>1, <4>2, <4>4 DEF Turns, PassedLater
        <5> QED BY <3>3, <4>1, <4>2, <4>4, <5>1
      <4> QED BY <4>3, <4>4
    <3> QED BY <2>2, <3>4, <3>5, <3>6 DEF Turns
  <2> QED BY <2>3, <2>4
<1> QED BY <1>1, <1>2

(* One turn per room before any room gets a second, for any callers and    *)
(* priorities, as long as _last_served has not had to forget a room: the   *)
(* cut of _mark_served makes a room look new again, and with more rooms    *)
(* than the history holds it may have a second turn first.                 *)
THEOREM RoomsTakeTurns ==
    ASSUME AllFit
    PROVE  TurnsSpec => OneTurnEach
<1>1. TurnsInit => Init /\ Turns
  BY DEF TurnsInit, Init, Turns, RoomsOrdered, PassedLater, Waiting
<1>2. [TurnsNext]_turnVars => [Next]_vars
  BY DEF TurnsNext, turnVars
<1>3. TurnsSpec => []TypeOK
  <2>1. TurnsInit => Init
    BY <1>1
  <2> QED BY <1>2, <2>1, TypeCorrect, PTL DEF TurnsSpec, Spec
<1>4. TypeOK /\ Turns /\ [TurnsNext]_turnVars => Turns'
  BY TurnsKept
<1>5. TypeOK /\ Turns /\ [TurnsNext]_turnVars =>
        [\A c, d \in Calls :
          c \in Waiting /\ Admitted(d) /\ SamePriority(c, d)
             => RoomOf[d] \notin passed[c]]_turnVars
  BY <1>2, OnlyAdmitsAdmit, WinnerNotPassed
<1> QED BY <1>1, <1>3, <1>4, <1>5, PTL DEF TurnsSpec, OneTurnEach
-----------------------------------------------------------------------------

(* The tasks, and what they ask for.                                       *)
LEMMA TasksApart ==
    /\ Writers \subseteq Tasks /\ {"turn", "poster", "deleter"} \subseteq Tasks
    /\ Writers \cap {"turn", "poster", "deleter"} = {}
    /\ "deferred" \in Writers /\ "update" \in Writers
BY ProgressAssumption DEF Writers, Tasks

LEMMA RequestTyped ==
    ASSUME NEW m \in Messages, NEW s \in {"progress", "answer", "deleted"}
    PROVE  /\ Request(m, s) \in Requests /\ Request(m, s) # None
           /\ Request(m, s).on = m /\ Request(m, s).shows = s
BY ProgressAssumption DEF Request, Requests

Channels == [Messages -> {"absent", "progress", "answer", "deleted"}]
Asked == [Tasks -> Requests \cup {None}]

LEMMA CarriedTyped ==
    ASSUME channel \in Channels, NEW r \in Requests
    PROVE  /\ Carried(r) \in Channels
           /\ \A m \in Messages : m # r.on => Carried(r)[m] = channel[m]
           /\ Carried(r)[r.on] = (IF r.on \in Posts /\ channel[r.on] = "deleted"
                                  THEN "deleted" ELSE r.shows)
BY DEF Carried, Channels, Requests

LEMMA ProgressTypedAtFirst == ProgressInit => ProgressTypeOK
<1> SUFFICES ASSUME ProgressInit PROVE ProgressTypeOK
  OBVIOUS
<1> USE DEF ProgressInit
<1>1. /\ turn \in {"starting", "working"} /\ faults \in 0..MaxFaults
      /\ awaited \in BOOLEAN /\ poster = "waiting"
  BY ProgressAssumption
<1>2. /\ writer \in [Writers -> {"off", "asleep", "queued", "editing"}]
      /\ asked \in [Tasks -> Requests \cup {None}]
      /\ channel \in [Messages -> {"absent", "progress", "answer", "deleted"}]
  OBVIOUS
<1>3. /\ posted = None /\ held = None /\ delivered = None /\ loose = {} /\ excused = {}
      /\ overtaken = {} /\ stopped = FALSE /\ streaming = FALSE
  OBVIOUS
<1> QED BY <1>1, <1>2, <1>3 DEF ProgressTypeOK

LEMMA StopTyped ==
    ASSUME ProgressTypeOK, NEW place \in {"finishing", "over"}, NEW more \in SUBSET Tasks,
           Stop(place, more)
    PROVE  ProgressTypeOK'
<1> DEFINE own == IF poster # "done" /\ ~awaited THEN {"poster"} ELSE {}
           cut == more \cup (IF stopped THEN {} ELSE own \cup Deferred)
<1>1. cut \subseteq Tasks
  BY TasksApart DEF Deferred
<1>2. CutBy(cut) \subseteq Requests /\ CutBy(cut \cap {"poster", "turn"}) \subseteq Requests
  BY <1>1 DEF CutBy, ProgressTypeOK
<1> HIDE DEF cut
<1>3. asked' \in Asked
  <2>1. CASE stopped \/ posted = None
    BY <2>1 DEF Stop, cut, own, Asked, ProgressTypeOK
  <2>2. CASE ~(stopped \/ posted = None)
    <3>1. Request(posted, "deleted") \in Requests
      BY <2>2, RequestTyped DEF ProgressTypeOK, Messages
    <3> QED BY <2>2, <3>1 DEF Stop, cut, own, Asked, ProgressTypeOK
  <2> QED BY <2>1, <2>2
<1>4. loose' \subseteq Requests /\ excused' \subseteq Messages
  <2>1. /\ loose' = loose \cup CutBy(cut)
        /\ excused' = excused \cup { r.on : r \in CutBy(cut \cap {"poster", "turn"}) }
    BY DEF Stop, cut, own
  <2> QED BY <1>2, <2>1 DEF ProgressTypeOK, Requests
<1>5. writer' \in [Writers -> {"off", "asleep", "queued", "editing"}]
  BY DEF Stop, ProgressTypeOK
<1>6. /\ poster' \in {"waiting", "sending", "done"} /\ turn' = place
      /\ posted' \in {posted, None} /\ stopped' = TRUE
      /\ UNCHANGED <<awaited, streaming, held, channel, faults, delivered, overtaken>>
  BY DEF Stop, ProgressTypeOK
<1> QED BY <1>3, <1>4, <1>5, <1>6 DEF ProgressTypeOK, Asked

LEMMA RequestEnds ==
    ASSUME ProgressTypeOK, NEW t \in Tasks, Succeeds(t) \/ Fails(t)
    PROVE  /\ channel' \in Channels /\ loose' = loose /\ faults' \in 0..MaxFaults
           /\ excused' \subseteq Messages
           /\ Succeeds(t) => asked' = [asked EXCEPT ![t] = None] /\ asked' \in Asked
           /\ asked[t] \in Requests
<1>1. asked[t] \in Requests /\ channel \in Channels
  BY DEF ProgressTypeOK, Succeeds, Fails, Channels
<1>2. Carried(asked[t]) \in Channels
  BY <1>1, CarriedTyped
<1>3. CASE Succeeds(t)
  BY <1>1, <1>2, <1>3 DEF Succeeds, Asking, Asked, ProgressTypeOK
<1>4. CASE Fails(t)
  <2>1. faults' \in 0..MaxFaults /\ channel' \in {channel, Carried(asked[t])}
    BY <1>4, ProgressAssumption DEF Fails, ProgressTypeOK
  <2> QED BY <1>1, <1>2, <1>4, <2>1 DEF Fails, ProgressTypeOK, Requests, Succeeds, Asking, Asked
<1> QED BY <1>3, <1>4

(* While the answer is being put in its place, the message it replaces is  *)
(* known.                                                                  *)
TakenOver == turn \in {"changing", "resending"} => held # None

LEMMA TakenStep ==
    ASSUME ProgressTypeOK, TakenOver, [ProgressNext]_progressVars
    PROVE  TakenOver'
<1>1. CASE Transition
  BY <1>1 DEF Transition, TakenOver
<1>2. CASE UNCHANGED <<turn, held>>
  BY <1>2 DEF TakenOver
<1>3. CASE ChangeFails
  BY <1>3 DEF ChangeFails, TakenOver, object
<1>4. CASE turn' \notin {"changing", "resending"}
  BY <1>4 DEF TakenOver
<1> QED BY <1>1, <1>2, <1>3, <1>4
        DEF ProgressNext, progressVars, object, PostBegins, PostArrives, PostFails, Started,
            Writes, Flush, Edited, Limited, EditFails, Streams, Defers, Wakes, BatchEnds,
            FollowUpEnds, Replies, Silent, Changed, Resent, ResendFails, Replied, ReplyFails,
            Cleanup, Cancelled, Stop, Deleted, DeleteFails, Straggler

(* What the tasks ask for: the first post and the writers show progress,   *)
(* the turn shows the answer in the message it took over or in one of its  *)
(* own, and a request without a task is one of those.                      *)
Progress(m) == Request(m, "progress")
TurnAsks ==
    \/ asked["turn"] = None
    \/ turn = "changing" /\ asked["turn"] = Request(held, "answer")
    \/ turn = "resending" /\ asked["turn"] = Request("fallback", "answer")
    \/ turn = "replying" /\ asked["turn"] = Request("reply", "answer")
Asks ==
    /\ \A w \in Writers : asked[w] = None \/ \E m \in Posts : asked[w] = Progress(m)
    /\ asked["poster"] # None => /\ poster = "sending"
                                /\ \E m \in Posts : asked["poster"] = Progress(m)
    /\ TurnAsks
    /\ asked["deleter"] = None \/ \E m \in Posts : asked["deleter"] = Request(m, "deleted")
    /\ \A r \in loose : (\E m \in Posts : r = Progress(m)) \/ r.shows = "answer"

LEMMA ProgressTypedStep ==
    ASSUME ProgressTypeOK, TakenOver, Asks, [ProgressNext]_progressVars
    PROVE  ProgressTypeOK'
<1> USE DEF object, net, history, Asking, WriterAt
<1>a. /\ \A m \in Messages, s \in {"progress", "answer", "deleted"} : Request(m, s) \in Requests
      /\ \A ts \in SUBSET Tasks : CutBy(ts) \subseteq Requests
      /\ Deferred \subseteq Tasks /\ Posts \subseteq Messages
      /\ "fallback" \in Messages /\ "reply" \in Messages
  BY RequestTyped, TasksApart DEF CutBy, Deferred, Messages, ProgressTypeOK
<1>1. CASE PostBegins
  <2>1. Request("post", "progress") \in Requests
    BY <1>a DEF Posts
  <2> QED BY <1>1, <2>1, TasksApart DEF PostBegins, ProgressTypeOK
<1>2. CASE PostArrives \/ PostFails
  <2>1. /\ channel' \in Channels /\ loose' = loose /\ faults' \in 0..MaxFaults
        /\ excused' \subseteq Messages /\ asked["poster"] \in Requests
    BY <1>2, RequestEnds, TasksApart DEF PostArrives, PostFails
  <2>2. CASE PostArrives
    <3>1. asked' \in Asked
      BY <2>2, RequestEnds, TasksApart DEF PostArrives
    <3>2. posted' \in Posts /\ poster' = "done"
      BY <2>2, RequestTyped DEF PostArrives, Succeeds, Asks, Progress, Messages
    <3>3. UNCHANGED <<turn, awaited, writer, stopped, streaming, held, delivered, overtaken>>
      BY <2>2 DEF PostArrives
    <3> QED BY <2>1, <3>1, <3>2, <3>3 DEF ProgressTypeOK, Channels, Asked, Requests
  <2>3. CASE PostFails
    <3>1. Request("repost", "progress") \in Requests
      BY <1>a DEF Posts
    <3>2. asked' \in Asked /\ poster' \in {poster, "done"}
      BY <2>3, <3>1 DEF PostFails, Asked, ProgressTypeOK
    <3>3. UNCHANGED <<turn, awaited, writer, posted, stopped, streaming, held,
                    delivered, overtaken>>
      BY <2>3 DEF PostFails
    <3> QED BY <2>1, <3>2, <3>3 DEF ProgressTypeOK, Channels, Asked
  <2> QED BY <1>2, <2>2, <2>3
<1>4. CASE Started \/ FollowUpEnds \/ Silent \/ Wakes
  BY <1>4, TasksApart DEF Started, FollowUpEnds, Silent, Wakes, ProgressTypeOK
<1>5. ASSUME NEW w \in Writers, Writes(w) PROVE ProgressTypeOK'
  BY <1>5 DEF Writes, ProgressTypeOK
<1>6. ASSUME NEW w \in Writers, Flush(w) PROVE ProgressTypeOK'
  <2>1. posted # None => Request(posted, "progress") \in Requests
    BY <1>a DEF ProgressTypeOK
  <2> QED BY <1>6, <2>1, TasksApart DEF Flush, StillLive, ProgressTypeOK
<1>7. ASSUME NEW w \in Writers, Edited(w) \/ Limited(w) \/ EditFails(w) PROVE ProgressTypeOK'
  <2>1. CASE Edited(w)
    <3>1. writer' \in [Writers -> {"off", "asleep", "queued", "editing"}]
      BY <2>1 DEF Edited, ProgressTypeOK
    <3>2. /\ asked' \in Asked /\ channel' \in Channels
          /\ loose' = loose /\ excused' = excused /\ faults' = faults
      BY <2>1, RequestEnds, TasksApart DEF Edited, Succeeds
    <3>3. UNCHANGED <<turn, awaited, poster, posted, stopped, streaming, held,
                    delivered, overtaken>>
      BY <2>1 DEF Edited
    <3> QED BY <3>1, <3>2, <3>3 DEF ProgressTypeOK, Channels, Asked
  <2>2. CASE Limited(w)
    <3>1. writer' \in [Writers -> {"off", "asleep", "queued", "editing"}]
      BY <2>2 DEF Limited, ProgressTypeOK
    <3>2. asked' \in [Tasks -> Requests \cup {None}]
      BY <2>2 DEF Limited, ProgressTypeOK
    <3> QED BY <2>2, <3>1, <3>2 DEF Limited, RateLimited, ProgressTypeOK
  <2>3. CASE EditFails(w)
    <3>1. /\ channel' \in Channels /\ loose' = loose /\ faults' \in 0..MaxFaults
          /\ excused' \subseteq Messages
      BY <2>3, RequestEnds, TasksApart DEF EditFails
    <3>2. /\ writer' \in [Writers -> {"off", "asleep", "queued", "editing"}]
          /\ asked' \in Asked
      BY <2>3 DEF EditFails, Asked, ProgressTypeOK
    <3>3. /\ posted' = None
          /\ UNCHANGED <<turn, awaited, poster, stopped, streaming, held, delivered, overtaken>>
      BY <2>3 DEF EditFails
    <3> QED BY <3>1, <3>2, <3>3 DEF ProgressTypeOK, Channels, Asked
  <2> QED BY <1>7, <2>1, <2>2, <2>3
<1>8. CASE Streams \/ Defers
  <2>1. /\ writer' \in [Writers -> {"off", "asleep", "queued", "editing"}]
        /\ asked' \in Asked
    BY <1>8, TasksApart DEF Streams, Defers, Asked, ProgressTypeOK
  <2>2. loose' \subseteq Requests /\ streaming' \in BOOLEAN
    BY <1>8, <1>a DEF Streams, Defers, ProgressTypeOK
  <2>3. UNCHANGED <<turn, awaited, poster, posted, stopped, held, channel, faults, delivered,
                    excused, overtaken>>
    BY <1>8 DEF Streams, Defers
  <2> QED BY <2>1, <2>2, <2>3 DEF ProgressTypeOK, Asked
<1>9. CASE BatchEnds \/ Cleanup
  BY <1>9, StopTyped DEF BatchEnds, Cleanup
<1>10. CASE Transition
  <2>1. Request(posted, "answer") \in Requests
    BY <1>10, <1>a DEF Transition, ProgressTypeOK
  <2> QED BY <1>10, <1>a, <2>1, TasksApart DEF Transition, GivesUp, ProgressTypeOK
<1>11. CASE Replies
  BY <1>11, <1>a, TasksApart DEF Replies, ProgressTypeOK
<1>12. CASE Changed \/ Replied \/ Deleted
  <2>1. CASE Changed
    BY <2>1, RequestEnds, TasksApart DEF Changed, ProgressTypeOK, Channels, Asked, Requests
  <2>2. CASE Replied
    <3>1. channel' \in Channels /\ asked' \in Asked /\ loose' = loose /\ excused' = excused
          /\ faults' = faults
      BY <2>2, RequestEnds, TasksApart DEF Replied, Succeeds
    <3>2. UNCHANGED <<awaited, poster, writer, posted, stopped, streaming, held, overtaken>>
      BY <2>2 DEF Replied
    <3>3. turn' = "settling" /\ delivered' = "reply"
      BY <2>2 DEF Replied
    <3> QED BY <3>1, <3>2, <3>3, <1>a DEF ProgressTypeOK, Channels, Asked
  <2>3. CASE Deleted
    BY <2>3, RequestEnds, TasksApart DEF Deleted, ProgressTypeOK, Channels, Asked
  <2> QED BY <1>12, <2>1, <2>2, <2>3
<1>13. CASE ChangeFails
  BY <1>13, <1>a, RequestEnds, TasksApart DEF ChangeFails, ProgressTypeOK, Channels, Asked
<1>14. CASE ReplyFails \/ DeleteFails
  <2>1. CASE ReplyFails
    BY <2>1, RequestEnds, TasksApart DEF ReplyFails, ProgressTypeOK, Channels, Asked
  <2>2. CASE DeleteFails
    BY <2>2, RequestEnds, TasksApart DEF DeleteFails, ProgressTypeOK, Channels, Asked
  <2> QED BY <1>14, <2>1, <2>2
<1>15. CASE Resent \/ ResendFails
  <2>1. held \in Posts
    BY <1>15 DEF Resent, ResendFails, TakenOver, ProgressTypeOK
  <2>2. Request(held, "deleted") \in Requests /\ Request("reply", "answer") \in Requests
    BY <2>1, <1>a
  <2>3. CASE Resent
    <3>1. asked["turn"] \in Requests
      BY <2>3, TasksApart DEF Resent, ProgressTypeOK
    <3>2. channel' \in Channels
      BY <2>3, <3>1, CarriedTyped DEF Resent, ProgressTypeOK, Channels
    <3> QED BY <2>2, <2>3, <3>2, <1>a, TasksApart DEF Resent, Spawned, ProgressTypeOK, Channels
  <2>4. CASE ResendFails
    BY <2>2, <2>4, RequestEnds, TasksApart DEF ResendFails, Spawned, ProgressTypeOK, Channels
  <2> QED BY <1>15, <2>3, <2>4
<1>16. CASE Cancelled
  <2>1. CASE /\ turn = "starting" /\ poster # "done"
             /\ poster' = "done"
             /\ asked' = Asking("poster", None)
             /\ loose' = loose \cup CutBy({"poster"})
             /\ excused' = excused \cup { r.on : r \in CutBy({"poster"}) }
             /\ UNCHANGED <<turn, awaited, writer, object, channel, faults, delivered, overtaken>>
    <3>1. CutBy({"poster"}) \subseteq Requests
      BY <1>a, TasksApart
    <3>2. { r.on : r \in CutBy({"poster"}) } \subseteq Messages
      BY <3>1 DEF Requests
    <3> QED BY <2>1, <3>1, <3>2, TasksApart DEF ProgressTypeOK
  <2>2. CASE Stop("over", {"update"}) \/ Stop("over", {"turn"})
    BY <2>2, StopTyped, TasksApart
  <2>3. CASE /\ turn = "resending" /\ turn' = "settling"
             /\ asked' = Spawned
             /\ loose' = loose \cup CutBy({"turn"})
             /\ UNCHANGED <<awaited, poster, writer, object, channel, faults, history>>
    <3>1. held \in Posts
      BY <2>3 DEF TakenOver, ProgressTypeOK
    <3>2. Request(held, "deleted") \in Requests /\ CutBy({"turn"}) \subseteq Requests
      BY <3>1, <1>a, TasksApart
    <3> QED BY <2>3, <3>2, TasksApart DEF Spawned, ProgressTypeOK
  <2> QED BY <1>16, <2>1, <2>2, <2>3 DEF Cancelled
<1>17. CASE Straggler
  BY <1>17, CarriedTyped DEF Straggler, ProgressTypeOK, Channels
<1>18. CASE UNCHANGED progressVars
  BY <1>18 DEF progressVars, ProgressTypeOK
<1> QED BY <1>1, <1>2, <1>4, <1>5, <1>6, <1>7, <1>8, <1>9, <1>10, <1>11, <1>12, <1>13,
           <1>14, <1>15, <1>16, <1>17, <1>18 DEF ProgressNext

(* Where the object of the turn stands with the other tasks.               *)
Object ==
    /\ stopped => posted = None /\ poster = "done"
    /\ posted # None => poster = "done"
    /\ held # None => stopped
    /\ awaited /\ turn # "starting" => poster = "done"
    /\ turn = "over" => stopped
    /\ overtaken # {} => held # None
    /\ asked["deleter"] # None => stopped
    /\ turn \in {"changing", "resending"} => asked["deleter"] = None
    /\ \A w \in Writers : asked[w] # None =>
         poster = "done" /\ (posted # None => asked[w].on = posted)

(* What a step may do to the requests of each task.                        *)
LEMMA WritersAsk ==
    ASSUME ProgressTypeOK, [ProgressNext]_progressVars, NEW w \in Writers
    PROVE  \/ asked'[w] \in {asked[w], None}
           \/ /\ StillLive /\ asked'[w] = Progress(posted)
              /\ UNCHANGED <<turn, awaited, poster, object, loose, channel, history>>
<1> USE TasksApart DEF Asking, ProgressTypeOK
<1>1. CASE UNCHANGED asked
  BY <1>1
<1>2. ASSUME NEW v \in Writers, Flush(v) PROVE
         \/ asked'[w] \in {asked[w], None}
         \/ /\ StillLive /\ asked'[w] = Progress(posted)
            /\ UNCHANGED <<turn, awaited, poster, object, loose, channel, history>>
  BY <1>2 DEF Flush, Progress
<1>3. ASSUME NEW p, NEW more, Stop(p, more) PROVE asked'[w] \in {asked[w], None}
  BY <1>3 DEF Stop
<1>4. ASSUME NEW v \in Writers, Edited(v) \/ Limited(v) \/ EditFails(v)
      PROVE  asked'[w] \in {asked[w], None}
  BY <1>4 DEF Edited, Limited, EditFails, Succeeds
<1>5. CASE PostBegins \/ PostArrives \/ PostFails
  BY <1>5 DEF PostBegins, PostArrives, PostFails, Succeeds
<1>6. CASE Streams \/ Defers \/ Transition \/ Replies
  BY <1>6 DEF Streams, Defers, Transition, Replies
<1>7. CASE Changed \/ ChangeFails \/ Resent \/ ResendFails \/ Replied \/ ReplyFails
  BY <1>7 DEF Changed, ChangeFails, Resent, ResendFails, Replied, ReplyFails, Succeeds, Spawned
<1>8. CASE Deleted \/ DeleteFails
  BY <1>8 DEF Deleted, DeleteFails, Succeeds
<1>9. CASE Cancelled
  BY <1>3, <1>9 DEF Cancelled, Spawned
<1> QED BY <1>1, <1>2, <1>3, <1>4, <1>5, <1>6, <1>7, <1>8, <1>9
        DEF ProgressNext, progressVars, net, Started, FollowUpEnds, Silent, Wakes, Writes,
            BatchEnds, Cleanup, Straggler

LEMMA PosterAsks ==
    ASSUME ProgressTypeOK, Asks, [ProgressNext]_progressVars
    PROVE  asked'["poster"] # None => /\ poster' = "sending"
                                      /\ \E m \in Posts : asked'["poster"] = Progress(m)
<1> USE TasksApart DEF Asking, ProgressTypeOK
<1>1. CASE poster' = poster /\ asked'["poster"] = asked["poster"]
  BY <1>1 DEF Asks
<1>2. CASE asked'["poster"] = None
  BY <1>2
<1>3. CASE PostBegins \/ PostFails
  <2>1. CASE PostBegins
    BY <2>1 DEF PostBegins, Posts, Progress, Asks
  <2>2. CASE PostFails
    <3>1. poster = "sending" /\ poster' \in {poster, "done"}
      BY <2>2 DEF PostFails
    <3>2. \/ asked' = [asked EXCEPT !["poster"] = Progress("repost")] /\ poster' = poster
          \/ asked' = [asked EXCEPT !["poster"] = None]
      BY <2>2 DEF PostFails, Progress
    <3> QED BY <3>1, <3>2 DEF Posts
  <2> QED BY <1>3, <2>1, <2>2
<1>4. ASSUME NEW p, NEW more \in SUBSET {"update", "turn"}, Stop(p, more)
      PROVE  asked'["poster"] = None \/ (poster' = poster /\ asked'["poster"] = asked["poster"])
  BY <1>4 DEF Stop
<1>5. ASSUME NEW v \in Writers,
             Writes(v) \/ Flush(v) \/ Edited(v) \/ Limited(v) \/ EditFails(v)
      PROVE  poster' = poster /\ asked'["poster"] = asked["poster"]
  BY <1>5 DEF Writes, net, Flush, Edited, Limited, EditFails, Succeeds
<1>6. CASE Changed \/ ChangeFails \/ Resent \/ ResendFails \/ Replied \/ ReplyFails
  BY <1>1, <1>6
     DEF Changed, ChangeFails, Resent, ResendFails, Replied, ReplyFails, Succeeds, Spawned
<1>7. CASE Deleted \/ DeleteFails
  BY <1>1, <1>7 DEF Deleted, DeleteFails, Succeeds
<1>8. CASE Streams \/ Defers \/ Transition \/ Replies
  BY <1>1, <1>8 DEF Streams, Defers, Transition, Replies
<1>9. CASE Cancelled
  BY <1>1, <1>2, <1>4, <1>9 DEF Cancelled, Spawned
<1>10. CASE PostArrives
  BY <1>2, <1>10 DEF PostArrives, Succeeds
<1>11. CASE BatchEnds \/ Cleanup
  BY <1>1, <1>2, <1>4, <1>11 DEF BatchEnds, Cleanup
<1> QED BY <1>1, <1>3, <1>5, <1>6, <1>7, <1>8, <1>9, <1>10, <1>11
        DEF ProgressNext, progressVars, net, Started, FollowUpEnds, Silent, Wakes, Straggler

LEMMA TheTurnAsks ==
    ASSUME ProgressTypeOK, Asks, [ProgressNext]_progressVars
    PROVE  TurnAsks'
<1> USE TasksApart DEF Asking, ProgressTypeOK
<1>1. CASE UNCHANGED <<turn, held>> /\ asked'["turn"] = asked["turn"]
  BY <1>1 DEF Asks, TurnAsks, Request
<1>2. CASE asked'["turn"] = None
  BY <1>2 DEF TurnAsks
<1>3. CASE Transition \/ Replies \/ ChangeFails \/ ResendFails
  BY <1>3 DEF Transition, Replies, ChangeFails, ResendFails, TurnAsks, Spawned
<1>4. ASSUME NEW p, NEW more, Stop(p, more), asked["turn"] = None \/ "turn" \in more
      PROVE  asked'["turn"] = None
  BY <1>4 DEF Stop
<1>5. turn \in {"starting", "working", "finishing", "settling", "over"} => asked["turn"] = None
  BY DEF Asks, TurnAsks
<1>6. CASE BatchEnds \/ Cleanup \/ Cancelled
  <2>1. CASE /\ turn = "starting" /\ poster # "done"
             /\ asked' = Asking("poster", None)
             /\ UNCHANGED <<turn, awaited, writer, object, channel, faults, delivered, overtaken>>
    BY <1>2, <1>5, <2>1
  <2>2. CASE asked' = Spawned
    BY <1>2, <2>2 DEF Spawned
  <2> QED BY <1>2, <1>4, <1>5, <1>6, <2>1, <2>2 DEF BatchEnds, Idle, Cleanup, Cancelled
<1>7. CASE Changed \/ Resent \/ Replied \/ ReplyFails
  BY <1>2, <1>7 DEF Changed, Resent, Replied, ReplyFails, Succeeds, Spawned
<1>8. CASE Started \/ FollowUpEnds \/ Silent
  BY <1>2, <1>5, <1>8 DEF Started, FollowUpEnds, Silent, net, Idle
<1>9. ASSUME NEW v \in Writers,
             Writes(v) \/ Flush(v) \/ Edited(v) \/ Limited(v) \/ EditFails(v)
      PROVE  UNCHANGED <<turn, held>> /\ asked'["turn"] = asked["turn"]
  BY <1>9 DEF Writes, net, object, Flush, Edited, Limited, EditFails, Succeeds
<1>10. CASE Streams \/ Defers \/ Wakes \/ Deleted \/ DeleteFails \/ Straggler
  BY <1>1, <1>10 DEF Streams, Defers, Wakes, Deleted, DeleteFails, Succeeds, Straggler, net, object
<1>11. CASE PostBegins \/ PostArrives \/ PostFails
  BY <1>1, <1>11 DEF PostBegins, PostArrives, PostFails, Succeeds, object
<1> QED BY <1>1, <1>3, <1>6, <1>7, <1>8, <1>9, <1>10, <1>11
        DEF ProgressNext, progressVars, net, object

LEMMA DeleterAsks ==
    ASSUME ProgressTypeOK, TakenOver, [ProgressNext]_progressVars
    PROVE  \/ asked'["deleter"] = asked["deleter"]
           \/ asked["deleter"] # None /\ asked'["deleter"] = None /\ (Deleted \/ DeleteFails)
           \/ /\ ~stopped /\ stopped' /\ posted \in Posts
              /\ asked'["deleter"] = Request(posted, "deleted")
              /\ turn' \in {"finishing", "over"}
           \/ /\ turn = "resending" /\ turn' \in {"settling", "replying"} /\ held \in Posts
              /\ asked'["deleter"] = Request(held, "deleted") /\ UNCHANGED object
<1> DEFINE Goal == asked'["deleter"] = asked["deleter"]
           Begun == /\ ~stopped /\ stopped' /\ posted \in Posts
                    /\ asked'["deleter"] = Request(posted, "deleted")
                    /\ turn' \in {"finishing", "over"}
<1> USE TasksApart DEF Asking, ProgressTypeOK
<1>1. CASE UNCHANGED asked
  BY <1>1
<1>2. ASSUME NEW p \in {"finishing", "over"}, NEW more \in SUBSET {"update", "turn"},
             Stop(p, more)
      PROVE  Goal \/ Begun
  <2>1. "deleter" \notin Writers
    OBVIOUS
  <2>2. CASE stopped \/ posted = None
    BY <1>2, <2>1, <2>2 DEF Stop, Deferred
  <2>3. CASE ~(stopped \/ posted = None)
    <3>1. /\ stopped' /\ turn' = p /\ posted \in Posts
      BY <1>2, <2>3 DEF Stop
    <3>2. asked'["deleter"] = Request(posted, "deleted")
      <4>1. Request(posted, "deleted") # None
        BY <3>1, RequestTyped DEF Messages
      <4> QED BY <1>2, <2>1, <2>3, <4>1 DEF Stop, Deferred
    <3> QED BY <2>3, <3>1, <3>2
  <2> QED BY <2>2, <2>3
<1>3. ASSUME NEW v \in Writers, Flush(v) \/ Edited(v) \/ Limited(v) \/ EditFails(v)
      PROVE  Goal
  BY <1>3 DEF Flush, Edited, Limited, EditFails, Succeeds
<1>4. CASE PostBegins \/ PostArrives \/ PostFails
  BY <1>4 DEF PostBegins, PostArrives, PostFails, Succeeds
<1>5. CASE Streams \/ Defers \/ Transition \/ Replies
  BY <1>5 DEF Streams, Defers, Transition, Replies
<1>6. CASE Changed \/ ChangeFails \/ Replied \/ ReplyFails
  BY <1>6 DEF Changed, ChangeFails, Replied, ReplyFails, Succeeds
<1>7. CASE Resent \/ ResendFails
  BY <1>7 DEF Resent, ResendFails, Spawned, TakenOver
<1>8. CASE Deleted \/ DeleteFails
  BY <1>8 DEF Deleted, DeleteFails, Succeeds, Fails
<1>9. CASE Cancelled
  <2>1. CASE /\ turn = "resending" /\ turn' = "settling" /\ asked' = Spawned
             /\ UNCHANGED <<awaited, poster, writer, object, channel, faults, history>>
    BY <2>1 DEF Spawned, TakenOver
  <2> QED BY <1>2, <1>9, <2>1 DEF Cancelled
<1> QED BY <1>1, <1>2, <1>3, <1>4, <1>5, <1>6, <1>7, <1>8, <1>9
        DEF ProgressNext, progressVars, net, Started, FollowUpEnds, Silent, Wakes, Writes,
            BatchEnds, Cleanup, Straggler

(* Whose request is left behind by a step, and what becomes of its         *)
(* message.                                                                *)
LEMMA LeftBehind ==
    ASSUME ProgressTypeOK, [ProgressNext]_progressVars, NEW r \in loose'
    PROVE  \/ r \in loose
           \/ \E w \in Writers : asked[w] # None /\ r = asked[w]
           \/ asked["poster"] # None /\ r = asked["poster"] /\ r.on \in excused'
           \/ asked["turn"] # None /\ r = asked["turn"]
<1> DEFINE Goal == \/ r \in loose
                   \/ \E w \in Writers : asked[w] # None /\ r = asked[w]
                   \/ asked["poster"] # None /\ r = asked["poster"] /\ r.on \in excused'
                   \/ asked["turn"] # None /\ r = asked["turn"]
<1> USE TasksApart
<1>1. CASE loose' \subseteq loose
  BY <1>1
<1>2. CASE loose' = loose \cup CutBy(Deferred)
  BY <1>2 DEF CutBy, Deferred
<1>3. ASSUME NEW p, NEW more \in SUBSET {"update", "turn"}, Stop(p, more)
      PROVE  Goal
  <2> DEFINE own == IF poster # "done" /\ ~awaited THEN {"poster"} ELSE {}
             cut == more \cup (IF stopped THEN {} ELSE own \cup Deferred)
  <2>1. /\ loose' = loose \cup CutBy(cut)
        /\ excused' = excused \cup { q.on : q \in CutBy(cut \cap {"poster", "turn"}) }
    BY <1>3 DEF Stop
  <2>2. cut \subseteq Writers \cup {"turn", "poster"}
    BY DEF Deferred
  <2> HIDE DEF cut
  <2>3. ASSUME NEW t \in cut, r = asked[t], r # None PROVE Goal
    <3>1. CASE t = "poster"
      <4>1. r \in CutBy(cut \cap {"poster", "turn"})
        BY <2>3, <3>1 DEF CutBy
      <4> QED BY <2>1, <2>3, <3>1, <4>1
    <3> QED BY <2>2, <2>3, <3>1
  <2> QED BY <2>1, <2>3 DEF CutBy
<1>4. CASE Cancelled
  <2>1. CASE /\ loose' = loose \cup CutBy({"poster"})
             /\ excused' = excused \cup { q.on : q \in CutBy({"poster"}) }
    BY <2>1 DEF CutBy
  <2>2. CASE loose' = loose \cup CutBy({"turn"})
    BY <2>2 DEF CutBy
  <2> QED BY <1>3, <1>4, <2>1, <2>2 DEF Cancelled
<1>5. CASE Straggler
  BY <1>5 DEF Straggler
<1> QED BY <1>1, <1>2, <1>3, <1>4, <1>5
        DEF ProgressNext, progressVars, net, PostBegins, PostArrives, PostFails, Started,
            Writes, Flush, Edited, Limited, EditFails, Streams, Defers, Wakes, BatchEnds,
            FollowUpEnds, Transition, Replies, Silent, Changed, ChangeFails, Resent,
            ResendFails, Replied, ReplyFails, Cleanup, Deleted, DeleteFails, Succeeds, Fails

LEMMA AsksStep ==
    ASSUME ProgressTypeOK, TakenOver, Asks, [ProgressNext]_progressVars
    PROVE  Asks'
<1>1. ASSUME NEW w \in Writers
      PROVE  asked'[w] = None \/ \E m \in Posts : asked'[w] = Progress(m)
  BY WritersAsk DEF Asks, StillLive, ProgressTypeOK
<1>2. asked'["deleter"] = None \/ \E m \in Posts : asked'["deleter"] = Request(m, "deleted")
  BY DeleterAsks DEF Asks
<1>3. ASSUME NEW r \in loose' PROVE (\E m \in Posts : r = Progress(m)) \/ r.shows = "answer"
  <2>1. asked["turn"] # None => asked["turn"].shows = "answer"
    BY DEF Asks, TurnAsks, Request
  <2> QED BY <2>1, LeftBehind DEF Asks
<1> QED BY <1>1, <1>2, <1>3, PosterAsks, TheTurnAsks DEF Asks, Progress, Request, TurnAsks

(* What only grows, and what only one kind of step changes.                *)
LEMMA OneWay ==
    ASSUME ProgressTypeOK, [ProgressNext]_progressVars
    PROVE  /\ stopped => stopped'
           /\ poster = "done" => poster' = "done"
           /\ posted' \in {posted, None} \/ (PostArrives /\ poster = "sending")
           /\ held' = held \/ (Transition /\ ~stopped)
           /\ excused \subseteq excused'
           /\ overtaken' = overtaken \/ (Transition /\ ~stopped)
<1>1. CASE UNCHANGED <<poster, object, history>>
  BY <1>1 DEF object, history
<1>2. CASE PostBegins \/ PostArrives \/ PostFails
  BY <1>2 DEF PostBegins, PostArrives, PostFails, Succeeds, Fails, object, history
<1>3. ASSUME NEW v \in Writers, Limited(v) \/ EditFails(v) \/ Edited(v)
      PROVE  /\ UNCHANGED <<stopped, poster, held, overtaken>> /\ excused \subseteq excused'
             /\ posted' \in {posted, None}
  BY <1>3 DEF Limited, RateLimited, EditFails, Edited, Fails, Succeeds, object, history
<1>4. ASSUME NEW p, NEW more, Stop(p, more)
      PROVE  /\ stopped' /\ poster' \in {poster, "done"} /\ posted' \in {posted, None}
             /\ UNCHANGED <<held, overtaken>> /\ excused \subseteq excused'
  BY <1>4 DEF Stop
<1>5. CASE Transition
  BY <1>5 DEF Transition, GivesUp
<1>6. CASE ChangeFails \/ ResendFails \/ ReplyFails \/ DeleteFails \/ Streams
  BY <1>6 DEF ChangeFails, ResendFails, ReplyFails, DeleteFails, Fails, Streams, object, history
<1>7. CASE Changed \/ Resent \/ Replied \/ Deleted
  BY <1>7 DEF Changed, Resent, Replied, Deleted, Succeeds, object, history
<1>8. CASE Cancelled
  BY <1>4, <1>8 DEF Cancelled, object, history
<1> QED BY <1>1, <1>2, <1>3, <1>4, <1>5, <1>6, <1>7, <1>8
        DEF ProgressNext, progressVars, net, Started, Writes, Flush, Defers, Wakes, BatchEnds,
            FollowUpEnds, Replies, Silent, Cleanup, Straggler

LEMMA ObjectStep ==
    ASSUME ProgressTypeOK, TakenOver, Asks, Object, [ProgressNext]_progressVars
    PROVE  Object'
<1> DEFINE Standing == /\ stopped => posted = None /\ poster = "done"
                       /\ posted # None => poster = "done"
                       /\ held # None => stopped
                       /\ awaited /\ turn # "starting" => poster = "done"
                       /\ turn = "over" => stopped
<1>1. Standing'
  <2>1. Standing
    BY DEF Object
  <2>2. CASE UNCHANGED <<turn, awaited, poster, object>>
    BY <2>1, <2>2 DEF object
  <2>3. CASE PostBegins \/ PostArrives \/ PostFails
    BY <2>1, <2>3 DEF PostBegins, PostArrives, PostFails, object
  <2>4. ASSUME NEW v \in Writers, Limited(v) \/ EditFails(v) \/ Edited(v) PROVE Standing'
    BY <2>1, <2>4 DEF Limited, RateLimited, EditFails, Edited, object
  <2>5. ASSUME NEW p, NEW more, Stop(p, more), turn # "starting" PROVE Standing'
    BY <2>1, <2>5 DEF Stop
  <2>6. CASE Transition
    BY <2>1, <2>6 DEF Transition, GivesUp
  <2>7. CASE /\ turn # "starting" /\ turn' # "over"
             /\ UNCHANGED <<awaited, poster, object>>
    BY <2>1, <2>7 DEF object
  <2>8. CASE Started \/ Streams
    BY <2>1, <2>8 DEF Started, Streams, object
  <2>9. CASE Cancelled
    BY <2>1, <2>5, <2>7, <2>9 DEF Cancelled, object
  <2>10. CASE FollowUpEnds \/ Replies \/ Silent \/ Changed \/ ChangeFails
    BY <2>7, <2>10 DEF FollowUpEnds, Idle, Replies, Silent, Changed, ChangeFails
  <2>11. CASE Resent \/ ResendFails \/ Replied \/ ReplyFails
    BY <2>7, <2>11 DEF Resent, ResendFails, Replied, ReplyFails
  <2>12. CASE BatchEnds \/ Cleanup
    BY <2>5, <2>12 DEF BatchEnds, Idle, Cleanup
  <2> HIDE DEF Standing
  <2> QED BY <2>2, <2>3, <2>4, <2>6, <2>8, <2>9, <2>10, <2>11, <2>12
          DEF ProgressNext, progressVars, Writes, Flush, Defers, Wakes, Deleted, DeleteFails,
              Straggler
<1>2. asked'["deleter"] # None => stopped'
  BY DeleterAsks, OneWay DEF Object, TakenOver, object
<1>3. turn' \in {"changing", "resending"} => asked'["deleter"] = None
  <2>1. CASE turn \in {"changing", "resending"}
    BY <2>1, DeleterAsks DEF Object
  <2>2. CASE turn \notin {"changing", "resending"} /\ turn' \in {"changing", "resending"}
    <3>1. ASSUME NEW p \in {"finishing", "over"}, NEW more, Stop(p, more) PROVE turn' = p
      BY <3>1 DEF Stop
    <3>2. Transition
      BY <2>2, <3>1
         DEF ProgressNext, progressVars, net, PostBegins, PostArrives, PostFails, Started,
             Writes, Flush, Edited, Limited, EditFails, Streams, Defers, Wakes, BatchEnds,
             FollowUpEnds, Replies, Silent, Changed, ChangeFails, Resent, ResendFails,
             Replied, ReplyFails, Cleanup, Cancelled, Deleted, DeleteFails, Straggler
    <3> QED BY <3>2, <2>2, DeleterAsks DEF Transition, Object
  <2> QED BY <2>1, <2>2
<1>4. ASSUME NEW w \in Writers, asked'[w] # None
      PROVE  poster' = "done" /\ (posted' # None => asked'[w].on = posted')
  <2>1. CASE asked'[w] = asked[w]
    BY <1>4, <2>1, OneWay DEF Object
  <2>2. CASE StillLive /\ asked'[w] = Progress(posted) /\ UNCHANGED <<poster, object>>
    BY <2>2, RequestTyped DEF StillLive, Object, Progress, object, ProgressTypeOK, Messages
  <2> QED BY <1>4, <2>1, <2>2, WritersAsk
<1>5. overtaken' # {} => held' # None
  BY OneWay DEF Transition, Object
<1> QED BY <1>1, <1>2, <1>3, <1>4, <1>5 DEF Object

(* What Discord shows of a message changes by a request about it.          *)
About(t, m) == asked[t] # None /\ asked[t].on = m
LEMMA ShownBy ==
    ASSUME ProgressTypeOK, Asks, [ProgressNext]_progressVars, NEW m \in Messages
    PROVE  \/ channel'[m] = channel[m]
           \/ /\ m \notin Posts \/ channel[m] # "deleted"
              /\ \/ \E r \in loose : r.on = m /\ channel'[m] = r.shows
                 \/ \E w \in Writers : About(w, m) /\ channel'[m] = "progress"
                 \/ /\ About("poster", m) /\ channel'[m] = "progress"
                    /\ posted' = m \/ m \in excused'
                 \/ About("turn", m) /\ channel'[m] = "answer"
                 \/ About("deleter", m) /\ channel'[m] = "deleted"
<1> DEFINE By(t) == /\ m \notin Posts \/ channel[m] # "deleted"
                    /\ About(t, m) /\ channel'[m] = asked[t].shows
           Same == channel'[m] = channel[m]
<1> USE DEF About
<1>1. ASSUME NEW t \in Tasks, asked[t] # None, channel' \in {channel, Carried(asked[t])}
      PROVE  Same \/ By(t)
  <2>1. asked[t] \in Requests /\ channel \in Channels
    BY <1>1 DEF ProgressTypeOK, Channels
  <2>2. CASE m # asked[t].on
    BY <1>1, <2>1, <2>2, CarriedTyped
  <2>3. CASE m = asked[t].on
    BY <1>1, <2>1, <2>3, CarriedTyped
  <2> QED BY <2>2, <2>3
<1>2. ASSUME NEW t \in Tasks, Succeeds(t) \/ Fails(t) PROVE Same \/ By(t)
  <2>1. asked[t] # None /\ channel' \in {channel, Carried(asked[t])}
    BY <1>2 DEF Succeeds, Fails
  <2> QED BY <1>1, <2>1
<1>3. CASE UNCHANGED channel
  BY <1>3
<1>4. CASE PostArrives \/ PostFails
  <2>1. Same \/ By("poster")
    BY <1>2, <1>4, TasksApart DEF PostArrives, PostFails
  <2>2. About("poster", m) => posted' = m \/ m \in excused'
    BY <1>4 DEF PostArrives, PostFails, Fails
  <2>3. asked["poster"] # None => asked["poster"].shows = "progress"
    BY RequestTyped DEF Asks, Progress, Messages
  <2> QED BY <2>1, <2>2, <2>3
<1>5. ASSUME NEW w \in Writers, Edited(w) \/ EditFails(w)
      PROVE  Same \/ (By(w) /\ channel'[m] = "progress")
  <2>1. Same \/ By(w)
    BY <1>2, <1>5, TasksApart DEF Edited, EditFails
  <2>2. asked[w] # None => asked[w].shows = "progress"
    BY RequestTyped DEF Asks, Progress, Messages
  <2> QED BY <2>1, <2>2
<1>6. CASE Changed \/ ChangeFails \/ Resent \/ ResendFails \/ Replied \/ ReplyFails
  <2>1. asked["turn"] # None => asked["turn"].shows = "answer"
    BY DEF Asks, TurnAsks, Request
  <2>2. CASE Resent
    <3>1. asked["turn"] # None /\ channel' = Carried(asked["turn"])
      BY <2>2 DEF Resent
    <3> QED BY <1>1, <2>1, <3>1, TasksApart
  <2>3. CASE ~Resent
    <3>1. Same \/ By("turn")
      BY <1>2, <1>6, <2>3, TasksApart
         DEF Changed, ChangeFails, ResendFails, Replied, ReplyFails
    <3> QED BY <2>1, <3>1
  <2> QED BY <2>2, <2>3
<1>7. CASE Deleted \/ DeleteFails
  <2>1. Same \/ By("deleter")
    BY <1>2, <1>7, TasksApart DEF Deleted, DeleteFails
  <2>2. asked["deleter"] # None => asked["deleter"].shows = "deleted"
    BY RequestTyped DEF Asks, Messages
  <2> QED BY <2>1, <2>2
<1>8. CASE Straggler
  <2>1. PICK r \in loose : channel' \in {channel, Carried(r)}
    BY <1>8 DEF Straggler
  <2>2. r \in Requests /\ channel \in Channels
    BY DEF ProgressTypeOK, Channels
  <2>3. CASE m # r.on
    BY <2>1, <2>2, <2>3, CarriedTyped
  <2>4. CASE m = r.on
    BY <2>1, <2>2, <2>4, CarriedTyped
  <2> QED BY <2>3, <2>4
<1>9. ASSUME NEW p, NEW more, Stop(p, more) PROVE UNCHANGED channel
  BY <1>9 DEF Stop
<1> HIDE DEF About
<1> QED BY <1>3, <1>4, <1>5, <1>6, <1>7, <1>8, <1>9
        DEF ProgressNext, progressVars, net, PostBegins, Started, Writes, Flush, Limited,
            Streams, Defers, Wakes, BatchEnds, FollowUpEnds, Transition, Replies, Silent,
            Cleanup, Cancelled

(* A progress message is somebody's business: the object's, the answer's,  *)
(* that of a removal, or it is excused.  An edit that is on its way cannot *)
(* reach one that nobody answers for.                                      *)
EditGoes(m) == Progress(m) \in loose \/ \E w \in Writers : asked[w] = Progress(m)
Answered(m) ==
    \/ posted = m \/ held = m \/ m \in excused
    \/ asked["deleter"] = Request(m, "deleted") \/ channel[m] = "deleted"
Shown == \A m \in Posts :
    /\ channel[m] = "progress" \/ EditGoes(m) => Answered(m)
    /\ held = m /\ EditGoes(m) => m \in overtaken
    /\ held = m /\ channel[m] = "progress" =>
         \/ m \in excused \cup overtaken
         \/ turn = "changing" /\ asked["turn"] = Request(m, "answer")

LEMMA StaysAnswered ==
    ASSUME ProgressTypeOK, TakenOver, Asks, Object, [ProgressNext]_progressVars,
           NEW m \in Posts, Answered(m)
    PROVE  Answered(m)'
<1>1. CASE held = m
  BY <1>1, OneWay, ProgressAssumption DEF Object, Answered, Messages
<1>2. CASE m \in excused
  BY <1>2, OneWay DEF Answered
<1>3. CASE channel[m] = "deleted"
  BY <1>3, ShownBy DEF Answered, Messages
<1>4. CASE asked["deleter"] = Request(m, "deleted")
  <2>1. m \in Messages /\ Request(m, "deleted") # None /\ Request(m, "deleted").on = m
        /\ Request(m, "deleted").shows = "deleted"
    BY RequestTyped DEF Messages
  <2>2. CASE Deleted
    <3>1. channel' = Carried(asked["deleter"])
      BY <2>2 DEF Deleted, Succeeds
    <3>2. channel'[m] = "deleted"
      BY <1>4, <2>1, <3>1, RequestTyped, CarriedTyped DEF ProgressTypeOK, Channels
    <3> QED BY <3>2 DEF Answered
  <2>3. CASE DeleteFails
    BY <1>4, <2>1, <2>3 DEF DeleteFails, Fails, Answered
  <2> QED BY <1>4, <2>1, <2>2, <2>3, DeleterAsks DEF Object, Answered, TakenOver, Request
<1>5. CASE posted = m
  <2>1. posted # None /\ ~stopped
    BY <1>5, ProgressAssumption DEF Object, Messages
  <2>2. CASE posted' = m
    BY <2>2 DEF Answered
  <2>3. ASSUME NEW p, NEW more, Stop(p, more), more \in SUBSET {"update", "turn"}
        PROVE  Answered(m)'
    <3>1. asked'["deleter"] = Request(m, "deleted")
      <4>1. Request(posted, "deleted") # None /\ "deleter" \notin Writers /\ "deleter" \in Tasks
        BY <1>5, RequestTyped, TasksApart DEF Messages
      <4> QED BY <1>5, <2>1, <2>3, <4>1 DEF Stop, Deferred
    <3> QED BY <3>1 DEF Answered, Request
  <2>4. CASE Transition
    BY <1>5, <2>4 DEF Transition, Answered
  <2>5. ASSUME NEW w \in Writers, EditFails(w) PROVE Answered(m)'
    BY <1>5, <2>1, <2>5 DEF EditFails, Fails, Object, Answered
  <2>6. CASE UNCHANGED posted
    BY <1>5, <2>2, <2>6
  <2>7. CASE Cancelled
    BY <2>3, <2>6, <2>7 DEF Cancelled, object
  <2>8. CASE BatchEnds \/ Cleanup
    BY <2>3, <2>8 DEF BatchEnds, Cleanup
  <2>9. CASE PostArrives
    BY <2>1, <2>9 DEF PostArrives, Object
  <2> QED BY <2>4, <2>5, <2>6, <2>7, <2>8, <2>9
          DEF ProgressNext, progressVars, object, PostBegins, PostFails, Started, Writes, Flush,
              Edited, Limited, RateLimited, Streams, Defers, Wakes, FollowUpEnds, Replies,
              Silent, Changed, ChangeFails, Resent, ResendFails, Replied, ReplyFails, Deleted,
              DeleteFails, Straggler
<1> QED BY <1>1, <1>2, <1>3, <1>4, <1>5 DEF Answered

LEMMA EditsBefore ==
    ASSUME ProgressTypeOK, Asks, [ProgressNext]_progressVars, NEW m \in Posts, EditGoes(m)'
    PROVE  \/ EditGoes(m)
           \/ StillLive /\ posted = m /\ posted' = m /\ UNCHANGED held
           \/ poster = "sending" /\ m \in excused'
<1> USE DEF EditGoes
<1>1. /\ Progress(m) # None /\ Progress(m).on = m /\ Progress(m).shows = "progress"
      /\ Progress(m)' = Progress(m)
  BY RequestTyped DEF Progress, Request, Messages
<1>2. CASE Progress(m) \in loose'
  <2>1. asked["turn"] # None => asked["turn"].shows = "answer"
    BY DEF Asks, TurnAsks, Request
  <2> QED BY <1>1, <1>2, <2>1, LeftBehind DEF Asks
<1>3. ASSUME NEW w \in Writers, asked'[w] = Progress(m)
      PROVE  EditGoes(m) \/ (StillLive /\ posted = m /\ posted' = m /\ UNCHANGED held)
  <2>1. CASE asked'[w] = asked[w]
    BY <1>3, <2>1
  <2>2. CASE StillLive /\ asked'[w] = Progress(posted) /\ UNCHANGED object
    <3>1. posted \in Posts /\ UNCHANGED <<posted, held>>
      BY <2>2 DEF StillLive, ProgressTypeOK, object
    <3>2. Progress(posted).on = posted
      BY <3>1 DEF Progress, Request
    <3> QED BY <1>1, <1>3, <2>2, <3>1, <3>2
  <2> QED BY <1>1, <1>3, <2>1, <2>2, WritersAsk
<1> QED BY <1>1, <1>2, <1>3

LEMMA ShownStep ==
    ASSUME ProgressTypeOK, TakenOver, Asks, Object, Shown, [ProgressNext]_progressVars
    PROVE  Shown'
<1> SUFFICES ASSUME NEW m \in Posts
             PROVE  /\ channel'[m] = "progress" \/ EditGoes(m)' => Answered(m)'
                    /\ held' = m /\ EditGoes(m)' => m \in overtaken'
                    /\ held' = m /\ channel'[m] = "progress" =>
                         \/ m \in excused' \cup overtaken'
                         \/ turn' = "changing" /\ asked'["turn"] = Request(m, "answer")
  BY DEF Shown, Request
<1>a. m \in Messages /\ m # None
  BY ProgressAssumption DEF Messages
<1>b. /\ \A r \in loose : r.on = m /\ r.shows = "progress" => EditGoes(m)
      /\ \A w \in Writers : About(w, m) => EditGoes(m)
  BY RequestTyped DEF Asks, EditGoes, About, Progress, Messages
<1>c. channel'[m] = "progress" =>
        \/ channel[m] = "progress" \/ EditGoes(m)
        \/ poster = "sending" /\ (posted' = m \/ m \in excused')
  BY <1>a, <1>b, ShownBy DEF Asks, About
<1>d. CASE held = m
  <2>1. stopped /\ poster = "done" /\ posted # m /\ held' = m /\ overtaken' = overtaken
    BY <1>a, <1>d, OneWay DEF Object
  <2>2. EditGoes(m)' => EditGoes(m)
    BY <2>1, EditsBefore DEF StillLive
  <2>3. EditGoes(m) => m \in overtaken
    BY <1>d DEF Shown
  <2>4. ASSUME channel'[m] = "progress", m \notin excused' \cup overtaken'
        PROVE  turn' = "changing" /\ asked'["turn"] = Request(m, "answer")
    <3>1. channel[m] = "progress" /\ ~EditGoes(m)
      BY <1>c, <2>1, <2>3, <2>4
    <3>2. turn = "changing" /\ asked["turn"] = Request(m, "answer")
      BY <1>d, <2>1, <2>4, <3>1, OneWay DEF Shown
    <3>3. Request(m, "answer").on = m /\ Request(m, "answer").shows = "answer"
          /\ Request(m, "answer") # None /\ Request(m, "answer") \in Requests
      BY <1>a, RequestTyped
    <3>4. ~Changed
      <4>1. Changed => channel' = Carried(Request(m, "answer"))
        BY <3>2 DEF Changed, Succeeds
      <4>2. Carried(Request(m, "answer"))[m] = "answer"
        BY <3>1, <3>3, CarriedTyped DEF ProgressTypeOK, Channels
      <4> QED BY <2>4, <4>1, <4>2
    <3>5. ~ChangeFails
      BY <2>4, <3>2, <3>3 DEF ChangeFails, Fails
    <3>6. ~Cancelled
      <4>1. ASSUME Stop("over", {"turn"}) PROVE m \in excused'
        <5>1. asked["turn"] \in CutBy(({"turn"} \cup
                  (IF stopped THEN {} ELSE (IF poster # "done" /\ ~awaited THEN {"poster"} ELSE {})
                                           \cup Deferred)) \cap {"poster", "turn"})
          BY <3>2, <3>3 DEF CutBy
        <5> QED BY <3>2, <3>3, <4>1, <5>1 DEF Stop
      <4> QED BY <2>4, <3>2, <4>1 DEF Cancelled
    <3>7. CASE UNCHANGED asked
      BY <2>1, <3>2, <3>4, <3>5, <3>6, <3>7
         DEF ProgressNext, progressVars, net, object, PostBegins, PostArrives, PostFails,
             Started, Writes, Flush, Edited, Limited, EditFails, Streams, Defers, Wakes, Idle,
             BatchEnds, FollowUpEnds, Transition, Replies, Silent, Resent, ResendFails,
             Replied, ReplyFails, Cleanup, Deleted, DeleteFails, Straggler
    <3>8. CASE turn' = "changing" /\ asked'["turn"] = asked["turn"]
      BY <3>2, <3>8
    <3>9. ASSUME NEW w \in Writers, Writes(w) \/ Flush(w) \/ Edited(w) \/ Limited(w) \/ EditFails(w)
          PROVE turn' = turn /\ asked'["turn"] = asked["turn"]
      BY <3>9, TasksApart DEF Writes, net, Flush, Edited, Limited, EditFails, Succeeds, Asking,
           ProgressTypeOK
    <3>10. CASE Wakes \/ Deleted \/ DeleteFails \/ Straggler
      BY <3>2, <3>10, TasksApart DEF Wakes, Deleted, DeleteFails, Straggler, Succeeds, Asking, net,
           ProgressTypeOK
    <3>11. CASE PostBegins \/ PostArrives \/ PostFails
      BY <3>2, <3>11, TasksApart DEF PostBegins, PostArrives, PostFails, Succeeds, Asking,
           ProgressTypeOK
    <3> QED BY <3>2, <3>4, <3>5, <3>6, <3>7, <3>8, <3>9, <3>10, <3>11
            DEF ProgressNext, progressVars, net, Started, Streams, Defers, Idle, BatchEnds,
                FollowUpEnds, Transition, Replies, Silent, Resent, ResendFails, Replied,
                ReplyFails, Cleanup
  <2>5. Answered(m)'
    BY <1>d, <2>1 DEF Answered
  <2> QED BY <2>1, <2>2, <2>3, <2>4, <2>5
<1>e. CASE held # m
  <2>1. ASSUME channel'[m] = "progress" \/ EditGoes(m)' PROVE Answered(m)'
    <3>1. CASE Answered(m)
      BY <3>1, StaysAnswered
    <3>2. CASE posted' = m \/ m \in excused'
      BY <3>2 DEF Answered
    <3> QED BY <1>c, <2>1, <3>1, <3>2, EditsBefore DEF Shown
  <2>2. ASSUME held' = m
        PROVE  /\ EditGoes(m)' => m \in overtaken'
               /\ turn' = "changing" /\ asked'["turn"] = Request(m, "answer")
    <3>1. Transition /\ posted = m
      BY <1>e, <2>2, OneWay DEF Transition
    <3>2. turn' = "changing" /\ asked'["turn"] = Request(m, "answer")
      BY <3>1, TasksApart DEF Transition, ProgressTypeOK
    <3>3. EditGoes(m)' => Progress(m) \in loose \cup CutBy(Writers)
      <4>1. Progress(m)' = Progress(m) /\ Progress(m) # None
        BY <1>a, RequestTyped DEF Progress, Request
      <4>2. loose' = loose \cup CutBy(Deferred) /\ \A w \in Writers : asked'[w] \in {asked[w], None}
        BY <3>1, TasksApart DEF Transition, ProgressTypeOK
      <4>3. CutBy(Deferred) \subseteq CutBy(Writers)
        BY TasksApart DEF CutBy, Deferred
      <4> QED BY <4>1, <4>2, <4>3 DEF EditGoes, CutBy
    <3>4. Progress(m) \in loose \cup CutBy(Writers) => m \in overtaken'
      BY <3>1 DEF Transition, Progress
    <3> QED BY <3>2, <3>3, <3>4
  <2> QED BY <2>1, <2>2
<1> QED BY <1>d, <1>e

(* What carries the answer is the message taken over, which nobody removes *)
(* any more, or one of the turn's own.                                     *)
Carries ==
    delivered \in Posts => /\ turn \in {"settling", "over"}
                           /\ delivered = held /\ asked["deleter"] = None

LEMMA CarriesStep ==
    ASSUME ProgressTypeOK, TakenOver, Asks, Object, Carries, [ProgressNext]_progressVars
    PROVE  Carries'
<1>1. CASE Changed
  <2>1. /\ delivered' = asked["turn"].on /\ asked["turn"] # None /\ turn = "changing"
        /\ turn' = "settling" /\ held' = held
    BY <1>1 DEF Changed, Succeeds, object
  <2>2. asked["turn"].on = held
    BY <2>1 DEF Asks, TurnAsks, Request
  <2>3. asked'["deleter"] = None
    BY <2>1, DeleterAsks DEF Object
  <2> QED BY <2>1, <2>2, <2>3 DEF Carries
<1>2. CASE Resent \/ Replied
  BY <1>2 DEF Resent, Replied, Carries, Posts
<1>3. CASE UNCHANGED delivered /\ delivered \in Posts
  <2>1. /\ turn \in {"settling", "over"} /\ delivered = held /\ asked["deleter"] = None
        /\ held # None /\ stopped
    BY <1>3, ProgressAssumption DEF Carries, Object, Messages
  <2>2. held' = held /\ asked'["deleter"] = None
    BY <2>1, OneWay, DeleterAsks
  <2>3. turn' \in {"settling", "over"}
    <3>1. ASSUME NEW p \in {"finishing", "over"}, NEW more, Stop(p, more) PROVE turn' = p
      BY <3>1 DEF Stop
    <3> QED BY <2>1, <3>1
            DEF ProgressNext, progressVars, net, object, PostBegins, PostArrives, PostFails,
                Started, Writes, Flush, Edited, Limited, EditFails, Streams, Defers, Wakes,
                Idle, BatchEnds, FollowUpEnds, Transition, Replies, Silent, Changed,
                ChangeFails, Resent, ResendFails, Replied, ReplyFails, Cleanup, Cancelled,
                Deleted, DeleteFails, Straggler
  <2> QED BY <1>3, <2>1, <2>2, <2>3 DEF Carries
<1>4. CASE UNCHANGED delivered /\ delivered \notin Posts
  BY <1>4 DEF Carries
<1>5. ASSUME NEW p, NEW more, Stop(p, more) PROVE UNCHANGED delivered
  BY <1>5 DEF Stop
<1> QED BY <1>1, <1>2, <1>3, <1>4, <1>5
        DEF ProgressNext, progressVars, history, PostBegins, PostArrives, PostFails, Started,
            Writes, Flush, Edited, Limited, EditFails, Streams, Defers, Wakes, BatchEnds,
            FollowUpEnds, Transition, Replies, Silent, ChangeFails, ResendFails, ReplyFails,
            Cleanup, Cancelled, Deleted, DeleteFails, Straggler

LEMMA StandsStep ==
    ASSUME ProgressTypeOK, TakenOver, Asks, Object, Shown, Carries, AnswerStands,
           [ProgressNext]_progressVars
    PROVE  AnswerStands'
<1>1. CASE Changed \/ Replied
  <2>1. /\ asked["turn"] # None /\ delivered' = asked["turn"].on
        /\ channel' = Carried(asked["turn"])
    <3>1. CASE Changed
      BY <3>1 DEF Changed, Succeeds
    <3>2. CASE Replied
      BY <3>2, RequestTyped DEF Replied, Succeeds, Asks, TurnAsks, Messages
    <3> QED BY <1>1, <3>1, <3>2
  <2>2. channel[asked["turn"].on] # "deleted" /\ asked["turn"].shows = "answer"
    BY <1>1, <2>1 DEF Changed, Replied, Succeeds, Asks, TurnAsks, Request
  <2>3. asked["turn"] \in Requests /\ channel \in Channels
    BY <2>1, TasksApart DEF ProgressTypeOK, Channels
  <2>4. channel'[delivered'] = "answer"
    BY <2>1, <2>2, <2>3, CarriedTyped DEF Requests
  <2> QED BY <2>4 DEF AnswerStands
<1>2. CASE Resent
  <2>1. /\ asked["turn"] # None /\ turn = "resending" /\ delivered' = "fallback"
        /\ channel' = Carried(asked["turn"])
    BY <1>2 DEF Resent
  <2>2. asked["turn"] = Request("fallback", "answer")
    BY <2>1 DEF Asks, TurnAsks
  <2>3. asked["turn"].on = "fallback" /\ asked["turn"].shows = "answer"
        /\ asked["turn"] \in Requests /\ "fallback" \notin Posts /\ channel \in Channels
    BY <2>2, RequestTyped DEF Messages, Posts, ProgressTypeOK, Channels
  <2>4. channel'[delivered'] = "answer"
    BY <2>1, <2>3, CarriedTyped DEF Messages
  <2> QED BY <2>4 DEF AnswerStands
<1>3. CASE UNCHANGED delivered /\ delivered # None
  <2>1. delivered \in Messages
    BY <1>3 DEF ProgressTypeOK
  <2>2. CASE delivered \in overtaken
    <3>1. overtaken' = overtaken
      BY <2>2, OneWay DEF Object
    <3> QED BY <1>3, <2>2, <3>1 DEF AnswerStands
  <2>3. CASE channel[delivered] = "answer" /\ delivered \notin overtaken
    <3>1. CASE delivered \in Posts
      <4>1. /\ delivered = held /\ stopped /\ poster = "done" /\ asked["deleter"] = None
            /\ posted = None /\ turn \in {"settling", "over"}
        BY <1>3, <3>1 DEF Carries, Object
      <4>2. ~EditGoes(delivered)
        BY <2>3, <3>1, <4>1 DEF Shown
      <4>3. \A w \in Writers : ~About(w, delivered)
        BY <2>1, <4>2, RequestTyped DEF About, EditGoes, Asks, Progress, Messages
      <4>4. \A r \in loose : r.on = delivered => r.shows = "answer"
        BY <2>1, <4>2, RequestTyped DEF EditGoes, Asks, Progress, Messages
      <4>5. ~About("poster", delivered) /\ ~About("deleter", delivered)
        BY <4>1 DEF About, Asks
      <4>6. channel'[delivered] = "answer"
        BY <2>1, <2>3, <4>3, <4>4, <4>5, ShownBy
      <4> QED BY <1>3, <4>6 DEF AnswerStands
    <3>2. CASE delivered \notin Posts
      <4>1. \A m \in Posts : m # delivered /\ m \in Messages
        BY <3>2 DEF Messages
      <4>2. \A w \in Writers : ~About(w, delivered)
        BY <4>1, RequestTyped DEF About, Asks, Progress
      <4>3. \A r \in loose : r.on = delivered => r.shows = "answer"
        BY <4>1, RequestTyped DEF Asks, Progress
      <4>4. ~About("poster", delivered) /\ ~About("deleter", delivered)
        BY <4>1, RequestTyped DEF About, Asks, Progress
      <4>5. channel'[delivered] = "answer"
        BY <2>1, <2>3, <4>2, <4>3, <4>4, ShownBy
      <4> QED BY <1>3, <4>5 DEF AnswerStands
    <3> QED BY <3>1, <3>2
  <2> QED BY <1>3, <2>2, <2>3 DEF AnswerStands
<1>4. CASE UNCHANGED delivered /\ delivered = None
  BY <1>4 DEF AnswerStands
<1>5. ASSUME NEW p, NEW more, Stop(p, more) PROVE UNCHANGED delivered
  BY <1>5 DEF Stop
<1> QED BY <1>1, <1>2, <1>3, <1>4, <1>5
        DEF ProgressNext, progressVars, history, PostBegins, PostArrives, PostFails, Started,
            Writes, Flush, Edited, Limited, EditFails, Streams, Defers, Wakes, BatchEnds,
            FollowUpEnds, Transition, Replies, Silent, ChangeFails, ResendFails, ReplyFails,
            Cleanup, Cancelled, Deleted, DeleteFails, Straggler

(* The inductive invariant of the progress message.                        *)
ProgressInv == /\ ProgressTypeOK /\ TakenOver /\ Asks /\ Object
               /\ Shown /\ Carries /\ AnswerStands

LEMMA ProgressInvAtFirst == ProgressInit => ProgressInv
<1> SUFFICES ASSUME ProgressInit PROVE ProgressInv
  OBVIOUS
<1>1. /\ \A t \in Tasks : asked[t] = None
      /\ posted = None /\ held = None /\ stopped = FALSE /\ loose = {} /\ overtaken = {}
      /\ delivered = None /\ turn \in {"starting", "working"} /\ poster = "waiting"
      /\ awaited => turn = "starting"
      /\ \A m \in Posts : channel[m] = "absent"
  BY DEF ProgressInit, Messages
<1>2. \A m \in Posts : m # None /\ Progress(m) # None
  BY ProgressAssumption, RequestTyped DEF Progress, Messages
<1>3. None \notin Posts
  BY <1>2
<1> QED BY <1>1, <1>2, <1>3, ProgressTypedAtFirst, TasksApart
        DEF ProgressInv, TakenOver, Asks, TurnAsks, Object, Shown, EditGoes, Carries, AnswerStands

(* It holds of every turn, for any ticks and any number of failing         *)
(* requests.                                                               *)
THEOREM ProgressInvariant == ProgressSpec => []ProgressInv
<1>1. ProgressInv /\ [ProgressNext]_progressVars => ProgressInv'
  BY ProgressTypedStep, TakenStep, AsksStep, ObjectStep, ShownStep, CarriesStep, StandsStep
     DEF ProgressInv
<1> QED BY <1>1, ProgressInvAtFirst, PTL DEF ProgressSpec

(* The type invariant: the first post and the object only ever name a      *)
(* message the turn can create (tool_progress.py:172-201).                 *)
THEOREM ProgressTypeCorrect == ProgressSpec => []ProgressTypeOK
BY ProgressInvariant, PTL DEF ProgressInv

(* An answer the turn counts as delivered stays, unless an edit was in     *)
(* flight when the answer's was sent: _flush() looks at the object again   *)
(* under its lock (tool_progress.py:401-404), transition_to_final() takes  *)
(* the message away from it before it awaits (590-613).                    *)
THEOREM DeliveredStands == ProgressSpec => []AnswerStands
BY ProgressInvariant, PTL DEF ProgressInv

(* When everything has settled, a message that still shows progress is one *)
(* a failed, cut or overtaken request was about: stop() and the transition *)
(* leave no other behind (tool_progress.py:550-588, 590-650).              *)
THEOREM NoPlaceholderLeft == ProgressSpec => []NoneIsLeft
<1>1. ProgressInv => NoneIsLeft
  <2> SUFFICES ASSUME ProgressInv, Settled, NEW m \in Posts, channel[m] = "progress"
               PROVE  m \in excused \cup overtaken
    BY DEF NoneIsLeft
  <2>1. Answered(m) /\ stopped /\ posted = None /\ turn = "over"
    BY DEF ProgressInv, Shown, Object, Settled
  <2>2. posted # m /\ asked["deleter"] # Request(m, "deleted") /\ channel[m] # "deleted"
    BY <2>1, ProgressAssumption, RequestTyped, TasksApart DEF Settled, Messages
  <2>3. held = m => m \in excused \cup overtaken
    BY <2>1 DEF ProgressInv, Shown
  <2> QED BY <2>1, <2>2, <2>3 DEF Answered
<1> QED BY <1>1, ProgressInvariant, PTL
=============================================================================
