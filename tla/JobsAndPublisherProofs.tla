----------------------- MODULE JobsAndPublisherProofs -----------------------
(***************************************************************************)
(* The two components that work beside the conversation, each for itself.  *)
(*                                                                         *)
(* Background jobs, for any number of jobs, users, places and restarts:    *)
(* while the manager is not closed, the jobs that count against the limits *)
(* are exactly those whose worker is at work with no cancellation on its   *)
(* way, and an end is final. The properties say it of what a caller sees;  *)
(* what makes them inductive is the status that goes with each await of a  *)
(* worker.                                                                 *)
(*                                                                         *)
(* The publisher, for any sites, edits and faults: what the worker has in  *)
(* hand of a site fixes what ownership.json, the caches and the remote     *)
(* directory can be (Tracked, WasGone, Cached), and where it has read an   *)
(* old tree something that outlives its job knows (Seen).                  *)
(***************************************************************************)
EXTENDS BackgroundJobs, Publisher, FiniteSetTheorems, TLAPS

AtWork == {"ready", "opening"} \cup Looping

(* The status, the cancellation and the table entry of a job go with the   *)
(* await its worker is at.                                                 *)
Matched(j) ==
    /\ worker[j] # "none" => j \in tracked
    /\ j \in Active <=> worker[j] \in AtWork /\ j \notin pending \cup deaf
    /\ worker[j] \in AtWork /\ j \in pending \cup deaf => status[j] = "cancelled"
    /\ worker[j] = "ready" => j \notin deaf
    /\ worker[j] = "delivering" => status[j] = "done"
    /\ worker[j] = "refused" => status[j] = "error"
    /\ worker[j] = "refused" /\ j \in pending => manager = "closing"

Fresh == \A j \in Jobs : j > made => /\ status[j] = "none" /\ worker[j] = "none"
                                    /\ j \notin deaf

Limited == /\ Cardinality(Active) <= MaxJobs
           /\ \A u \in Users : Cardinality(ActiveOf(u)) <= MaxPerUser

Inv == /\ TypeOK
       /\ Fresh
       /\ manager # "closed" => Limited /\ \A j \in Jobs : Matched(j)

(* A step of one job.                                                      *)
OnlyMoves(j) ==
    /\ made' = made /\ manager' = manager
    /\ \A k \in Jobs \ {j} :
          /\ status'[k] = status[k] /\ worker'[k] = worker[k]
          /\ k \in pending' <=> k \in pending
          /\ k \in tracked' <=> k \in tracked
          /\ k \in deaf' <=> k \in deaf
-----------------------------------------------------------------------------
LEMMA FewerActive ==
    ASSUME Limited, Active' \subseteq Active
    PROVE  Limited'
<1>1. IsFiniteSet(Active)
  BY JobsAssumption, FS_Subset DEF Active
<1>2. Cardinality(Active') <= Cardinality(Active) /\ IsFiniteSet(Active')
  BY <1>1, FS_Subset
<1>3. Cardinality(Active) \in Nat /\ Cardinality(Active') \in Nat
  BY <1>1, <1>2, FS_CardinalityType
<1>4. ASSUME NEW u \in Users
      PROVE  Cardinality(ActiveOf(u)') <= MaxPerUser
  <2>1. ActiveOf(u)' \subseteq ActiveOf(u) /\ ActiveOf(u) \subseteq Active
    BY DEF ActiveOf
  <2>2. IsFiniteSet(ActiveOf(u))
    BY <1>1, <2>1, FS_Subset
  <2>3. /\ Cardinality(ActiveOf(u)') <= Cardinality(ActiveOf(u))
        /\ IsFiniteSet(ActiveOf(u)')
    BY <2>1, <2>2, FS_Subset
  <2>4. Cardinality(ActiveOf(u)) \in Nat /\ Cardinality(ActiveOf(u)') \in Nat
    BY <2>2, <2>3, FS_CardinalityType
  <2> QED BY <2>3, <2>4, LimitsAssumption DEF Limited
<1> QED BY <1>2, <1>3, <1>4, LimitsAssumption DEF Limited

LEMMA OneMoves ==
    ASSUME Inv, TypeOK', NEW j \in Jobs, OnlyMoves(j),
           status[j] # "none" \/ worker[j] # "none",
           manager # "closed" => Matched(j)' /\ ((j \in Active)' => j \in Active)
    PROVE  Inv'
<1>1. Fresh'
  BY DEF Inv, Fresh, OnlyMoves
<1>2. ASSUME manager # "closed" PROVE Limited'
  <2>1. Active' \subseteq Active
    BY <1>2 DEF OnlyMoves, Active
  <2> QED BY <1>2, <2>1, FewerActive DEF Inv
<1>3. ASSUME manager # "closed", NEW k \in Jobs PROVE Matched(k)'
  <2>1. CASE k = j
    BY <1>3, <2>1
  <2>2. CASE k # j
    BY <1>3, <2>2 DEF Inv, OnlyMoves, Matched, Active
  <2> QED BY <2>1, <2>2
<1> QED BY <1>1, <1>2, <1>3 DEF Inv, OnlyMoves
-----------------------------------------------------------------------------
LEMMA StartsRight == Init => Inv
<1> SUFFICES ASSUME Init PROVE Inv
  OBVIOUS
<1>1. TypeOK
  BY RestartsAssumption DEF Init, TypeOK, Statuses
<1>2. Active = {}
  BY DEF Init, Active, ActiveStatuses
<1>3. Limited
  <2>1. Cardinality({}) = 0
    BY FS_EmptySet
  <2>2. \A u \in Users : ActiveOf(u) = {}
    BY <1>2 DEF ActiveOf
  <2> QED BY <1>2, <2>1, <2>2, LimitsAssumption DEF Limited
<1>4. Fresh
  BY DEF Init, Fresh
<1>5. \A j \in Jobs : Matched(j)
  BY <1>2 DEF Init, Matched, AtWork, Looping
<1> QED BY <1>1, <1>3, <1>4, <1>5 DEF Inv

LEMMA CreateKeeps ==
    ASSUME Inv, NEW j \in Jobs, Create(j)
    PROVE  Inv'
<1>1. /\ j = made + 1 /\ made' = j
      /\ status' = [status EXCEPT ![j] = "queued"]
      /\ worker' = [worker EXCEPT ![j] = "ready"]
      /\ tracked' = tracked \cup {j} /\ pending' = pending
      /\ UNCHANGED <<rounds, closing, delivered>>
  BY DEF Create, Mark, At
<1>2. made \in Nat /\ j > made
  BY <1>1, JobsAssumption DEF Inv, TypeOK
<1>3. worker[j] = "none" /\ status[j] = "none" /\ j \notin pending \cup deaf
  BY <1>2 DEF Inv, Fresh, TypeOK, Alive, Awaits, InTry, Looping
<1>4. pending' \subseteq Alive'
  BY <1>1, <1>3 DEF Inv, TypeOK, Alive
<1>5. TypeOK'
  BY <1>1, <1>4
     DEF Inv, TypeOK, rounds, closing, Statuses, ActiveStatuses, Awaits
<1>6. Fresh'
  BY <1>1, <1>2, JobsAssumption DEF Inv, Fresh, TypeOK, rounds
<1>7. j \notin Active /\ Active' = Active \cup {j}
  BY <1>1, <1>3 DEF Inv, TypeOK, Active, ActiveStatuses
<1>8. ASSUME manager # "closed" PROVE Limited'
  <2>1. IsFiniteSet(Active)
    BY JobsAssumption, FS_Subset DEF Active
  <2>2. Cardinality(Active') = Cardinality(Active) + 1
    BY <1>7, <2>1, FS_AddElement
  <2>3. Cardinality(Active) \in Nat
    BY <2>1, FS_CardinalityType
  <2>4. Cardinality(Active') <= MaxJobs
    BY <2>2, <2>3, LimitsAssumption DEF Create, HasRoom
  <2>5. ASSUME NEW u \in Users
        PROVE  Cardinality(ActiveOf(u)') <= MaxPerUser
    <3>1. CASE u # OwnerOf[j]
      <4>1. ActiveOf(u)' = ActiveOf(u)
        BY <1>7, <3>1 DEF ActiveOf
      <4> QED BY <1>8, <4>1 DEF Inv, Limited
    <3>2. CASE u = OwnerOf[j]
      <4>1. ActiveOf(u)' = ActiveOf(u) \cup {j} /\ j \notin ActiveOf(u)
        BY <1>7, <3>2 DEF ActiveOf
      <4>2. IsFiniteSet(ActiveOf(u))
        BY <2>1, FS_Subset DEF ActiveOf
      <4>3. Cardinality(ActiveOf(u)') = Cardinality(ActiveOf(u)) + 1
        BY <4>1, <4>2, FS_AddElement
      <4>4. Cardinality(ActiveOf(u)) \in Nat
        BY <4>2, FS_CardinalityType
      <4> QED BY <3>2, <4>3, <4>4, LimitsAssumption DEF Create, HasRoom
    <3> QED BY <3>1, <3>2
  <2> QED BY <2>4, <2>5 DEF Limited
<1>9. ASSUME manager # "closed", NEW k \in Jobs PROVE Matched(k)'
  <2>1. CASE k = j
    BY <1>1, <1>3, <1>7, <2>1
       DEF Inv, TypeOK, Matched, AtWork, Looping, rounds
  <2>2. CASE k # j
    <3>1. Matched(k)
      BY <1>9 DEF Inv
    <3> QED BY <1>1, <1>7, <2>2, <3>1 DEF Inv, TypeOK, Matched, closing, rounds
  <2> QED BY <2>1, <2>2
<1> QED BY <1>1, <1>5, <1>6, <1>8, <1>9 DEF Inv, closing
-----------------------------------------------------------------------------
(* The steps that start, finish or fail a job.                             *)
LEMMA WorkKeeps ==
    ASSUME Inv, NEW j \in Jobs, NEW from \in Awaits, NEW to \in Awaits,
           from \in AtWork, WorkerStep(j, from, to),
           \E s \in Statuses : status' = [status EXCEPT ![j] = s],
           answered' \subseteq Jobs, trouble' \subseteq Jobs, deaf' = deaf,
           delivered' \subseteq Jobs,
           (j \in Active)' <=> to \in AtWork,
           from = "ready" \/ to \notin AtWork, to # "ready",
           to = "delivering" => status'[j] = "done",
           to = "refused" => status'[j] = "error"
    PROVE  Inv'
<1>1. /\ worker[j] = from /\ j \notin pending
      /\ worker' = [worker EXCEPT ![j] = to]
      /\ UNCHANGED <<made, pending, tracked, closing>>
  BY DEF WorkerStep, Runnable, At
<1>2. PICK s \in Statuses : status' = [status EXCEPT ![j] = s]
  OBVIOUS
<1>3. OnlyMoves(j)
  BY <1>1, <1>2 DEF OnlyMoves, Inv, TypeOK, closing
<1>4. from # "none"
  BY DEF Awaits, InTry, Looping
<1>5. TypeOK'
  <2>1. pending' \subseteq Alive'
    BY <1>1 DEF Inv, TypeOK, Alive
  <2> QED BY <1>1, <1>2, <2>1 DEF Inv, TypeOK, closing
<1>6. ASSUME manager # "closed"
      PROVE  Matched(j)' /\ ((j \in Active)' => j \in Active)
  <2>1. Matched(j)
    BY <1>6 DEF Inv
  <2>2. worker'[j] = to /\ j \notin pending' /\ j \in tracked'
    BY <1>1, <1>4, <2>1 DEF Inv, TypeOK, Matched
  <2>3. to \in AtWork => j \in Active /\ j \notin deaf'
    BY <1>1, <2>1 DEF Matched
  <2>4. Matched(j)'
    BY <2>2, <2>3 DEF Matched
  <2> QED BY <2>3, <2>4
<1> QED BY <1>1, <1>3, <1>4, <1>5, <1>6, OneMoves

LEMMA CancelArrivesKeeps ==
    ASSUME Inv, NEW j \in Jobs, CancelArrives(j)
    PROVE  Inv'
<1>1. /\ j \in pending /\ j \in Alive /\ pending' = pending \ {j}
      /\ UNCHANGED <<made, tracked, closing, delivered>>
  BY DEF CancelArrives
<1>2. worker[j] \in Awaits /\ worker[j] # "none"
  BY <1>1 DEF Alive, Awaits, InTry, Looping
<1>3. CASE worker[j] \in InTry
  <2>1. /\ status' = [status EXCEPT ![j] = "cancelled"]
        /\ worker' = [worker EXCEPT ![j] = "notice"]
        /\ answered' = answered \ {j} /\ trouble' = trouble \ {j} /\ deaf' = deaf
    BY <1>3 DEF CancelArrives, At, Mark, LeavesLoop
  <2>2. OnlyMoves(j)
    BY <1>1, <2>1 DEF OnlyMoves, Inv, TypeOK, closing, rounds
  <2>3. pending' \subseteq Alive'
    BY <1>1, <2>1 DEF Inv, TypeOK, Alive
  <2>4. TypeOK'
    BY <1>1, <2>1, <2>3 DEF Inv, TypeOK, closing, Statuses, FinalStatuses, Awaits
  <2>5. worker'[j] = "notice" /\ status'[j] = "cancelled"
    BY <2>1 DEF Inv, TypeOK
  <2>6. (j \in Active)' = FALSE
    BY <2>5 DEF Active, ActiveStatuses
  <2>7. ASSUME manager # "closed" PROVE Matched(j)'
    <3>1. j \in tracked'
      BY <1>1, <1>2, <2>7 DEF Inv, Matched
    <3> QED BY <2>5, <2>6, <3>1 DEF Matched, AtWork, Looping
  <2> QED BY <1>2, <2>2, <2>4, <2>6, <2>7, OneMoves
<1>4. CASE worker[j] \notin InTry
  <2>1. /\ worker' = [worker EXCEPT ![j] = "ended"]
        /\ UNCHANGED <<status, rounds>>
    BY <1>4 DEF CancelArrives, At
  <2>2. OnlyMoves(j)
    BY <1>1, <2>1 DEF OnlyMoves, Inv, TypeOK, closing, rounds
  <2>3. pending' \subseteq Alive'
    BY <1>1, <2>1 DEF Inv, TypeOK, Alive
  <2>4. TypeOK'
    BY <1>1, <2>1, <2>3 DEF Inv, TypeOK, closing, rounds
  <2>5. worker'[j] = "ended" /\ (j \in Active)' = (j \in Active)
    BY <2>1 DEF Inv, TypeOK, Active
  <2>6. ASSUME manager # "closed"
        PROVE  Matched(j)' /\ ((j \in Active)' => j \in Active)
    <3>1. Matched(j)
      BY <2>6 DEF Inv
    <3>2. j \in tracked' /\ (j \in Active)' = FALSE
      BY <1>1, <1>2, <2>5, <3>1 DEF Matched
    <3> QED BY <2>5, <3>2 DEF Matched, AtWork, Looping
  <2> QED BY <1>2, <2>2, <2>4, <2>6, OneMoves
<1> QED BY <1>3, <1>4

LEMMA CancelTakenKeeps ==
    ASSUME Inv, NEW j \in Jobs, CancelTaken(j)
    PROVE  Inv'
<1>1. /\ j \in pending /\ worker[j] = "tools"
      /\ pending' = pending \ {j} /\ deaf' = deaf \cup {j}
      /\ UNCHANGED <<made, status, worker, tracked, answered, trouble, closing,
                     delivered>>
  BY DEF CancelTaken
<1>2. OnlyMoves(j)
  BY <1>1 DEF OnlyMoves, closing
<1>3. pending' \subseteq Alive'
  BY <1>1 DEF Inv, TypeOK, Alive
<1>4. TypeOK'
  BY <1>1, <1>3 DEF Inv, TypeOK, closing
<1>5. ASSUME manager # "closed" PROVE Matched(j)'
  <2>1. j \notin Active /\ status[j] = "cancelled" /\ j \in tracked
    BY <1>1, <1>5 DEF Inv, Matched, AtWork, Looping
  <2>2. j \notin Active' /\ status'[j] = "cancelled" /\ j \in tracked'
    BY <1>1, <2>1 DEF Active
  <2> QED BY <1>1, <2>2 DEF Matched
<1> QED BY <1>1, <1>2, <1>4, <1>5, OneMoves DEF Active

LEMMA ForgottenKeeps ==
    ASSUME Inv, NEW j \in Jobs, Forgotten(j)
    PROVE  Inv'
<1>1. /\ worker[j] = "ended" /\ worker' = [worker EXCEPT ![j] = "none"]
      /\ tracked' = tracked \ {j}
      /\ UNCHANGED <<made, status, pending, rounds, closing, delivered>>
  BY DEF Forgotten, At
<1>2. OnlyMoves(j)
  BY <1>1 DEF OnlyMoves, Inv, TypeOK, closing, rounds
<1>3. TypeOK'
  <2>1. pending' \subseteq Alive'
    BY <1>1 DEF Inv, TypeOK, Alive, Awaits, InTry, Looping
  <2> QED BY <1>1, <2>1 DEF Inv, TypeOK, closing, rounds
<1>4. worker'[j] = "none" /\ (j \in Active)' = (j \in Active)
  BY <1>1 DEF Inv, TypeOK, Active
<1>5. ASSUME manager # "closed" PROVE Matched(j)'
  <2>1. j \notin Active
    BY <1>1, <1>5 DEF Inv, Matched, AtWork, Looping
  <2> QED BY <1>4, <2>1 DEF Matched, AtWork, Looping
<1> QED BY <1>1, <1>2, <1>3, <1>4, <1>5, OneMoves
-----------------------------------------------------------------------------
LEMMA StartsKeeps ==
    ASSUME Inv, NEW j \in Jobs, Starts(j)
    PROVE  Inv'
<1>1. /\ WorkerStep(j, "ready", "opening")
      /\ status' = [status EXCEPT ![j] = "running"] /\ "running" \in Statuses
      /\ UNCHANGED <<answered, trouble, deaf, delivered>>
  BY DEF Starts, Mark, rounds, Statuses, ActiveStatuses
<1>2. (j \in Active)'
  BY <1>1 DEF Inv, TypeOK, Active, ActiveStatuses
<1>3. {"ready", "opening"} \subseteq Awaits \cap AtWork
  BY DEF Awaits, AtWork
<1> QED BY <1>1, <1>2, <1>3, WorkKeeps DEF Inv, TypeOK

LEMMA FailsKeeps ==
    ASSUME Inv, NEW j \in Jobs, NEW from \in Looping \cup {"delivering"}, Fails(j, from)
    PROVE  Inv'
<1>1. /\ WorkerStep(j, from, "reporting")
      /\ status' = [status EXCEPT ![j] = "error"] /\ "error" \in Statuses
      /\ answered' = answered \ {j} /\ trouble' = trouble \ {j}
      /\ deaf' = deaf /\ delivered' = delivered
  BY DEF Fails, Mark, LeavesLoop, Statuses, FinalStatuses
<1>2. (j \in Active)' = FALSE
  BY <1>1 DEF Inv, TypeOK, Active, ActiveStatuses
<1>3. from \in Awaits /\ "reporting" \in Awaits /\ "reporting" \notin AtWork
  BY DEF Awaits, AtWork, InTry, Looping
<1>4. CASE from \in AtWork
  BY <1>1, <1>2, <1>3, <1>4, WorkKeeps DEF Inv, TypeOK
<1>5. CASE from = "delivering"
  <2>1. /\ OnlyMoves(j) /\ worker[j] = "delivering" /\ j \notin pending
        /\ worker' = [worker EXCEPT ![j] = "reporting"]
        /\ UNCHANGED <<made, pending, tracked, closing>>
    BY <1>1, <1>5 DEF OnlyMoves, WorkerStep, At, Runnable, closing, Inv, TypeOK
  <2>2. pending' \subseteq Alive'
    BY <2>1 DEF Inv, TypeOK, Alive
  <2>3. TypeOK'
    BY <1>1, <1>3, <2>1, <2>2 DEF Inv, TypeOK, closing
  <2>4. worker'[j] = "reporting"
    BY <2>1 DEF Inv, TypeOK
  <2>5. ASSUME manager # "closed" PROVE Matched(j)'
    <3>1. j \in tracked'
      BY <2>1, <2>5 DEF Inv, Matched
    <3> QED BY <1>2, <1>3, <2>4, <3>1 DEF Matched
  <2> QED BY <1>2, <2>1, <2>3, <2>5, OneMoves
<1> QED BY <1>4, <1>5 DEF AtWork

LEMMA FinishesKeeps ==
    ASSUME Inv, NEW j \in Jobs, NEW from \in Looping, Finishes(j, from)
    PROVE  Inv'
<1>1. /\ WorkerStep(j, from, "delivering")
      /\ status' = [status EXCEPT ![j] = "done"] /\ "done" \in Statuses
      /\ answered' = answered \ {j} /\ trouble' = trouble \ {j}
      /\ deaf' = deaf /\ delivered' = delivered
  BY DEF Finishes, Mark, LeavesLoop, Statuses, FinalStatuses
<1>2. status'[j] = "done" /\ (j \in Active)' = FALSE
  BY <1>1 DEF Inv, TypeOK, Active, ActiveStatuses
<1>3. from \in Awaits /\ from \in AtWork
      /\ "delivering" \in Awaits /\ "delivering" \notin AtWork
  BY DEF Awaits, AtWork, InTry, Looping
<1> QED BY <1>1, <1>2, <1>3, WorkKeeps DEF Inv, TypeOK

LEMMA RefusedKeeps ==
    ASSUME Inv, NEW j \in Jobs, SlotRefused(j)
    PROVE  Inv'
<1>1. /\ WorkerStep(j, "model", "refused")
      /\ status' = [status EXCEPT ![j] = "error"] /\ "error" \in Statuses
      /\ answered' = answered \ {j} /\ trouble' = trouble \ {j}
      /\ deaf' = deaf /\ delivered' = delivered
  BY DEF SlotRefused, Mark, LeavesLoop, Statuses, FinalStatuses
<1>2. status'[j] = "error" /\ (j \in Active)' = FALSE
  BY <1>1 DEF Inv, TypeOK, Active, ActiveStatuses
<1>3. "model" \in Awaits /\ "model" \in AtWork
      /\ "refused" \in Awaits /\ "refused" \notin AtWork
  BY DEF Awaits, AtWork, InTry, Looping
<1> QED BY <1>1, <1>2, <1>3, WorkKeeps DEF Inv, TypeOK

(* The steps that leave every status as it is.                             *)
LEMMA QuietWorkKeeps ==
    ASSUME Inv, NEW j \in Jobs, NEW from \in Awaits, NEW to \in Awaits \cup {"ended"},
           WorkerStep(j, from, to), status' = status,
           answered' \subseteq Jobs, trouble' \subseteq Jobs, deaf' = deaf,
           delivered' \subseteq Jobs, to # "ready",
           \/ from \in AtWork /\ to \in AtWork
           \/ from \notin AtWork /\ to \notin AtWork \cup {"delivering", "refused"}
    PROVE  Inv'
<1>1. /\ worker[j] = from /\ from # "none" /\ j \notin pending
      /\ worker' = [worker EXCEPT ![j] = to]
      /\ UNCHANGED <<made, pending, tracked, closing>>
  BY DEF WorkerStep, Runnable, At, Awaits, InTry, Looping
<1>2. OnlyMoves(j)
  BY <1>1 DEF OnlyMoves, Inv, TypeOK, closing
<1>3. pending' \subseteq Alive'
  BY <1>1 DEF Inv, TypeOK, Alive
<1>4. TypeOK'
  BY <1>1, <1>3 DEF Inv, TypeOK, closing
<1>5. worker'[j] = to /\ (j \in Active)' = (j \in Active)
  BY <1>1 DEF Inv, TypeOK, Active
<1>6. to \in AtWork => to # "delivering" /\ to # "refused"
  BY DEF AtWork, Looping
<1>7. ASSUME manager # "closed" PROVE Matched(j)'
  <2>1. Matched(j)
    BY <1>7 DEF Inv
  <2> QED BY <1>1, <1>5, <1>6, <2>1 DEF Matched
<1> QED BY <1>1, <1>2, <1>4, <1>5, <1>7, OneMoves

LEMMA WorkerKeeps ==
    ASSUME Inv, NEW j \in Jobs, Work(j)
    PROVE  Inv'
<1> USE DEF Awaits, InTry, Looping
<1>1. CASE Starts(j)
  BY <1>1, StartsKeeps
<1>2. CASE Opened(j)
  BY <1>2, QuietWorkKeeps DEF Opened, rounds, Inv, TypeOK, AtWork
<1>3. CASE Generated(j)
  BY <1>3, QuietWorkKeeps DEF Generated, Inv, TypeOK, AtWork
<1>4. CASE RoundEnds(j)
  <2>1. trouble' \subseteq Jobs
    BY <1>4 DEF RoundEnds, Inv, TypeOK
  <2> QED BY <1>4, <2>1, QuietWorkKeeps DEF RoundEnds, Inv, TypeOK, AtWork
<1>5. CASE AnswersFinally(j)
  BY <1>5, FinishesKeeps DEF AnswersFinally
<1>6. CASE OutOfSteps(j)
  BY <1>6, FinishesKeeps, FailsKeeps DEF OutOfSteps
<1>7. CASE SlotRefused(j)
  BY <1>7, RefusedKeeps
<1>8. CASE LoopFails(j)
  BY <1>8, FailsKeeps DEF LoopFails
<1>9. CASE Delivers(j)
  <2>1. delivered' \subseteq Jobs
    BY <1>9 DEF Delivers, Inv, TypeOK
  <2> QED BY <1>9, <2>1, QuietWorkKeeps DEF Delivers, rounds, Inv, TypeOK, AtWork
<1>10. CASE DeliveryFails(j)
  BY <1>10, FailsKeeps DEF DeliveryFails
<1>11. CASE Returns(j)
  <2>1. PICK from \in {"refused", "reporting", "notice"} : WorkerStep(j, from, "ended")
    BY <1>11 DEF Returns
  <2>2. from \notin AtWork /\ "ended" \notin AtWork
    BY DEF AtWork
  <2> QED BY <1>11, <2>1, <2>2, QuietWorkKeeps DEF Returns, rounds, Inv, TypeOK
<1>12. CASE CancelArrives(j)
  BY <1>12, CancelArrivesKeeps
<1>13. CASE CancelTaken(j)
  BY <1>13, CancelTakenKeeps
<1>14. CASE Forgotten(j)
  BY <1>14, ForgottenKeeps
<1> QED BY <1>1, <1>2, <1>3, <1>4, <1>5, <1>6, <1>7, <1>8, <1>9, <1>10, <1>11,
           <1>12, <1>13, <1>14 DEF Work
-----------------------------------------------------------------------------
LEMMA CancelKeeps ==
    ASSUME Inv, NEW j \in Jobs, Cancel(j)
    PROVE  Inv'
<1>1. /\ j \in Active /\ status' = [status EXCEPT ![j] = "cancelled"]
      /\ pending' = pending \cup ({j} \cap tracked \cap Alive)
      /\ UNCHANGED <<made, worker, tracked, rounds, closing, delivered>>
  BY DEF Cancel, Mark
<1>2. status[j] # "none"
  BY <1>1 DEF Active, ActiveStatuses
<1>3. OnlyMoves(j)
  BY <1>1 DEF OnlyMoves, Inv, TypeOK, closing, rounds
<1>4. pending' \subseteq Alive'
  BY <1>1 DEF Inv, TypeOK, Alive
<1>5. TypeOK'
  BY <1>1, <1>4 DEF Inv, TypeOK, closing, rounds, Statuses, FinalStatuses
<1>6. status'[j] = "cancelled" /\ (j \in Active)' = FALSE
  BY <1>1 DEF Inv, TypeOK, Active, ActiveStatuses
<1>7. ASSUME manager # "closed" PROVE Matched(j)'
  <2>1. /\ j \in tracked /\ worker[j] \in AtWork /\ worker' = worker
        /\ tracked' = tracked /\ j \notin deaf /\ deaf' = deaf
    BY <1>1, <1>7 DEF Inv, Matched, AtWork, Looping, rounds
  <2>2. j \in Alive
    BY <2>1 DEF Alive, AtWork, Awaits, InTry
  <2>3. j \in pending'
    BY <1>1, <2>1, <2>2
  <2>4. worker'[j] # "delivering" /\ worker'[j] # "refused"
    BY <2>1 DEF AtWork, Looping
  <2> QED BY <1>6, <2>1, <2>3, <2>4 DEF Matched
<1> QED BY <1>2, <1>3, <1>5, <1>6, <1>7, OneMoves

LEMMA CloseBeginsKeeps ==
    ASSUME Inv, CloseBegins
    PROVE  Inv'
<1>1. /\ manager = "open" /\ manager' = "closing" /\ draining' = tracked
      /\ pending' = pending \cup (tracked \cap Alive)
      /\ status' = [j \in Jobs |-> IF j \in Active THEN "cancelled" ELSE status[j]]
      /\ UNCHANGED <<made, worker, tracked, rounds, restarts, delivered>>
  BY DEF CloseBegins
<1>2. pending' \subseteq Alive'
  BY <1>1 DEF Inv, TypeOK, Alive
<1>3. status' \in [Jobs -> Statuses]
  BY <1>1 DEF Inv, TypeOK, Statuses, FinalStatuses
<1>4. TypeOK'
  BY <1>1, <1>2, <1>3 DEF Inv, TypeOK, rounds
<1>5. Active' = {}
  BY <1>1 DEF Active, ActiveStatuses
<1>6. Fresh'
  BY <1>1 DEF Inv, Fresh, Active, ActiveStatuses, rounds
<1>7. Limited'
  BY <1>1, <1>5, FewerActive DEF Inv
<1>8. ASSUME NEW j \in Jobs PROVE Matched(j)'
  <2>1. Matched(j) /\ worker'[j] = worker[j] /\ tracked' = tracked
        /\ j \notin Active' /\ manager' = "closing" /\ deaf' = deaf
    BY <1>1, <1>5 DEF Inv, rounds
  <2>2. CASE worker[j] \in AtWork
    <3>1. j \in Alive /\ j \in tracked
      BY <2>1, <2>2 DEF Alive, AtWork, Awaits, InTry, Looping, Matched
    <3>2. j \in pending'
      BY <1>1, <3>1
    <3>3. status'[j] = "cancelled"
      BY <1>1, <2>1, <2>2 DEF Matched
    <3>4. worker[j] # "delivering" /\ worker[j] # "refused"
      BY <2>2 DEF AtWork, Looping
    <3> QED BY <2>1, <3>2, <3>3, <3>4 DEF Matched
  <2>3. CASE worker[j] \notin AtWork
    <3>1. status'[j] = status[j]
      BY <1>1, <2>1, <2>3 DEF Matched
    <3> QED BY <2>1, <2>3, <3>1 DEF Matched
  <2> QED BY <2>2, <2>3
<1> QED BY <1>4, <1>6, <1>7, <1>8 DEF Inv

LEMMA RestartKeeps ==
    ASSUME Inv, Restart
    PROVE  Inv'
<1>1. /\ restarts < MaxRestarts /\ restarts' = restarts + 1
      /\ worker' = [j \in Jobs |-> "none"]
      /\ pending' = {} /\ tracked' = {} /\ answered' = {} /\ trouble' = {}
      /\ deaf' = {} /\ manager' = "open" /\ draining' = {}
      /\ UNCHANGED <<made, delivered>>
  BY DEF Restart
<1>2. ASSUME NEW j \in Jobs
      PROVE  /\ status'[j] \in Statuses \ ActiveStatuses
             /\ status[j] = "none" => status'[j] = "none"
  <2>1. status'[j] = Loaded(j)
    BY DEF Restart
  <2>2. status[j] \in Statuses
    BY DEF Inv, TypeOK
  <2> QED BY <2>1, <2>2 DEF Loaded, Active, Statuses, ActiveStatuses, FinalStatuses
<1>3. TypeOK'
  <2>1. status' \in [Jobs -> Statuses]
    <3>1. status' = [j \in Jobs |-> status'[j]]
      BY DEF Restart
    <3> QED BY <1>2, <3>1
  <2>2. restarts' \in 0..MaxRestarts
    BY <1>1, RestartsAssumption DEF Inv, TypeOK
  <2> QED BY <1>1, <2>1, <2>2 DEF Inv, TypeOK
<1>4. Active' = {}
  BY <1>2 DEF Active
<1>5. Fresh'
  BY <1>1, <1>2 DEF Inv, Fresh
<1>6. Limited'
  <2>1. Cardinality({}) = 0
    BY FS_EmptySet
  <2>2. \A u \in Users : ActiveOf(u)' = {}
    BY <1>4 DEF ActiveOf
  <2> QED BY <1>4, <2>1, <2>2, LimitsAssumption DEF Limited
<1>7. ASSUME NEW j \in Jobs PROVE Matched(j)'
  BY <1>1, <1>4 DEF Matched, AtWork, Looping
<1> QED BY <1>3, <1>5, <1>6, <1>7 DEF Inv

LEMMA StepKeeps == Inv /\ [Next]_vars => Inv'
<1> SUFFICES ASSUME Inv, [Next]_vars PROVE Inv'
  OBVIOUS
<1>1. ASSUME NEW j \in Jobs, Create(j) PROVE Inv'
  BY <1>1, CreateKeeps
<1>2. ASSUME NEW j \in Jobs, Work(j) PROVE Inv'
  BY <1>2, WorkerKeeps
<1>3. ASSUME NEW j \in Jobs, Cancel(j) PROVE Inv'
  BY <1>3, CancelKeeps
<1>4. CASE CloseBegins
  BY <1>4, CloseBeginsKeeps
<1>5. CASE CloseEnds
  BY <1>5 DEF CloseEnds, Inv, TypeOK, Fresh, Alive, rounds
<1>6. CASE Restart
  BY <1>6, RestartKeeps
<1>7. CASE UNCHANGED vars
  BY <1>7 DEF vars, rounds, closing, Inv, TypeOK, Fresh, Limited, Matched,
              Active, ActiveOf, Alive
<1> QED BY <1>1, <1>2, <1>3, <1>4, <1>5, <1>6, <1>7 DEF Next

LEMMA Invariant == Spec => []Inv
<1> QED BY StartsRight, StepKeeps, PTL DEF Spec
-----------------------------------------------------------------------------
(* Every variable keeps its type: a cancellation, in particular, is only   *)
(* on its way to a worker that is still alive (cancel, close).             *)
THEOREM TypeCorrect == Spec => []TypeOK
<1>1. Inv => TypeOK
  BY DEF Inv
<1> QED BY <1>1, Invariant, PTL

(* A job that counts against the limits has a tracked worker at work.      *)
THEOREM ActiveHasWorker == Spec => []ActiveIsWorked
<1>1. Inv => ActiveIsWorked
  <2> SUFFICES ASSUME Inv, manager # "closed", NEW j \in Active
               PROVE  Working(j) /\ j \in tracked
    BY DEF ActiveIsWorked
  <2>1. j \in Jobs /\ Matched(j)
    BY DEF Inv, Active
  <2>2. worker[j] \in AtWork /\ j \notin pending /\ worker[j] # "none"
    BY <2>1 DEF Matched, AtWork, Looping
  <2>3. worker[j] \in Awaits
    BY <2>2 DEF AtWork, Awaits, InTry
  <2> QED BY <2>1, <2>2, <2>3 DEF Matched, Working, Runnable, Alive, AtWork
<1> QED BY <1>1, Invariant, PTL

(* No more workers are at work than the limits allow: the workers at work  *)
(* are those of the active jobs.                                           *)
THEOREM WorkersLimited == Spec => []LimitsHold
<1>1. Inv => LimitsHold
  <2> SUFFICES ASSUME Inv, manager # "closed" PROVE LimitsHold
    BY DEF LimitsHold
  <2>1. { j \in Jobs : Working(j) } \ deaf = Active
    BY DEF Inv, Matched, Working, Runnable, Alive, AtWork, Awaits, InTry, Active
  <2>2. ASSUME NEW u \in Users
        PROVE  { j \in Active : OwnerOf[j] = u } = ActiveOf(u)
    BY DEF ActiveOf
  <2> QED BY <2>1, <2>2 DEF Inv, Limited, LimitsHold
<1> QED BY <1>1, Invariant, PTL
-----------------------------------------------------------------------------
(* Only a worker whose job is active, done or refused changes its status.  *)
LEMMA WorkKeepsEnds ==
    ASSUME Inv, manager # "closed", NEW j \in Jobs, Work(j)
    PROVE  \A k \in Jobs \ deaf : EndKept(k)
<1>1. Matched(j) /\ status \in [Jobs -> Statuses]
  BY DEF Inv, TypeOK
<1>2. ASSUME NEW s, Mark(j, s), j \in Active \cup deaf PROVE \A k \in Jobs \ deaf : EndKept(k)
  BY <1>1, <1>2 DEF Mark, EndKept, Active, ActiveStatuses
<1>3. ASSUME status' = status PROVE \A k \in Jobs \ deaf : EndKept(k)
  BY <1>3 DEF EndKept
<1>4. ASSUME NEW from, NEW to, WorkerStep(j, from, to), from \in AtWork
      PROVE  j \in Active \cup deaf
  BY <1>1, <1>4 DEF WorkerStep, Runnable, Matched
<1>5. ASSUME NEW from \in Looping, Fails(j, from) \/ Finishes(j, from)
      PROVE  \A k \in Jobs \ deaf : EndKept(k)
  BY <1>2, <1>4, <1>5 DEF Fails, Finishes, AtWork
<1>6. CASE Starts(j)
  BY <1>2, <1>4, <1>6 DEF Starts, AtWork
<1>7. CASE SlotRefused(j)
  BY <1>2, <1>4, <1>7 DEF SlotRefused, AtWork, Looping
<1>8. CASE DeliveryFails(j)
  <2>1. worker[j] = "delivering" /\ status' = [status EXCEPT ![j] = "error"]
    BY <1>8 DEF DeliveryFails, Fails, WorkerStep, Mark
  <2> QED BY <1>1, <2>1 DEF Matched, EndKept
<1>9. CASE CancelArrives(j)
  <2>1. CASE worker[j] \in InTry
    <3>1. status' = [status EXCEPT ![j] = "cancelled"] /\ j \in pending
      BY <1>9, <2>1 DEF CancelArrives, Mark
    <3>2. CASE worker[j] = "refused"
      BY <1>1, <3>1, <3>2 DEF Matched, EndKept
    <3>3. CASE worker[j] # "refused"
      <4>1. status[j] = "cancelled"
        BY <1>1, <2>1, <3>1, <3>3 DEF InTry, AtWork, Matched
      <4> QED BY <1>1, <3>1, <4>1 DEF EndKept
    <3> QED BY <3>2, <3>3
  <2>2. CASE worker[j] \notin InTry
    BY <1>3, <1>9, <2>2 DEF CancelArrives
  <2> QED BY <2>1, <2>2
<1>10. CASE OutOfSteps(j) \/ LoopFails(j) \/ AnswersFinally(j)
  BY <1>5, <1>10 DEF OutOfSteps, LoopFails, AnswersFinally, Looping
<1>11. CASE \/ Opened(j) \/ Generated(j) \/ RoundEnds(j) \/ Delivers(j)
            \/ Returns(j) \/ CancelTaken(j) \/ Forgotten(j)
  BY <1>3, <1>11 DEF Opened, Generated, RoundEnds, Delivers, Returns, CancelTaken, Forgotten
<1> QED BY <1>6, <1>7, <1>8, <1>9, <1>10, <1>11 DEF Work

(* A cancelled job stays cancelled, a failed one failed and a finished one *)
(* is at worst recorded as undeliverable, whatever its worker still does.  *)
THEOREM EndsAreFinal == Spec => EndIsFinal
<1>1. ASSUME Inv, [Next]_vars, manager # "closed", restarts' = restarts,
             NEW k \in Jobs \ deaf
      PROVE  EndKept(k)
  <2>1. ASSUME NEW j \in Jobs, Create(j) PROVE EndKept(k)
    <3>0. j = made + 1 /\ status' = [status EXCEPT ![j] = "queued"]
      BY <2>1 DEF Create, Mark
    <3>1. j > made
      BY <1>1, <3>0, JobsAssumption DEF Inv, TypeOK
    <3>2. status[j] = "none"
      BY <1>1, <3>1 DEF Inv, Fresh
    <3> QED BY <1>1, <3>0, <3>2 DEF EndKept, Inv, TypeOK
  <2>2. ASSUME NEW j \in Jobs, Work(j) PROVE EndKept(k)
    BY <1>1, <2>2, WorkKeepsEnds
  <2>3. ASSUME NEW j \in Jobs, Cancel(j) PROVE EndKept(k)
    BY <1>1, <2>3 DEF Cancel, Mark, EndKept, Inv, TypeOK, Active, ActiveStatuses
  <2>4. CASE CloseBegins
    BY <1>1, <2>4 DEF CloseBegins, EndKept, Active, ActiveStatuses
  <2>5. CASE CloseEnds \/ UNCHANGED vars
    BY <1>1, <2>5 DEF CloseEnds, vars, EndKept
  <2>6. CASE Restart
    BY <1>1, <2>6 DEF Restart, Inv, TypeOK
  <2> QED BY <1>1, <2>1, <2>2, <2>3, <2>4, <2>5, <2>6 DEF Next
<1>2. Inv /\ [Next]_vars =>
        [ manager # "closed" /\ restarts' = restarts =>
          \A j \in Jobs \ deaf : EndKept(j) ]_vars
  BY <1>1
<1> QED BY <1>2, Invariant, PTL DEF Spec, EndIsFinal
-----------------------------------------------------------------------------
(* While the manager has been open since the start, a job that is done is  *)
(* still being delivered, or was; a cancellation is on its way only to a   *)
(* worker at work, never to one that delivers.                             *)
Told(j) == /\ status[j] = "done" => worker[j] = "delivering" \/ j \in delivered
           /\ j \in pending => worker[j] \in AtWork
NoneUntold == manager = "open" /\ restarts = 0 => \A j \in Jobs : Told(j)

LEMMA WorkTells ==
    ASSUME Inv, NEW j \in Jobs, Work(j), Told(j)
    PROVE  Told(j)'
<1> USE DEF Told
<1>1. status \in [Jobs -> Statuses] /\ worker \in [Jobs -> Awaits \cup {"none", "ended"}]
  BY DEF Inv, TypeOK
<1>2. ASSUME NEW from, NEW to, WorkerStep(j, from, to)
      PROVE  worker[j] = from /\ worker'[j] = to /\ j \notin pending /\ j \notin pending'
  BY <1>1, <1>2 DEF WorkerStep, Runnable, At
<1>3. ASSUME NEW s, Mark(j, s) PROVE status'[j] = s
  BY <1>1, <1>3 DEF Mark
<1>4. ASSUME NEW from, Fails(j, from) PROVE Told(j)'
  BY <1>2, <1>3, <1>4 DEF Fails
<1>5. ASSUME NEW from, Finishes(j, from) PROVE Told(j)'
  BY <1>2, <1>3, <1>5 DEF Finishes
<1>6. CASE Starts(j) \/ SlotRefused(j)
  BY <1>2, <1>3, <1>6 DEF Starts, SlotRefused
<1>7. CASE \/ Opened(j) \/ Generated(j) \/ RoundEnds(j) \/ Returns(j)
  BY <1>2, <1>7 DEF Opened, Generated, RoundEnds, Returns
<1>8. CASE AnswersFinally(j) \/ OutOfSteps(j) \/ LoopFails(j) \/ DeliveryFails(j)
  BY <1>4, <1>5, <1>8 DEF AnswersFinally, OutOfSteps, LoopFails, DeliveryFails
<1>9. CASE Delivers(j)
  BY <1>2, <1>9 DEF Delivers
<1>10. CASE CancelArrives(j)
  <2>1. j \notin pending' /\ worker[j] \in AtWork /\ delivered' = delivered
    BY <1>10 DEF CancelArrives
  <2>2. worker[j] # "delivering"
    BY <2>1 DEF AtWork, Looping
  <2>3. status'[j] = "done" => status[j] = "done"
    BY <1>1, <1>3, <1>10 DEF CancelArrives
  <2> QED BY <2>1, <2>2, <2>3
<1>11. CASE CancelTaken(j)
  BY <1>11 DEF CancelTaken
<1>12. CASE Forgotten(j)
  <2>1. worker[j] = "ended" /\ UNCHANGED <<status, pending, delivered>>
    BY <1>12 DEF Forgotten
  <2> QED BY <2>1 DEF AtWork, Looping
<1> QED BY <1>6, <1>7, <1>8, <1>9, <1>10, <1>11, <1>12 DEF Work

LEMMA StepTells == Inv /\ NoneUntold /\ [Next]_vars => NoneUntold'
<1> SUFFICES ASSUME Inv, NoneUntold, [Next]_vars, manager' = "open", restarts' = 0,
                    NEW k \in Jobs
             PROVE  Told(k)'
  BY DEF NoneUntold
<1>1. ASSUME manager = "open", restarts = 0 PROVE Told(k)
  BY <1>1 DEF NoneUntold
<1>2. ASSUME UNCHANGED <<status, worker, pending, delivered>>, Told(k) PROVE Told(k)'
  BY <1>2 DEF Told
<1>3. ASSUME NEW j \in Jobs, Create(j) PROVE Told(k)'
  <2>1. /\ j = made + 1 /\ status' = [status EXCEPT ![j] = "queued"]
        /\ worker' = [worker EXCEPT ![j] = "ready"]
        /\ UNCHANGED <<pending, closing, delivered>>
    BY <1>3 DEF Create, Mark, At
  <2>2. Told(k)
    BY <1>1, <2>1 DEF closing
  <2>3. "ready" \in AtWork
    BY DEF AtWork
  <2> QED BY <2>1, <2>2, <2>3 DEF Told, Inv, TypeOK
<1>4. ASSUME NEW j \in Jobs, Work(j) PROVE Told(k)'
  <2>1. closing' = closing
    BY <1>4 DEF Work, Starts, Opened, Generated, RoundEnds, AnswersFinally, OutOfSteps,
                SlotRefused, LoopFails, Delivers, DeliveryFails, Returns, CancelArrives,
                CancelTaken, Forgotten, Fails, Finishes, WorkerStep, closing
  <2>2. Told(k)
    BY <1>1, <2>1 DEF closing
  <2>3. CASE k = j
    BY <1>4, <2>2, <2>3, WorkTells
  <2>4. CASE k # j
    <3>1. status'[k] = status[k]
      BY <1>4, <2>4 DEF Inv, TypeOK, Work, Starts, Opened, Generated, RoundEnds, AnswersFinally,
                OutOfSteps, SlotRefused, LoopFails, Delivers, DeliveryFails, Returns,
                CancelArrives, CancelTaken, Forgotten, Fails, Finishes, Mark
    <3>2. worker'[k] = worker[k] /\ (k \in pending' => k \in pending)
      BY <1>4, <2>4 DEF Inv, TypeOK, Work, Starts, Opened, Generated, RoundEnds, AnswersFinally,
                OutOfSteps, SlotRefused, LoopFails, Delivers, DeliveryFails, Returns,
                CancelArrives, CancelTaken, Forgotten, Fails, Finishes, WorkerStep, At
    <3>3. k \in delivered => k \in delivered'
      BY <1>4 DEF Work, Starts, Opened, Generated, RoundEnds, AnswersFinally,
                OutOfSteps, SlotRefused, LoopFails, Delivers, DeliveryFails, Returns,
                CancelArrives, CancelTaken, Forgotten, Fails, Finishes
    <3> QED BY <2>2, <3>1, <3>2, <3>3 DEF Told
  <2> QED BY <2>3, <2>4
<1>5. ASSUME NEW j \in Jobs, Cancel(j) PROVE Told(k)'
  <2>1. /\ j \in Active /\ status' = [status EXCEPT ![j] = "cancelled"]
        /\ pending' \subseteq pending \cup {j}
        /\ UNCHANGED <<worker, delivered, closing>>
    BY <1>5 DEF Cancel, Mark
  <2>2. Told(k) /\ Matched(j)
    BY <1>1, <2>1 DEF closing, Inv
  <2>3. worker[j] \in AtWork
    BY <2>1, <2>2 DEF Matched
  <2> QED BY <2>1, <2>2, <2>3 DEF Told, Inv, TypeOK
<1>6. CASE CloseBegins \/ CloseEnds
  BY <1>6 DEF CloseBegins, CloseEnds
<1>7. CASE Restart
  BY <1>7 DEF Restart, Inv, TypeOK
<1>8. CASE UNCHANGED vars
  BY <1>1, <1>2, <1>8 DEF vars, closing
<1> QED BY <1>3, <1>4, <1>5, <1>6, <1>7, <1>8 DEF Next

(* A job that is done and whose worker is gone was delivered, unless the   *)
(* manager was closed or the process ended (run_background_job, cancel).   *)
THEOREM DoneReachesChannel == Spec => []DoneIsDelivered
<1>1. Init => NoneUntold
  BY DEF Init, NoneUntold, Told
<1>2. NoneUntold => DoneIsDelivered
  BY DEF NoneUntold, Told, DoneIsDelivered, Undelivered
<1> QED BY <1>1, <1>2, Invariant, StepTells, PTL DEF Spec
-----------------------------------------------------------------------------
(* The publisher. *)
(* What the worker runs, by the place it is at.                            *)
SiteSteps == FailsAt
ListSteps == {"list", "audit", "ask"}

LEMMA JobKinds ==
    ASSUME PublisherTypeOK
    PROVE  /\ job.at \in SiteSteps \cup ListSteps \cup {"idle", "answered", "done"}
           /\ job.at \in SiteSteps => job \in SiteJobs
           /\ job.at \in ListSteps => job \in ListJobs
           /\ job.at = "answered" => job \in AnsweredJobs
           /\ job.at = "done" => job \in DoneJobs
BY DEF PublisherTypeOK, SiteSteps, FailsAt, ListSteps, SiteJobs, ListJobs, AnsweredJobs,
       DoneJobs, Idle

LEMMA OnSiteMeans ==
    ASSUME PublisherTypeOK, NEW n, NEW s \in SiteSteps
    PROVE  OnSite(n, s) <=> job.at = s /\ job.name = n
BY JobKinds DEF OnSite, SiteJobs

(* A site's job goes on, or is done.                                       *)
LEMMA SiteGoesOn ==
    ASSUME PublisherTypeOK, NEW n, NEW s \in SiteSteps, NEW t \in SiteSteps,
           OnSite(n, s), Goes(t)
    PROVE  /\ job' \in SiteJobs /\ job'.at = t /\ job'.name = n /\ job'.snap = job.snap
           /\ n \in Names
<1>1. job \in SiteJobs /\ job.name = n
  BY JobKinds, OnSiteMeans
<1> QED BY <1>1 DEF Goes, SiteJobs, SiteSteps

LEMMA JobIsDone ==
    ASSUME NEW of \in Names \cup {"audit"}, NEW failed \in BOOLEAN,
           NEW repairs \in SUBSET Names, Done(of, failed, repairs)
    PROVE  /\ job' \in DoneJobs /\ job'.at = "done" /\ job'.of = of
           /\ job'.failed = failed /\ job'.repairs = repairs
BY DEF Done, DoneJobs

LEMMA Contents ==
    ASSUME NEW v \in Versions \cup {None}
    PROVE  /\ Content(v) \in {ContentOf[w] : w \in Versions} \cup {None}
           /\ Content(v) # Mixed
           /\ Content(v) = None <=> v = None
<1> USE DEF None, Mixed
<1>1. CASE v = None
  BY <1>1 DEF Content
<1>2. CASE v # None
  <2>1. v \in Versions /\ ContentOf[v] \in Nat \ {0} /\ Content(v) = ContentOf[v]
    BY <1>2, ContentsAssumption DEF Content
  <2>2. Content(v) # 0 /\ Content(v) # -1
    BY <2>1
  <2> QED BY <1>2, <2>1, <2>2
<1> QED BY <1>1, <1>2
-----------------------------------------------------------------------------
AllJobs == {Idle} \cup SiteJobs \cup ListJobs \cup AnsweredJobs \cup DoneJobs

LEMMA JobTyped ==
    ASSUME PublisherTypeOK, [PublisherNext]_publisherVars
    PROVE  job' \in AllJobs
<1> USE DEF AllJobs
<1>1. CASE UNCHANGED job
  BY <1>1 DEF PublisherTypeOK
<1>2. CASE Complete
  BY <1>2 DEF Complete
<1>3. CASE SubmitAudit
  <2>1. job' = [at |-> "list", left |-> {}, present |-> {}, asked |-> {}, failed |-> {}]
    BY <1>3 DEF SubmitAudit
  <2> QED BY <2>1 DEF ListJobs
<1>4. ASSUME NEW n \in Names, SubmitSite(n) PROVE job' \in AllJobs
  <2>1. job' = [at |-> "look", name |-> n, forced |-> n \in force, snap |-> None]
    BY <1>4 DEF SubmitSite
  <2> QED BY <2>1 DEF SiteJobs, FailsAt
<1>5. ASSUME NEW n \in Names, Works(n) PROVE job' \in AllJobs
  <2> USE DEF SiteSteps, FailsAt
  <2>1. CASE Look(n)
    BY <2>1, SiteGoesOn, JobIsDone DEF Look
  <2>2. CASE ScanSite(n)
    <3>1. job \in SiteJobs /\ source[n] \in Versions \cup {None}
      BY <2>2, OnSiteMeans, JobKinds DEF ScanSite, PublisherTypeOK
    <3>2. CASE job' = [job EXCEPT !.at = "probe", !.snap = source[n]]
      BY <3>1, <3>2 DEF SiteJobs
    <3>3. CASE Done(n, FALSE, {})
      BY <3>3, JobIsDone
    <3> QED BY <2>2, <3>2, <3>3 DEF ScanSite
  <2>3. CASE Probed(n)
    BY <2>3, SiteGoesOn DEF Probed
  <2>4. CASE RemoteRemoves(n)
    BY <2>4, SiteGoesOn DEF RemoteRemoves
  <2>5. CASE Removed(n)
    BY <2>5, SiteGoesOn, JobIsDone DEF Removed
  <2>6. CASE RemoteClaims(n)
    BY <2>6, SiteGoesOn DEF RemoteClaims
  <2>7. CASE Claimed(n)
    BY <2>7, SiteGoesOn DEF Claimed
  <2>8. CASE RemoteSyncs(n)
    BY <2>8, SiteGoesOn DEF RemoteSyncs
  <2>9. CASE SyncRefused(n)
    BY <2>9, JobIsDone DEF SyncRefused
  <2>10. CASE Synced(n)
    BY <2>10, JobIsDone DEF Synced
  <2>11. CASE AuditScan(n)
    <3>1. job \in ListJobs
      BY <2>11, JobKinds DEF AuditScan, ListSteps
    <3>2. \/ job' = [job EXCEPT !.left = @ \ {n}]
          \/ job' = [job EXCEPT !.left = @ \ {n}, !.asked = @ \cup {n}]
      BY <2>11 DEF AuditScan
    <3>3. CASE job' = [job EXCEPT !.left = @ \ {n}]
      <4>1. job' \in ListJobs
        BY <3>1, <3>3 DEF ListJobs
      <4> QED BY <4>1
    <3>4. CASE job' = [job EXCEPT !.left = @ \ {n}, !.asked = @ \cup {n}]
      <4>1. job' \in ListJobs
        BY <3>1, <3>4 DEF ListJobs
      <4> QED BY <4>1
    <3> QED BY <3>2, <3>3, <3>4
  <2> QED BY <1>5, <2>1, <2>2, <2>3, <2>4, <2>5, <2>6, <2>7, <2>8, <2>9, <2>10, <2>11
          DEF Works
<1>6. CASE List
  <2>1. job \in ListJobs
    BY <1>6, JobKinds DEF List, ListSteps
  <2>2. PICK now \in SUBSET Names : job' = [job EXCEPT !.at = "audit", !.left = now, !.present = now]
    BY <1>6 DEF List
  <2> QED BY <2>1, <2>2 DEF ListJobs
<1>7. CASE AuditListed
  <2>1. job \in ListJobs
    BY <1>7, JobKinds DEF AuditListed, ListSteps
  <2> QED BY <1>7, <2>1 DEF AuditListed, Goes, ListJobs
<1>8. CASE RemoteAnswers
  <2>1. job \in ListJobs
    BY <1>8, JobKinds DEF RemoteAnswers, ListSteps
  <2>2. PICK different \in SUBSET Names, hashed \in SUBSET Names :
          job' = [at |-> "answered", left |-> {}, present |-> job.present, asked |-> job.asked,
                  failed |-> job.failed, different |-> different, hashed |-> hashed]
    BY <1>8, <2>1 DEF RemoteAnswers, ListJobs
  <2> QED BY <2>1, <2>2 DEF ListJobs, AnsweredJobs
<1>9. CASE Answered
  <2>1. job \in AnsweredJobs
    BY <1>9, JobKinds DEF Answered
  <2>2. ToReconcile \in SUBSET Names
    BY <2>1 DEF ToReconcile, AnsweredJobs
  <2> QED BY <1>9, <2>2, JobIsDone DEF Answered
<1>10. ASSUME NEW n \in Names, SiteFails(n) PROVE job' \in AllJobs
  BY <1>10, JobIsDone DEF SiteFails
<1>11. ASSUME NEW n \in Names, AuditScanFails(n) PROVE job' \in AllJobs
  <2>1. job \in ListJobs
    BY <1>11, JobKinds DEF AuditScanFails, ListSteps
  <2> QED BY <1>11, <2>1 DEF AuditScanFails, ListJobs
<1>12. CASE AuditFails
  <2>1. Done("audit", TRUE, {})
    BY <1>12 DEF AuditFails
  <2> QED BY <2>1 DEF Done, DoneJobs
<1>13. CASE Crash
  BY <1>13 DEF Crash
<1> QED
  BY <1>1, <1>2, <1>3, <1>4, <1>5, <1>6, <1>7, <1>8, <1>9, <1>10, <1>11, <1>12, <1>13
  DEF PublisherNext, Observe, Audits, Environment, Edit, LateRemove, LateClaim, Touch,
      publisherVars
-----------------------------------------------------------------------------
(* The types, one variable after the other.                                *)
VersionMaps == [Names -> Versions \cup {None}]
ContentMaps == [Names -> {ContentOf[v] : v \in Versions} \cup {None, Mixed}]

Typed ==
    /\ source \in VersionMaps /\ published \in VersionMaps /\ expected \in VersionMaps
    /\ remote \in ContentMaps /\ verified \in ContentMaps
    /\ edited \in Versions \cup {0} /\ faults \in 0..MaxFaults
    /\ unwatched \subseteq Names /\ kernel \subseteq Names /\ dirty \subseteq Names
    /\ background \subseteq Names /\ force \subseteq Names /\ retry \subseteq Names
    /\ saved \subseteq Names /\ marked \subseteq Names /\ touched \subseteq Names
    /\ strays \subseteq Names /\ wasGone \subseteq Names /\ skipped \subseteq Names
    /\ lost \in BOOLEAN /\ topology \in BOOLEAN /\ coverageLost \in BOOLEAN
    /\ backgroundTurn \in BOOLEAN /\ auditPending \in BOOLEAN /\ armed \in BOOLEAN
    /\ sites \in [Names -> {"no", "live", "deleting"}]
    /\ late \subseteq [what : {"remove", "claim"}, name : Names]

LEMMA TypeParts == PublisherTypeOK <=> Typed /\ job \in AllJobs
BY DEF PublisherTypeOK, VersionMaps, ContentMaps, AllJobs, Typed

LEMMA TypedStep ==
    ASSUME PublisherTypeOK, [PublisherNext]_publisherVars
    PROVE  Typed'
<1>0. Typed
  BY TypeParts
<1>a. ASSUME Fault PROVE faults' \in 0..MaxFaults
  BY <1>0, <1>a, FaultsAssumption DEF Fault, Typed
<1> USE <1>0, <1>a DEF Typed
<1>1. ASSUME NEW n \in Names, NEW v \in Versions, Edit(n, v) PROVE Typed'
  <2>1. PICK new \in {v, None} :
          /\ source' = [source EXCEPT ![n] = new]
          /\ unwatched' \in {unwatched, unwatched \ {n}, unwatched \cup {n}}
          /\ kernel' \in {kernel, kernel \cup {n}, {}}
          /\ lost' \in BOOLEAN
          /\ faults' = faults \/ Fault
          /\ wasGone' \in {wasGone, wasGone \cup {n}}
    BY <1>1 DEF Edit, Reported, Overflows
  <2>2. source' \in VersionMaps
    BY <2>1 DEF VersionMaps
  <2>3. edited' \in Versions \cup {0}
    BY <1>1 DEF Edit
  <2>4. /\ unwatched' \subseteq Names /\ kernel' \subseteq Names /\ wasGone' \subseteq Names
        /\ faults' \in 0..MaxFaults
    BY <2>1
  <2>5. UNCHANGED <<topology, coverageLost, schedule, job, caches, owned, remote, marked,
                    late, touched, strays>>
    BY <1>1 DEF Edit
  <2> QED BY <2>1, <2>2, <2>3, <2>4, <2>5 DEF schedule, caches, owned
<1>2. CASE Observe
  <2>1. /\ kernel' = {} /\ lost' = FALSE
        /\ topology' \in BOOLEAN /\ coverageLost' \in BOOLEAN
        /\ unwatched' \in {unwatched, {}}
        /\ faults' = faults \/ Fault
        /\ dirty' = dirty \cup kernel /\ background' = background \ kernel
        /\ auditPending' \in BOOLEAN /\ armed' \in BOOLEAN
        /\ UNCHANGED <<source, edited, backgroundTurn, force, retry, skipped>>
        /\ UNCHANGED <<caches, owned, there>>
    BY <1>2 DEF Observe, Rebuilt, NotRebuilt
  <2> QED BY <2>1 DEF caches, owned, there
<1>3. CASE Complete
  <2>1. /\ retry' \in {retry, retry \cup {job.of}, {}}
        /\ force' \in {force, force \cup ToRepair}
        /\ background' \in {background, background \cup (ToRepair \ dirty)}
        /\ armed' \in BOOLEAN
        /\ job.at = "done"
        /\ job.of = "audit" => retry' \in {retry, {}}
        /\ UNCHANGED <<dirty, backgroundTurn, auditPending, skipped>>
        /\ UNCHANGED <<local, watcher, caches, owned, there, faults>>
    BY <1>3 DEF Complete
  <2>2. job \in DoneJobs
    BY <2>1, JobKinds
  <2>3. ToRepair \subseteq Names /\ (job.of \in Names \/ job.of = "audit")
    BY <2>2 DEF ToRepair, DoneJobs
  <2>4. retry' \subseteq Names /\ force' \subseteq Names /\ background' \subseteq Names
    BY <2>1, <2>3
  <2> QED BY <2>1, <2>4 DEF local, watcher, caches, owned, there
<1>4. CASE SubmitAudit
  BY <1>4 DEF SubmitAudit, local, watcher, caches, owned, there
<1>5. ASSUME NEW n \in Names, SubmitSite(n) PROVE Typed'
  BY <1>5 DEF SubmitSite, Take, local, watcher, caches, owned, there
<1>6. ASSUME NEW n \in Names, Works(n) PROVE Typed'
  <2>0. \A s \in SiteSteps : OnSite(n, s) => job \in SiteJobs
    BY JobKinds, OnSiteMeans
  <2> USE DEF local, watcher, schedule, there, SiteSteps, FailsAt
  <2>1. CASE Look(n)
    BY <2>1 DEF Look, caches, owned
  <2>2. CASE ScanSite(n)
    <3>1. published' \in VersionMaps
      BY <2>2 DEF ScanSite, VersionMaps
    <3> QED BY <2>2, <3>1 DEF ScanSite, owned
  <2>3. CASE Probed(n)
    BY <2>3 DEF Probed, Adds, owned, caches
  <2>4. CASE RemoteRemoves(n)
    BY <2>4 DEF RemoteRemoves, TakenDown, ContentMaps, owned, caches
  <2>5. CASE Removed(n)
    BY <2>5 DEF Removed, Adds, owned, caches
  <2>6. CASE RemoteClaims(n)
    <3>1. remote' \in ContentMaps
      BY <2>6 DEF RemoteClaims, ContentMaps
    <3> QED BY <2>6, <3>1 DEF RemoteClaims, caches
  <2>7. CASE Claimed(n)
    BY <2>7 DEF Claimed, caches
  <2>8. CASE RemoteSyncs(n)
    <3>1. job.snap \in Versions \cup {None}
      BY <2>0, <2>8 DEF RemoteSyncs, SiteJobs
    <3>2. remote' \in ContentMaps
      BY <2>8, <3>1, Contents DEF RemoteSyncs, Sends, ContentMaps
    <3>3. touched' \subseteq Names /\ wasGone' \subseteq Names
      BY <2>8 DEF RemoteSyncs
    <3> QED BY <2>8, <3>2, <3>3 DEF RemoteSyncs, caches, owned
  <2>9. CASE SyncRefused(n)
    BY <2>9 DEF SyncRefused, caches, owned
  <2>10. CASE Synced(n)
    <3>1. job.snap \in Versions \cup {None}
      BY <2>0, <2>10 DEF Synced, SiteJobs
    <3>2. published' \in VersionMaps /\ expected' \in VersionMaps /\ verified' \in ContentMaps
      BY <2>10, <3>1 DEF Synced, VersionMaps, ContentMaps
    <3> QED BY <2>10, <3>2 DEF Synced, owned
  <2>11. CASE AuditScan(n)
    <3>1. expected' \in VersionMaps /\ verified' \in ContentMaps
      BY <2>11 DEF AuditScan, VersionMaps, ContentMaps
    <3> QED BY <2>11, <3>1 DEF AuditScan, owned
  <2> QED BY <1>6, <2>1, <2>2, <2>3, <2>4, <2>5, <2>6, <2>7, <2>8, <2>9, <2>10, <2>11
          DEF Works
<1>7. CASE List
  BY <1>7 DEF List, local, watcher, schedule, caches, owned, there
<1>8. CASE AuditListed
  <2>1. expected' \in VersionMaps /\ published' \in VersionMaps /\ verified' \in ContentMaps
    BY <1>8 DEF AuditListed, Only, VersionMaps, ContentMaps
  <2> QED BY <1>8, <2>1 DEF AuditListed, local, watcher, schedule, owned, there
<1>9. CASE RemoteAnswers
  BY <1>9 DEF RemoteAnswers, local, watcher, schedule, caches, owned
<1>10. CASE Answered
  <2>1. job \in AnsweredJobs
    BY <1>10, JobKinds DEF Answered
  <2>2. published' \in VersionMaps
    BY <1>10 DEF Answered, VersionMaps
  <2>3. verified' \in ContentMaps
    <3>1. \A n \in Names : Content(expected[n]) \in {ContentOf[v] : v \in Versions} \cup {None}
      BY Contents DEF VersionMaps
    <3>2. verified' = [n \in Names |-> IF n \in job.different THEN None
                                    ELSE IF n \in job.hashed THEN Content(expected[n])
                                    ELSE verified[n]]
      BY <1>10 DEF Answered
    <3> QED BY <3>1, <3>2 DEF ContentMaps
  <2>4. skipped' \subseteq Names
    BY <1>10, <2>1 DEF Answered, AnsweredJobs
  <2> QED BY <1>10, <2>2, <2>3, <2>4 DEF Answered, local, watcher, owned, there
<1>11. ASSUME NEW n \in Names, SiteFails(n) PROVE Typed'
  <2>1. \/ remote' = [remote EXCEPT ![n] = Mixed] /\ UNCHANGED late
        \/ UNCHANGED remote /\ late' = late \cup {[what |-> job.at, name |-> n]}
                            /\ job.at \in {"remove", "claim"}
        \/ UNCHANGED <<remote, late>>
    BY <1>11 DEF SiteFails, Sends
  <2>2. remote' \in ContentMaps
    BY <2>1 DEF ContentMaps
  <2>3. late' \subseteq [what : {"remove", "claim"}, name : Names]
    BY <2>1
  <2> QED BY <1>11, <2>2, <2>3
          DEF SiteFails, local, watcher, schedule, caches, owned
<1>12. ASSUME NEW n \in Names, AuditScanFails(n) PROVE Typed'
  BY <1>12 DEF AuditScanFails, local, watcher, schedule, caches, owned, there
<1>13. CASE AuditFails
  BY <1>13 DEF AuditFails, local, watcher, caches, owned, there
<1>14. ASSUME NEW n \in Names, LateRemove(n) \/ LateClaim(n) \/ Touch(n) PROVE Typed'
  <2>1. /\ remote' \in {[remote EXCEPT ![n] = None], [remote EXCEPT ![n] = Mixed], remote,
                        [remote EXCEPT ![n] = IF @ = None THEN Mixed ELSE @]}
        /\ marked' \in {marked, marked \ {n}}
        /\ strays' \in {strays, strays \ {n}, strays \cup {n}}
        /\ touched' = touched \cup {n}
        /\ late' \subseteq late
        /\ faults' = faults \/ Fault
        /\ UNCHANGED <<local, watcher, schedule, caches, owned, wasGone>>
    BY <1>14 DEF LateRemove, LateClaim, Touch, TakenDown, Sends
  <2>2. remote' \in ContentMaps
    BY <2>1 DEF ContentMaps
  <2> QED BY <2>1, <2>2 DEF local, watcher, schedule, caches, owned
<1>15. CASE Crash
  <2>1. NoVersion \in VersionMaps /\ NoVersion \in ContentMaps
    BY DEF NoVersion, VersionMaps, ContentMaps
  <2> QED BY <1>15, <2>1 DEF Crash, owned, there
<1>16. CASE UNCHANGED publisherVars
  BY <1>16 DEF publisherVars, local, watcher, schedule, caches, owned, there
<1> QED BY <1>1, <1>2, <1>3, <1>4, <1>5, <1>6, <1>7, <1>8, <1>9, <1>10, <1>11, <1>12,
           <1>13, <1>14, <1>15, <1>16
        DEF PublisherNext, Audits, Environment

LEMMA PublisherTypedAtFirst == PublisherInit => PublisherTypeOK
<1> SUFFICES ASSUME PublisherInit PROVE PublisherTypeOK
  OBVIOUS
<1>1. NoVersion \in VersionMaps /\ NoVersion \in ContentMaps
  BY DEF NoVersion, VersionMaps, ContentMaps
<1>2. sites \in [Names -> {"no", "live", "deleting"}] /\ faults \in 0..MaxFaults
  BY FaultsAssumption DEF PublisherInit
<1>3. Typed
  BY <1>1, <1>2 DEF PublisherInit, Typed
<1>4. job \in AllJobs
  BY DEF PublisherInit, AllJobs
<1> QED BY <1>3, <1>4, TypeParts

LEMMA PublisherTypedStep ==
    PublisherTypeOK /\ [PublisherNext]_publisherVars => PublisherTypeOK'
<1> SUFFICES ASSUME PublisherTypeOK, [PublisherNext]_publisherVars PROVE PublisherTypeOK'
  OBVIOUS
<1>1. Typed' /\ job' \in AllJobs
  BY TypedStep, JobTyped
<1> QED BY <1>1 DEF Typed, AllJobs, PublisherTypeOK, VersionMaps, ContentMaps

(* Every variable keeps its type.                                          *)
THEOREM PublisherTypeCorrect == PublisherSpec => []PublisherTypeOK
BY PublisherTypedAtFirst, PublisherTypedStep, PTL DEF PublisherSpec
-----------------------------------------------------------------------------
(* Every step that puts a site's job at another place is one of the        *)
(* worker's, or hands it the job.                                          *)
LEMMA JobPlaces ==
    ASSUME PublisherTypeOK, [PublisherNext]_publisherVars,
           job'.at \in SiteSteps, job' # job
    PROVE  \E n \in Names : SubmitSite(n) \/ Works(n)
<1> USE DEF SiteSteps, FailsAt
<1>1. CASE Complete \/ Crash
  <2>1. job' = Idle
    BY <1>1 DEF Complete, Crash
  <2> QED BY <2>1 DEF Idle
<1>2. CASE SubmitAudit
  BY <1>2 DEF SubmitAudit
<1>3. CASE List \/ AuditListed \/ RemoteAnswers \/ Answered
  <2>1. CASE List
    <3>1. job \in ListJobs
      BY <2>1, JobKinds DEF List, ListSteps
    <3>2. job'.at = "audit"
      BY <2>1, <3>1 DEF List, ListJobs
    <3> QED BY <3>2
  <2>2. CASE AuditListed
    <3>1. job \in ListJobs
      BY <2>2, JobKinds DEF AuditListed, ListSteps
    <3>2. job'.at = "ask"
      BY <2>2, <3>1 DEF AuditListed, ListJobs, Goes
    <3> QED BY <3>2
  <2> QED BY <1>3, <2>1, <2>2 DEF RemoteAnswers, Answered, Done
<1>4. ASSUME NEW n \in Names, SiteFails(n) \/ AuditScanFails(n) PROVE FALSE
  <2>1. CASE AuditScanFails(n)
    <3>1. job \in ListJobs
      BY <2>1, JobKinds DEF AuditScanFails, ListSteps
    <3>2. job'.at = "audit"
      BY <2>1, <3>1 DEF AuditScanFails, ListJobs
    <3> QED BY <3>2
  <2> QED BY <1>4, <2>1 DEF SiteFails, Done
<1>5. CASE AuditFails
  BY <1>5 DEF AuditFails, Done
<1>6. ASSUME NEW n \in Names,
             (\E v \in Versions : Edit(n, v)) \/ LateRemove(n) \/ LateClaim(n) \/ Touch(n)
      PROVE  FALSE
  BY <1>6 DEF Edit, LateRemove, LateClaim, Touch
<1>7. CASE Observe \/ UNCHANGED publisherVars
  BY <1>7 DEF Observe, publisherVars
<1>8. CASE Environment
  <2>1. ASSUME NEW n \in Names, NEW v \in Versions, Edit(n, v) PROVE FALSE
    BY <1>6, <2>1
  <2>2. ASSUME NEW n \in Names, LateRemove(n) \/ LateClaim(n) \/ Touch(n) PROVE FALSE
    BY <1>6, <2>2
  <2> QED BY <1>1, <1>4, <1>5, <1>8, <2>1, <2>2 DEF Environment
<1>9. CASE \E n \in Names : SubmitSite(n) \/ Works(n)
  BY <1>9
<1> QED BY <1>1, <1>2, <1>3, <1>7, <1>8, <1>9 DEF PublisherNext, Audits
-----------------------------------------------------------------------------
(* What the job of a site has in hand.                                     *)
InHand(n, steps) == job.at \in steps /\ job.name = n
Claiming == {"claim", "claimed", "sync", "synced"}
Removing == {"remove", "removed"}
Sending == {"probe"} \cup Removing \cup Claiming

(* Ownership: a directory is in the file from before its claim until it is *)
(* gone.                                                                   *)
Tracked(n) ==
    /\ InHand(n, {"probe"}) => sites[n] # "no" \/ job.snap # None
    /\ InHand(n, Removing) => sites[n] = "deleting"
    /\ InHand(n, Claiming) => sites[n] = "live" /\ job.snap # None
    /\ InHand(n, {"removed"}) => remote[n] = None \/ n \in strays
    /\ remote[n] # None /\ n \notin strays => sites[n] # "no"

(* A step that leaves the directories and the file alone, and neither      *)
(* begins nor goes on with what is done to a site.                         *)
LEMMA TrackedUntouched ==
    ASSUME NEW m, Tracked(m), UNCHANGED <<remote, strays, sites>>,
           job' = job \/ job'.at \notin Sending
    PROVE  Tracked(m)'
BY DEF Tracked, InHand, Claiming, Removing, Sending

(* A step of the job of another site.                                      *)
LEMMA TrackedElsewhere ==
    ASSUME NEW m, Tracked(m),
           remote'[m] = remote[m], m \in strays' <=> m \in strays, sites'[m] = sites[m],
           job' = job \/ job'.name # m \/ job'.at \notin Sending
    PROVE  Tracked(m)'
BY DEF Tracked, InHand, Claiming, Removing, Sending

LEMMA TrackedStep ==
    ASSUME PublisherTypeOK, [PublisherNext]_publisherVars, NEW m \in Names, Tracked(m)
    PROVE  Tracked(m)'
<1> USE DEF SiteSteps, FailsAt
<1>0. sites \in [Names -> {"no", "live", "deleting"}] /\ remote \in ContentMaps
  BY TypeParts DEF Typed
<1>1. ASSUME NEW n \in Names, Works(n) PROVE Tracked(m)'
  <2>1. CASE Look(n)
    <3>1. job'.at \in {"scan", "done"}
      BY <2>1, SiteGoesOn, JobIsDone DEF Look
    <3> QED BY <2>1, <3>1, TrackedUntouched
            DEF Look, owned, there, Sending, Removing, Claiming
  <2>2. CASE ScanSite(n)
    <3>1. job \in SiteJobs /\ job.name = n
      BY <2>2, OnSiteMeans, JobKinds DEF ScanSite
    <3>2. UNCHANGED <<remote, strays, sites>>
      BY <2>2 DEF ScanSite, owned, there
    <3>3. CASE Done(n, FALSE, {})
      BY <3>2, <3>3, JobIsDone, TrackedUntouched DEF Sending, Removing, Claiming
    <3>4. CASE /\ job' = [job EXCEPT !.at = "probe", !.snap = source[n]]
               /\ ~(sites[n] = "no" /\ source[n] = None)
      <4>1. job'.at = "probe" /\ job'.name = n /\ job'.snap = source[n]
        BY <3>1, <3>4 DEF SiteJobs
      <4>2. CASE n # m
        BY <3>2, <4>1, <4>2, TrackedElsewhere
      <4>3. CASE n = m
        BY <3>2, <3>4, <4>1, <4>3 DEF Tracked, InHand, Removing, Claiming
      <4> QED BY <4>2, <4>3
    <3> QED BY <2>2, <3>3, <3>4 DEF ScanSite
  <2>3. CASE Probed(n) \/ Removed(n)
    <3>1. job.name = n /\ job.at \in {"probe", "removed"} /\ UNCHANGED <<remote, strays>>
      BY <2>3, OnSiteMeans DEF Probed, Removed, there
    <3>2. CASE /\ sites' = [sites EXCEPT ![n] = "deleting"]
               /\ job'.at = "remove" /\ job'.name = n
      <4>1. CASE n # m
        BY <1>0, <3>1, <3>2, <4>1, TrackedElsewhere
      <4>2. CASE n = m
        BY <1>0, <3>1, <3>2, <4>2 DEF Tracked, InHand, Removing, Claiming
      <4> QED BY <4>1, <4>2
    <3>3. CASE /\ sites'[n] = "live" /\ \A k \in Names \ {n} : sites'[k] = sites[k]
               /\ job'.at = "claim" /\ job'.name = n /\ job'.snap # None
      <4>1. CASE n # m
        BY <1>0, <3>1, <3>3, <4>1, TrackedElsewhere
      <4>2. CASE n = m
        BY <1>0, <3>1, <3>3, <4>2 DEF Tracked, InHand, Removing, Claiming
      <4> QED BY <4>1, <4>2
    <3>4. CASE Removed(n) /\ job.snap = None
      <4>1. sites' = [sites EXCEPT ![n] = "no"] /\ job'.at = "done" /\ job.at = "removed"
        BY <3>4, JobIsDone, OnSiteMeans DEF Removed
      <4>2. CASE n # m
        BY <1>0, <3>1, <4>1, <4>2, TrackedElsewhere DEF Sending, Removing, Claiming
      <4>3. CASE n = m
        BY <1>0, <3>1, <4>1, <4>3 DEF Tracked, InHand, Removing, Claiming
      <4> QED BY <4>2, <4>3
    <3>5. ASSUME Adds(n), Goes("claim"), job.snap # None, OnSite(n, "probe") \/ OnSite(n, "removed")
          PROVE  Tracked(m)'
      <4>1. sites'[n] = "live" /\ \A k \in Names \ {n} : sites'[k] = sites[k]
        BY <1>0, <3>5 DEF Adds, owned
      <4>2. job'.at = "claim" /\ job'.name = n /\ job'.snap # None
        BY <3>5, SiteGoesOn
      <4> QED BY <3>3, <4>1, <4>2
    <3>6. CASE Probed(n)
      <4>1. OnSite(n, "probe")
        BY <3>6 DEF Probed
      <4>2. CASE sites[n] = "deleting" \/ (sites[n] = "live" /\ job.snap = None)
        <5>1. Goes("remove") /\ sites' = [sites EXCEPT ![n] = "deleting"]
          BY <3>6, <4>2 DEF Probed
        <5> QED BY <4>1, <5>1, <3>2, SiteGoesOn
      <4>3. CASE ~(sites[n] = "deleting" \/ (sites[n] = "live" /\ job.snap = None))
        <5>1. Goes("claim") /\ Adds(n)
          BY <3>6, <4>3 DEF Probed
        <5>2. CASE n = m
          <6>1. job.snap # None
            BY <1>0, <3>1, <4>1, <4>3, <5>2, OnSiteMeans DEF Tracked, InHand
          <6> QED BY <3>5, <4>1, <5>1, <6>1
        <5>3. CASE n # m
          <6>1. sites'[m] = sites[m]
            BY <1>0, <5>1, <5>3 DEF Adds, owned
          <6>2. job'.name = n
            BY <4>1, <5>1, SiteGoesOn
          <6> QED BY <3>1, <5>3, <6>1, <6>2, TrackedElsewhere
        <5> QED BY <5>2, <5>3
      <4> QED BY <4>2, <4>3
    <3>7. CASE Removed(n) /\ job.snap # None
      BY <3>5, <3>7 DEF Removed
    <3> QED BY <2>3, <3>4, <3>6, <3>7
  <2>4. CASE RemoteRemoves(n)
    <3>1. job.name = n /\ job.at = "remove" /\ job'.name = n /\ job'.at = "removed"
      BY <2>4, OnSiteMeans, SiteGoesOn DEF RemoteRemoves
    <3>2. remote' = [remote EXCEPT ![n] = None] /\ strays' = strays \ {n} /\ UNCHANGED sites
      BY <2>4 DEF RemoteRemoves, TakenDown, owned
    <3>3. CASE n # m
      BY <1>0, <3>1, <3>2, <3>3, TrackedElsewhere DEF ContentMaps
    <3>4. CASE n = m
      BY <1>0, <3>1, <3>2, <3>4 DEF Tracked, InHand, Removing, Claiming, ContentMaps
    <3> QED BY <3>3, <3>4
  <2>5. CASE RemoteClaims(n)
    <3>1. /\ job.name = n /\ job.at = "claim" /\ job'.name = n /\ job'.at = "claimed"
          /\ job'.snap = job.snap
      BY <2>5, OnSiteMeans, SiteGoesOn DEF RemoteClaims
    <3>2. /\ \A k \in Names \ {n} : remote'[k] = remote[k]
          /\ strays' = strays \ {n} /\ UNCHANGED sites
      BY <1>0, <2>5 DEF RemoteClaims, ContentMaps
    <3>3. CASE n # m
      BY <1>0, <3>1, <3>2, <3>3, TrackedElsewhere
    <3>4. CASE n = m
      BY <1>0, <3>1, <3>2, <3>4 DEF Tracked, InHand, Removing, Claiming
    <3> QED BY <3>3, <3>4
  <2>6. CASE Claimed(n)
    <3>1. /\ job.name = n /\ job.at = "claimed" /\ job'.name = n /\ job'.at = "sync"
          /\ job'.snap = job.snap
      BY <2>6, OnSiteMeans, SiteGoesOn DEF Claimed
    <3>2. UNCHANGED <<remote, strays, sites>>
      BY <2>6 DEF Claimed, there
    <3> QED BY <3>1, <3>2 DEF Tracked, InHand, Removing, Claiming
  <2>7. CASE RemoteSyncs(n)
    <3>1. /\ job.name = n /\ job.at = "sync" /\ job'.name = n /\ job'.at = "synced"
          /\ job'.snap = job.snap
      BY <2>7, OnSiteMeans, SiteGoesOn DEF RemoteSyncs
    <3>2. remote' = [remote EXCEPT ![n] = Content(job.snap)] /\ UNCHANGED <<strays, sites>>
      BY <2>7 DEF RemoteSyncs, Sends, owned
    <3>3. CASE n # m
      BY <1>0, <3>1, <3>2, <3>3, TrackedElsewhere DEF ContentMaps
    <3>4. CASE n = m
      BY <1>0, <3>1, <3>2, <3>4 DEF Tracked, InHand, Removing, Claiming
    <3> QED BY <3>3, <3>4
  <2>8. CASE SyncRefused(n) \/ Synced(n)
    <3>1. job'.at = "done"
      BY <2>8, JobIsDone DEF SyncRefused, Synced
    <3> QED BY <2>8, <3>1, TrackedUntouched
            DEF SyncRefused, Synced, owned, there, Sending, Removing, Claiming
  <2>9. CASE AuditScan(n)
    <3>1. job \in ListJobs /\ job.at = "audit"
      BY <2>9, JobKinds DEF AuditScan, ListSteps
    <3>2. job'.at = "audit"
      <4>1. \/ job' = [job EXCEPT !.left = @ \ {n}]
            \/ job' = [job EXCEPT !.left = @ \ {n}, !.asked = @ \cup {n}]
        BY <2>9 DEF AuditScan
      <4> QED BY <3>1, <4>1 DEF ListJobs
    <3> QED BY <2>9, <3>2, TrackedUntouched
            DEF AuditScan, owned, there, Sending, Removing, Claiming
  <2> QED BY <1>1, <2>1, <2>2, <2>3, <2>4, <2>5, <2>6, <2>7, <2>8, <2>9 DEF Works
<1>2. ASSUME NEW n \in Names, SubmitSite(n) PROVE Tracked(m)'
  <2>1. job'.at = "look"
    BY <1>2 DEF SubmitSite
  <2> QED BY <1>2, <2>1, TrackedUntouched
          DEF SubmitSite, owned, there, Sending, Removing, Claiming
<1>3. ASSUME ~ \E n \in Names : SubmitSite(n) \/ Works(n) PROVE job' = job \/ job'.at \notin Sending
  BY <1>3, JobPlaces DEF Sending, Removing, Claiming
<1>4. ASSUME NEW n \in Names, SiteFails(n) PROVE Tracked(m)'
  <2>1. job'.at = "done"
    BY <1>4, JobIsDone DEF SiteFails
  <2>2. remote' \in {remote, [remote EXCEPT ![n] = Mixed]} /\ UNCHANGED <<strays, sites>>
    BY <1>4 DEF SiteFails, Sends, owned
  <2>3. CASE UNCHANGED remote
    BY <2>1, <2>2, <2>3, TrackedUntouched DEF Sending, Removing, Claiming
  <2>4. CASE remote' = [remote EXCEPT ![n] = Mixed] /\ remote' # remote
    <3>1. n = m => sites[n] # "no"
      <4>1. OnSite(n, "sync") \/ OnSite(n, "remove")
        BY <1>4, <2>4, OnSiteMeans DEF SiteFails
      <4>2. job.name = n /\ job.at \in {"sync", "remove"}
        BY <4>1, OnSiteMeans
      <4> QED BY <4>2 DEF Tracked, InHand, Removing, Claiming
    <3>2. CASE n = m
      BY <2>1, <2>2, <3>1, <3>2 DEF Tracked, InHand, Removing, Claiming
    <3>3. CASE n # m
      BY <1>0, <2>1, <2>2, <2>4, <3>3, TrackedElsewhere
      DEF Sending, Removing, Claiming, ContentMaps
    <3> QED BY <3>2, <3>3
  <2> QED BY <2>2, <2>3, <2>4
<1>5. ASSUME NEW n \in Names, LateRemove(n) \/ LateClaim(n) \/ Touch(n) PROVE Tracked(m)'
  <2>1. UNCHANGED <<job, sites>>
    BY <1>5 DEF LateRemove, LateClaim, Touch, owned
  <2>2. /\ \A k \in Names \ {n} : remote'[k] = remote[k]
        /\ strays' \ {n} = strays \ {n}
        /\ remote[n] = None => remote'[n] = None \/ n \in strays'
        /\ n \in strays => n \in strays' \/ remote'[n] = None
    <3>1. CASE LateRemove(n)
      BY <1>0, <3>1 DEF LateRemove, TakenDown, ContentMaps
    <3>2. CASE LateClaim(n)
      BY <1>0, <3>2 DEF LateClaim, ContentMaps
    <3>3. CASE Touch(n)
      BY <1>0, <3>3 DEF Touch, TakenDown, Sends, ContentMaps
    <3> QED BY <1>5, <3>1, <3>2, <3>3
  <2>3. CASE n = m
    BY <2>1, <2>2, <2>3 DEF Tracked, InHand
  <2>4. CASE n # m
    BY <2>1, <2>2, <2>4, TrackedElsewhere
  <2> QED BY <2>3, <2>4
<1>6. ASSUME UNCHANGED <<remote, strays, sites>>, ~ \E n \in Names : SubmitSite(n) \/ Works(n)
      PROVE  Tracked(m)'
  BY <1>3, <1>6, TrackedUntouched
<1>7. ASSUME NEW n \in Names,
             (\E v \in Versions : Edit(n, v)) \/ AuditScanFails(n) \/ AuditFails \/ Crash
             \/ Observe \/ Complete \/ SubmitAudit \/ Audits \/ UNCHANGED publisherVars
      PROVE  UNCHANGED <<remote, strays, sites>>
  <2> USE DEF owned, there
  <2>1. CASE (\E v \in Versions : Edit(n, v)) \/ AuditScanFails(n) \/ AuditFails \/ Crash
    BY <2>1 DEF Edit, AuditScanFails, AuditFails, Crash
  <2>2. CASE Observe \/ SubmitAudit \/ UNCHANGED publisherVars
    BY <2>2 DEF Observe, SubmitAudit, publisherVars
  <2>3. CASE Complete
    BY <2>3 DEF Complete
  <2>4. CASE Audits
    BY <2>4 DEF Audits, List, AuditListed, RemoteAnswers, Answered
  <2> QED BY <1>7, <2>1, <2>2, <2>3, <2>4
<1> QED BY <1>1, <1>2, <1>4, <1>5, <1>6, <1>7 DEF PublisherNext, Environment
(* A directory the publisher made stays in ownership.json until it is      *)
(* gone.                                                                   *)
THEOREM MadeIsTracked == PublisherSpec => []OwnedIsTracked
<1>1. PublisherInit => \A n \in Names : Tracked(n)
  BY DEF PublisherInit, Tracked, InHand, Idle, NoVersion, Removing, Claiming
<1>2. PublisherTypeOK /\ (\A n \in Names : Tracked(n)) /\ [PublisherNext]_publisherVars
      => (\A n \in Names : Tracked(n))'
  BY TrackedStep
<1>3. (\A n \in Names : Tracked(n)) => OwnedIsTracked
  BY DEF Tracked, OwnedIsTracked
<1> QED BY <1>1, <1>2, <1>3, PublisherTypeCorrect, PTL DEF PublisherSpec
-----------------------------------------------------------------------------
(* What is taken down was gone: a removal is recorded only for a site that *)
(* has been missing since it was last sent.                                *)
WasGone(n) ==
    /\ sites[n] = "deleting" => n \in wasGone
    /\ source[n] = None /\ n \notin wasGone => sites[n] = "no"
    /\ InHand(n, {"probe"}) =>
          /\ source[n] # None \/ n \in wasGone
          /\ job.snap = None => n \in wasGone

LEMMA WasGoneUntouched ==
    ASSUME NEW m, WasGone(m),
           source'[m] = source[m] \/ m \in wasGone' \/ source'[m] # None,
           sites'[m] = sites[m], m \in wasGone => m \in wasGone',
           job' = job \/ job'.at # "probe" \/ job'.name # m
    PROVE  WasGone(m)'
BY DEF WasGone, InHand

LEMMA WasGoneStep ==
    ASSUME PublisherTypeOK, [PublisherNext]_publisherVars,
           NEW m \in Names, Tracked(m), WasGone(m)
    PROVE  WasGone(m)'
<1> USE DEF SiteSteps, FailsAt
<1>0. sites \in [Names -> {"no", "live", "deleting"}] /\ source \in VersionMaps
  BY TypeParts DEF Typed
<1>1. ASSUME NEW n \in Names, Works(n) PROVE WasGone(m)'
  <2>1. CASE Look(n)
    <3>1. job'.at \in {"scan", "done"}
      BY <2>1, SiteGoesOn, JobIsDone DEF Look
    <3> QED BY <2>1, <3>1, WasGoneUntouched DEF Look, local, owned, there
  <2>2. CASE ScanSite(n)
    <3>1. job \in SiteJobs /\ job.name = n
      BY <2>2, OnSiteMeans, JobKinds DEF ScanSite
    <3>2. UNCHANGED <<source, wasGone, sites>>
      BY <2>2 DEF ScanSite, local, owned, there
    <3>3. CASE Done(n, FALSE, {})
      BY <3>2, <3>3, JobIsDone, WasGoneUntouched
    <3>4. CASE /\ job' = [job EXCEPT !.at = "probe", !.snap = source[n]]
               /\ ~(sites[n] = "no" /\ source[n] = None)
      <4>1. job'.at = "probe" /\ job'.name = n /\ job'.snap = source[n]
        BY <3>1, <3>4 DEF SiteJobs
      <4>2. CASE n # m
        BY <3>2, <4>1, <4>2, WasGoneUntouched
      <4>3. CASE n = m
        BY <3>2, <3>4, <4>1, <4>3 DEF WasGone, InHand
      <4> QED BY <4>2, <4>3
    <3> QED BY <2>2, <3>3, <3>4 DEF ScanSite
  <2>3. CASE Probed(n)
    <3>1. /\ job.name = n /\ job.at = "probe" /\ UNCHANGED <<source, wasGone>>
          /\ job'.at \in {"remove", "claim"}
      BY <2>3, OnSiteMeans, SiteGoesOn DEF Probed, local, there
    <3>2. \A k \in Names \ {n} : sites'[k] = sites[k]
      BY <1>0, <2>3 DEF Probed, Adds, owned
    <3>3. CASE n # m
      BY <3>1, <3>2, <3>3, WasGoneUntouched
    <3>4. CASE n = m
      BY <1>0, <2>3, <3>1, <3>4 DEF Probed, Adds, owned, WasGone, InHand
    <3> QED BY <3>3, <3>4
  <2>4. CASE Removed(n)
    <3>1. /\ job.name = n /\ job.at = "removed" /\ UNCHANGED <<source, wasGone>>
          /\ job'.at \in {"done", "claim"}
      BY <2>4, OnSiteMeans, SiteGoesOn, JobIsDone DEF Removed, local, there
    <3>2. \A k \in Names \ {n} : sites'[k] = sites[k]
      BY <1>0, <2>4 DEF Removed, Adds, owned
    <3>3. CASE n # m
      BY <3>1, <3>2, <3>3, WasGoneUntouched
    <3>4. CASE n = m
      BY <1>0, <2>4, <3>1, <3>4
      DEF Removed, Adds, owned, WasGone, Tracked, InHand, Removing
    <3> QED BY <3>3, <3>4
  <2>5. CASE RemoteSyncs(n)
    <3>1. /\ job.name = n /\ job.at = "sync" /\ job'.at = "synced"
          /\ UNCHANGED <<source, sites>>
      BY <2>5, OnSiteMeans, SiteGoesOn DEF RemoteSyncs, local, owned
    <3>2. wasGone' = IF source[n] = None THEN wasGone ELSE wasGone \ {n}
      BY <2>5 DEF RemoteSyncs
    <3>3. CASE n # m
      BY <3>1, <3>2, <3>3, WasGoneUntouched
    <3>4. CASE n = m
      BY <3>1, <3>2, <3>4 DEF WasGone, Tracked, InHand, Claiming
    <3> QED BY <3>3, <3>4
  <2>6. CASE RemoteRemoves(n) \/ RemoteClaims(n) \/ Claimed(n) \/ SyncRefused(n) \/ Synced(n)
    <3>1. job'.at # "probe"
      BY <2>6, SiteGoesOn, JobIsDone DEF RemoteRemoves, RemoteClaims, Claimed, SyncRefused, Synced
    <3>2. UNCHANGED <<source, wasGone, sites>>
      BY <2>6 DEF RemoteRemoves, RemoteClaims, Claimed, SyncRefused, Synced, local, owned, there
    <3> QED BY <3>1, <3>2, WasGoneUntouched
  <2>7. CASE AuditScan(n)
    <3>1. job \in ListJobs /\ job.at = "audit"
      BY <2>7, JobKinds DEF AuditScan, ListSteps
    <3>2. job'.at = "audit"
      <4>1. \/ job' = [job EXCEPT !.left = @ \ {n}]
            \/ job' = [job EXCEPT !.left = @ \ {n}, !.asked = @ \cup {n}]
        BY <2>7 DEF AuditScan
      <4> QED BY <3>1, <4>1 DEF ListJobs
    <3> QED BY <2>7, <3>2, WasGoneUntouched DEF AuditScan, local, owned, there
  <2> QED BY <1>1, <2>1, <2>2, <2>3, <2>4, <2>5, <2>6, <2>7 DEF Works
<1>2. ASSUME NEW n \in Names, SubmitSite(n) PROVE WasGone(m)'
  <2>1. job'.at = "look"
    BY <1>2 DEF SubmitSite
  <2> QED BY <1>2, <2>1, WasGoneUntouched DEF SubmitSite, local, owned, there
<1>3. ASSUME NEW n \in Names, NEW v \in Versions, Edit(n, v) PROVE WasGone(m)'
  <2>1. PICK new \in {v, None} :
          /\ source' = [source EXCEPT ![n] = new]
          /\ wasGone' = IF new = None THEN wasGone \cup {n} ELSE wasGone
    BY <1>3 DEF Edit
  <2>2. UNCHANGED <<job, sites>>
    BY <1>3 DEF Edit, owned
  <2> QED BY <1>0, <2>1, <2>2, WasGoneUntouched DEF VersionMaps
<1>4. ASSUME UNCHANGED <<source, wasGone, sites>>, ~ \E n \in Names : SubmitSite(n) \/ Works(n)
      PROVE  WasGone(m)'
  <2>1. job' = job \/ job'.at # "probe"
    BY <1>4, JobPlaces
  <2> QED BY <1>4, <2>1, WasGoneUntouched
<1>5. ASSUME NEW n \in Names,
             SiteFails(n) \/ AuditScanFails(n) \/ AuditFails \/ Crash
             \/ LateRemove(n) \/ LateClaim(n) \/ Touch(n)
             \/ Observe \/ Complete \/ SubmitAudit \/ Audits \/ UNCHANGED publisherVars
      PROVE  UNCHANGED <<source, wasGone, sites>>
  <2> USE DEF local, owned, there
  <2>1. CASE SiteFails(n) \/ AuditScanFails(n) \/ AuditFails \/ Crash
    BY <2>1 DEF SiteFails, AuditScanFails, AuditFails, Crash
  <2>2. CASE Observe \/ SubmitAudit \/ UNCHANGED publisherVars
    BY <2>2 DEF Observe, SubmitAudit, publisherVars
  <2>3. CASE Complete
    BY <2>3 DEF Complete
  <2>4. CASE Audits
    BY <2>4 DEF Audits, List, AuditListed, RemoteAnswers, Answered
  <2>5. CASE LateRemove(n) \/ LateClaim(n) \/ Touch(n)
    BY <2>5 DEF LateRemove, LateClaim, Touch
  <2> QED BY <1>5, <2>1, <2>2, <2>3, <2>4, <2>5
<1> QED BY <1>1, <1>2, <1>3, <1>4, <1>5 DEF PublisherNext, Environment

(* What takes a directory away.                                            *)
LEMMA TakenDownBy ==
    ASSUME PublisherTypeOK, [PublisherNext]_publisherVars, NEW m \in Names,
           Tracked(m), WasGone(m), TakesDown(m)
    PROVE  m \in wasGone \/ LateRemoval(m) \in late \/ Touch(m)
<1> USE DEF TakesDown
<1>0. remote \in ContentMaps
  BY TypeParts DEF Typed
<1> USE DEF there, SiteSteps, FailsAt, None, Mixed
<1>1. ASSUME NEW n \in Names, Works(n) PROVE m \in wasGone
  <2>1. CASE RemoteRemoves(n)
    <3>1. job.name = n /\ job.at = "remove"
      BY <2>1, OnSiteMeans DEF RemoteRemoves
    <3>2. n = m
      BY <1>0, <2>1 DEF RemoteRemoves, TakenDown, ContentMaps
    <3> QED BY <3>1, <3>2 DEF Tracked, WasGone, InHand, Removing
  <2>2. CASE RemoteClaims(n)
    BY <1>0, <2>2 DEF RemoteClaims, ContentMaps
  <2>3. CASE RemoteSyncs(n)
    <3>1. job.name = n /\ job.at = "sync" /\ job \in SiteJobs
      BY <2>3, OnSiteMeans, JobKinds DEF RemoteSyncs
    <3>2. n = m /\ Content(job.snap) = None
      BY <1>0, <2>3 DEF RemoteSyncs, Sends, ContentMaps
    <3>3. job.snap = None
      BY <3>1, <3>2, Contents DEF SiteJobs
    <3> QED BY <3>1, <3>2, <3>3 DEF Tracked, InHand, Claiming
  <2>4. CASE Look(n) \/ ScanSite(n) \/ Probed(n) \/ Removed(n) \/ Claimed(n)
             \/ SyncRefused(n) \/ Synced(n) \/ AuditScan(n)
    BY <2>4 DEF Look, ScanSite, Probed, Removed, Claimed, SyncRefused, Synced, AuditScan
  <2> QED BY <1>1, <2>1, <2>2, <2>3, <2>4 DEF Works
<1>2. ASSUME NEW n \in Names, SiteFails(n) PROVE FALSE
  BY <1>0, <1>2 DEF SiteFails, Sends, ContentMaps
<1>3. ASSUME NEW n \in Names, LateRemove(n) \/ Touch(n)
      PROVE  LateRemoval(m) \in late \/ Touch(m)
  <2>1. n = m
    BY <1>0, <1>3 DEF LateRemove, Touch, TakenDown, Sends, ContentMaps
  <2>2. CASE LateRemove(n)
    BY <2>1, <2>2 DEF LateRemove, LateRemoval
  <2>3. CASE Touch(n)
    BY <2>1, <2>3
  <2> QED BY <1>3, <2>2, <2>3
<1>4. ASSUME NEW n \in Names, LateClaim(n) PROVE FALSE
  BY <1>0, <1>4 DEF LateClaim, ContentMaps
<1>5. ASSUME NEW n \in Names,
             SubmitSite(n) \/ (\E v \in Versions : Edit(n, v)) \/ AuditScanFails(n)
             \/ AuditFails \/ Crash \/ Observe \/ SubmitAudit \/ UNCHANGED publisherVars
      PROVE  FALSE
  BY <1>5 DEF SubmitSite, Edit, AuditScanFails, AuditFails, Crash, Observe, SubmitAudit,
              publisherVars
<1>6. CASE Complete
  BY <1>6 DEF Complete
<1>7. CASE Audits
  BY <1>7 DEF Audits, List, AuditListed, RemoteAnswers, Answered
<1> QED BY <1>1, <1>2, <1>3, <1>4, <1>5, <1>6, <1>7 DEF PublisherNext, Environment

(* What leaves a removal behind that runs late.                            *)
LEMMA LeftBehind ==
    ASSUME PublisherTypeOK, [PublisherNext]_publisherVars, NEW m \in Names,
           Tracked(m), WasGone(m), LateRemoval(m) \in late' \ late
    PROVE  m \in wasGone
<1> USE DEF there
<1>1. ASSUME NEW n \in Names, SiteFails(n) PROVE m \in wasGone
  <2>1. /\ job.at \in {"remove", "claim"} /\ late' = late \cup {[what |-> job.at, name |-> n]}
        /\ \E step \in FailsAt : OnSite(n, step)
    <3>1. late' # late
      OBVIOUS
    <3> QED BY <1>1, <3>1 DEF SiteFails
  <2>2. LateRemoval(m) = [what |-> job.at, name |-> n]
    BY <2>1
  <2>3. n = m /\ job.at = "remove"
    BY <2>2 DEF LateRemoval
  <2>4. FailsAt \subseteq SiteSteps
    BY DEF FailsAt, SiteSteps
  <2>5. job.name = m /\ job.at = "remove"
    BY <2>1, <2>3, <2>4, OnSiteMeans
  <2> QED BY <2>5 DEF Tracked, WasGone, InHand, Removing
<1>2. ASSUME NEW n \in Names, ~SiteFails(n),
             Works(n) \/ SubmitSite(n) \/ (\E v \in Versions : Edit(n, v)) \/ LateRemove(n)
             \/ LateClaim(n) \/ Touch(n) \/ AuditScanFails(n)
      PROVE  late' \subseteq late
  <2>1. CASE Works(n)
    BY <2>1 DEF Works, Look, ScanSite, Probed, RemoteRemoves, Removed, RemoteClaims, Claimed,
         RemoteSyncs, SyncRefused, Synced, AuditScan
  <2>2. CASE SubmitSite(n) \/ (\E v \in Versions : Edit(n, v)) \/ AuditScanFails(n)
    BY <2>2 DEF SubmitSite, Edit, AuditScanFails
  <2>3. CASE LateRemove(n) \/ LateClaim(n) \/ Touch(n)
    BY <2>3 DEF LateRemove, LateClaim, Touch
  <2> QED BY <1>2, <2>1, <2>2, <2>3
<1>3. ASSUME AuditFails \/ Crash \/ Observe \/ SubmitAudit \/ UNCHANGED publisherVars
      PROVE  late' = late
  BY <1>3 DEF AuditFails, Crash, Observe, SubmitAudit, publisherVars
<1>4. CASE Complete
  BY <1>4 DEF Complete
<1>5. CASE Audits
  BY <1>5 DEF Audits, List, AuditListed, RemoteAnswers, Answered
<1> QED BY <1>1, <1>2, <1>3, <1>4, <1>5 DEF PublisherNext, Environment

(* A removal is asked for only while the site has been missing since it was*)
(* last sent, and nothing else the publisher does takes a site down.       *)
THEOREM OnlyTheGoneAreTakenDown == PublisherSpec => NeverTakenDown
<1> DEFINE Inductive == PublisherTypeOK /\ \A n \in Names : Tracked(n) /\ WasGone(n)
<1>1. PublisherInit => Inductive
  <2>1. PublisherInit => \A n \in Names : Tracked(n) /\ WasGone(n)
    BY DEF PublisherInit, Tracked, WasGone, InHand, Idle, NoVersion, Removing, Claiming
  <2>2. PublisherInit => PublisherTypeOK
    BY PublisherTypedAtFirst
  <2> QED BY <2>1, <2>2
<1>2. Inductive /\ [PublisherNext]_publisherVars => Inductive'
  BY TrackedStep, WasGoneStep, PublisherTypedStep
<1>3. Inductive /\ [PublisherNext]_publisherVars =>
        \A n \in Names :
           /\ TakesDown(n) => n \in wasGone \/ LateRemoval(n) \in late \/ Touch(n)
           /\ LateRemoval(n) \in late' \ late => n \in wasGone
  BY TakenDownBy, LeftBehind
<1> QED BY <1>1, <1>2, <1>3, PTL DEF PublisherSpec, NeverTakenDown
-----------------------------------------------------------------------------
(* The cache tells the truth.                                              *)
Inventory == {"list", "audit", "ask", "answered"}
Agrees(n, v) == /\ remote[n] \in {Content(v), Mixed, None}
                /\ n \notin touched => remote[n] = Content(v)

Cached(n) ==
    /\ InHand(n, Sending) => published[n] = None
    /\ published[n] # None => Agrees(n, published[n])
    /\ n \in marked => remote[n] # None
    /\ verified[n] \in {None, Content(expected[n])}
    /\ InHand(n, {"synced"}) => Agrees(n, job.snap)
    /\ job.at \in Inventory /\ n \in job.asked => job.at # "list" /\ expected[n] # None
    /\ job.at = "answered" /\ n \in job.asked \ job.different => Agrees(n, expected[n])

(* Another's step, which does not begin to send this site nor to answer    *)
(* for it.                                                                 *)
LEMMA CachedUntouched ==
    ASSUME NEW m, Cached(m),
           published'[m] = published[m], expected'[m] = expected[m], verified'[m] = verified[m],
           remote'[m] = remote[m], m \in marked' => m \in marked, m \in touched' <=> m \in touched,
           \/ job' = job
           \/ job'.at \notin Sending \cup Inventory
           \/ job'.at \in Sending /\ job'.name # m
    PROVE  Cached(m)'
BY DEF Cached, Agrees, Content, InHand, Sending, Removing, Claiming, Inventory

(* A step of others, on the remote host.                                   *)
LEMMA CachedTouched ==
    ASSUME NEW m, Cached(m), UNCHANGED <<published, expected, verified, job>>,
           m \in touched', remote'[m] \in {remote[m], Mixed, None},
           m \in marked' => remote'[m] # None
    PROVE  Cached(m)'
BY DEF Cached, Agrees, Content, InHand

LEMMA CachedWorks ==
    ASSUME PublisherTypeOK, NEW m \in Names, Tracked(m), Cached(m),
           NEW n \in Names, Works(n)
    PROVE  Cached(m)'
<1> USE DEF SiteSteps, FailsAt
<1>0. /\ published \in VersionMaps /\ expected \in VersionMaps /\ source \in VersionMaps
      /\ remote \in ContentMaps /\ verified \in ContentMaps
  BY TypeParts DEF Typed
<1>j. {"look", "scan", "done"} \cap (Sending \cup Inventory) = {}
      /\ {"probe", "remove", "removed", "claim", "claimed", "sync", "synced"} \subseteq Sending
  BY DEF Sending, Removing, Claiming, Inventory
<1>1. CASE Look(n)
  <2>1. job'.at \in {"scan", "done"}
    BY <1>1, SiteGoesOn, JobIsDone DEF Look
  <2> QED BY <1>1, <1>j, <2>1, CachedUntouched DEF Look, caches, there
<1>2. CASE ScanSite(n)
  <2>1. job \in SiteJobs /\ job.name = n /\ job.at = "scan"
    BY <1>2, OnSiteMeans, JobKinds DEF ScanSite
  <2>2. UNCHANGED <<expected, verified, remote, marked, touched>>
    BY <1>2 DEF ScanSite, there
  <2>3. job'.at = "done" \/ (job'.at = "probe" /\ job'.name = n /\ published'[n] = None)
    <3>1. CASE Done(n, FALSE, {})
      BY <3>1, JobIsDone
    <3>2. CASE /\ job' = [job EXCEPT !.at = "probe", !.snap = source[n]]
               /\ published' = [published EXCEPT ![n] = None]
      BY <1>0, <2>1, <3>2 DEF SiteJobs, VersionMaps
    <3> QED BY <1>2, <3>1, <3>2 DEF ScanSite
  <2>4. \A k \in Names \ {n} : published'[k] = published[k]
    BY <1>0, <1>2 DEF ScanSite, VersionMaps
  <2>5. CASE n # m
    BY <1>j, <2>2, <2>3, <2>4, <2>5, CachedUntouched
  <2>6. CASE n = m
    <3>1. published'[n] = None \/ /\ published'[n] = source[n] /\ published[n] # None
                                  /\ Content(source[n]) = Content(published[n])
      BY <1>0, <1>2 DEF ScanSite, VersionMaps, Unchanged
    <3>2. published'[n] # None => Agrees(n, published'[n])
      BY <2>6, <3>1 DEF Cached, Agrees
    <3>3. (published[n] # None => Agrees(n, published[n]))'
      BY <2>2, <3>2 DEF Agrees, Content
    <3> QED BY <2>2, <2>3, <2>6, <3>3
            DEF Cached, InHand, Sending, Removing, Claiming, Inventory, Content
  <2> QED BY <2>5, <2>6
<1>3. CASE Probed(n) \/ Removed(n) \/ Claimed(n)
  <2>1. job.name = n /\ job.at \in {"probe", "removed", "claimed"}
    BY <1>3, OnSiteMeans DEF Probed, Removed, Claimed
  <2>2. job'.at = "done" \/ (job'.at \in {"remove", "claim", "sync"} /\ job'.name = n)
    BY <1>3, SiteGoesOn, JobIsDone DEF Probed, Removed, Claimed
  <2>3. UNCHANGED <<published, expected, verified, remote, marked, touched>>
    BY <1>3 DEF Probed, Removed, Claimed, caches, there
  <2>4. CASE n # m
    BY <1>j, <2>2, <2>3, <2>4, CachedUntouched
  <2>5. CASE n = m
    BY <2>1, <2>2, <2>3, <2>5
    DEF Cached, Agrees, Content, InHand, Sending, Removing, Claiming, Inventory
  <2> QED BY <2>4, <2>5
<1>4. CASE RemoteRemoves(n) \/ RemoteClaims(n)
  <2>1. job.name = n /\ job.at \in {"remove", "claim"}
    BY <1>4, OnSiteMeans DEF RemoteRemoves, RemoteClaims
  <2>2. job'.at \in {"removed", "claimed"} /\ job'.name = n
    BY <1>4, SiteGoesOn DEF RemoteRemoves, RemoteClaims
  <2>3. UNCHANGED <<published, expected, verified, touched>>
    BY <1>4 DEF RemoteRemoves, RemoteClaims, caches
  <2>4. /\ \A k \in Names \ {n} : remote'[k] = remote[k] /\ (k \in marked' <=> k \in marked)
        /\ n \in marked' => remote'[n] # None
    <3>1. CASE RemoteRemoves(n)
      BY <1>0, <3>1 DEF RemoteRemoves, TakenDown, ContentMaps
    <3>2. CASE RemoteClaims(n)
      BY <1>0, <3>2 DEF RemoteClaims, ContentMaps, Mixed, None
    <3> QED BY <1>4, <3>1, <3>2
  <2>5. CASE n # m
    BY <1>j, <2>2, <2>3, <2>4, <2>5, CachedUntouched
  <2>6. CASE n = m
    BY <2>1, <2>2, <2>3, <2>4, <2>6
    DEF Cached, Content, InHand, Sending, Removing, Claiming, Inventory
  <2> QED BY <2>5, <2>6
<1>5. CASE RemoteSyncs(n)
  <2>1. job.name = n /\ job.at = "sync" /\ job \in SiteJobs
    BY <1>5, OnSiteMeans, JobKinds DEF RemoteSyncs
  <2>2. job'.at = "synced" /\ job'.name = n /\ job'.snap = job.snap
    BY <1>5, SiteGoesOn DEF RemoteSyncs
  <2>3. /\ UNCHANGED <<published, expected, verified, marked>>
        /\ remote' = [remote EXCEPT ![n] = Content(job.snap)] /\ touched' = touched \ {n}
    BY <1>5 DEF RemoteSyncs, Sends, caches
  <2>4. CASE n # m
    BY <1>0, <1>j, <2>2, <2>3, <2>4, CachedUntouched DEF ContentMaps
  <2>5. CASE n = m
    <3>1. remote'[m] = Content(job.snap)
      BY <1>0, <2>3, <2>5 DEF ContentMaps
    <3>2. Content(job.snap) # None
      BY <2>1, <2>5, Contents DEF Tracked, InHand, Claiming, SiteJobs
    <3>3. (Agrees(m, job.snap))'
      BY <2>2, <3>1 DEF Agrees, Content
    <3> QED BY <2>1, <2>2, <2>3, <2>5, <3>1, <3>2, <3>3
            DEF Cached, Content, InHand, Sending, Removing, Claiming, Inventory
  <2> QED BY <2>4, <2>5
<1>6. CASE SyncRefused(n)
  <2>1. job'.at = "done"
    BY <1>6, JobIsDone DEF SyncRefused
  <2> QED BY <1>6, <1>j, <2>1, CachedUntouched DEF SyncRefused, caches, there
<1>7. CASE Synced(n)
  <2>1. job.name = n /\ job.at = "synced" /\ job'.at = "done"
    BY <1>7, OnSiteMeans, JobIsDone DEF Synced
  <2>2. /\ UNCHANGED <<remote, marked, touched>>
        /\ published' = [published EXCEPT ![n] = job.snap]
        /\ expected' = [expected EXCEPT ![n] = job.snap]
        /\ verified' = [verified EXCEPT ![n] = None]
    BY <1>7 DEF Synced, there
  <2>3. CASE n # m
    BY <1>0, <1>j, <2>1, <2>2, <2>3, CachedUntouched DEF VersionMaps, ContentMaps
  <2>4. CASE n = m
    <3>1. published'[m] = job.snap /\ expected'[m] = job.snap /\ verified'[m] = None
      BY <1>0, <2>2, <2>4 DEF VersionMaps, ContentMaps
    <3>2. Agrees(m, job.snap)
      BY <2>1, <2>4 DEF Cached, InHand
    <3>3. (Agrees(m, published[m]))'
      BY <2>2, <3>1, <3>2 DEF Agrees, Content
    <3> QED BY <2>1, <2>2, <3>1, <3>3
            DEF Cached, InHand, Sending, Removing, Claiming, Inventory
  <2> QED BY <2>3, <2>4
<1>8. CASE AuditScan(n)
  <2>1. job \in ListJobs /\ job.at = "audit"
    BY <1>8, JobKinds DEF AuditScan, ListSteps
  <2>2. /\ job'.at = "audit" /\ job'.asked \subseteq job.asked \cup {n}
        /\ n \in job'.asked /\ source[n] = None => n \in job.asked
    <3>1. \/ job' = [job EXCEPT !.left = @ \ {n}]
          \/ job' = [job EXCEPT !.left = @ \ {n}, !.asked = @ \cup {n}] /\ source[n] # None
      BY <1>8 DEF AuditScan
    <3> QED BY <2>1, <3>1 DEF ListJobs
  <2>3. UNCHANGED <<published, remote, marked, touched>>
    BY <1>8 DEF AuditScan, there
  <2>4. CASE source[n] = None
    BY <1>8, <2>1, <2>2, <2>3, <2>4
    DEF AuditScan, Cached, Agrees, Content, InHand, Sending, Removing, Claiming, Inventory
  <2>5. CASE source[n] # None
    <3>1. /\ expected' = [expected EXCEPT ![n] = source[n]]
          /\ verified' = [verified EXCEPT ![n] =
                             IF Content(source[n]) = Content(expected[n]) THEN @ ELSE None]
      BY <1>8, <2>5 DEF AuditScan
    <3>2. expected'[m] = (IF n = m THEN source[n] ELSE expected[m])
      BY <1>0, <3>1 DEF VersionMaps
    <3>3. verified'[m] = (IF n = m /\ Content(source[n]) # Content(expected[n])
                          THEN None ELSE verified[m])
      BY <1>0, <3>1 DEF ContentMaps
    <3>4. verified'[m] \in {None, Content(expected'[m])}
      BY <3>2, <3>3 DEF Cached
    <3>5. (verified[m] \in {None, Content(expected[m])})'
      BY <3>4 DEF Content
    <3>6. (published[m] # None => Agrees(m, published[m]))'
      BY <2>3 DEF Cached, Agrees, Content
    <3> QED BY <2>1, <2>2, <2>3, <2>5, <3>2, <3>5, <3>6
            DEF Cached, InHand, Sending, Removing, Claiming, Inventory
  <2> QED BY <2>4, <2>5
<1> QED BY <1>1, <1>2, <1>3, <1>4, <1>5, <1>6, <1>7, <1>8 DEF Works

LEMMA CachedAudits ==
    ASSUME PublisherTypeOK, NEW m \in Names, Cached(m), Audits
    PROVE  Cached(m)'
<1>0. /\ published \in VersionMaps /\ expected \in VersionMaps
      /\ remote \in ContentMaps /\ verified \in ContentMaps
  BY TypeParts DEF Typed
<1> USE DEF InHand, Sending, Removing, Claiming, Inventory
<1>1. CASE List
  <2>1. job \in ListJobs /\ job.at = "list"
    BY <1>1, JobKinds DEF List, ListSteps
  <2>2. job'.at = "audit" /\ job'.asked = job.asked
    BY <1>1, <2>1 DEF List, ListJobs
  <2>3. UNCHANGED <<published, expected, verified, remote, marked, touched>>
    BY <1>1 DEF List, caches, there
  <2>4. m \notin job.asked
    BY <2>1 DEF Cached
  <2> QED BY <2>1, <2>2, <2>3, <2>4 DEF Cached, Agrees, Content
<1>2. CASE AuditListed
  <2>1. job \in ListJobs /\ job.at = "audit"
    BY <1>2, JobKinds DEF AuditListed, ListSteps
  <2>2. job'.at = "ask" /\ job'.asked = job.asked
    BY <1>2, <2>1 DEF AuditListed, Goes, ListJobs
  <2>3. UNCHANGED <<remote, marked, touched>>
    BY <1>2 DEF AuditListed, there
  <2>4. /\ expected'[m] \in {expected[m], None}
        /\ verified'[m] \in {verified[m], None}
        /\ published'[m] \in {published[m], None}
        /\ expected'[m] = None => verified'[m] = None \/ expected'[m] = expected[m]
        /\ m \in job.asked => expected'[m] = expected[m]
    BY <1>2 DEF AuditListed, Only
  <2>5. verified'[m] \in {None, Content(expected'[m])}
    BY <2>4 DEF Cached
  <2>6. (verified[m] \in {None, Content(expected[m])})'
    BY <2>5 DEF Content
  <2>7. (published[m] # None => Agrees(m, published[m]))'
    BY <2>3, <2>4 DEF Cached, Agrees, Content
  <2> QED BY <2>1, <2>2, <2>3, <2>4, <2>6, <2>7 DEF Cached
<1>3. CASE RemoteAnswers
  <2>1. job \in ListJobs /\ job.at = "ask"
    BY <1>3, JobKinds DEF RemoteAnswers, ListSteps
  <2>2. /\ job'.at = "answered" /\ job'.asked = job.asked
        /\ job'.different = {n \in job.asked : Differs(n)}
        /\ touched' = touched \ (job.asked \ job'.different)
    BY <1>3, <2>1 DEF RemoteAnswers, ListJobs
  <2>3. UNCHANGED <<published, expected, verified, remote, marked>>
    BY <1>3 DEF RemoteAnswers, caches
  <2>4. CASE m \in job.asked /\ ~Differs(m)
    <3>1. remote[m] = Content(expected[m])
      BY <2>4 DEF Differs, Bound, Cached
    <3>2. remote[m] \notin {Mixed, None}
      BY <1>0, <2>1, <2>4, <3>1, Contents DEF Cached, VersionMaps
    <3>3. published[m] # None => remote[m] = Content(published[m])
      BY <3>2 DEF Cached, Agrees
    <3>4. (published[m] # None => Agrees(m, published[m]))' /\ Agrees(m, expected[m])'
      BY <2>3, <3>1, <3>3 DEF Agrees, Content
    <3> QED BY <2>1, <2>2, <2>3, <3>4 DEF Cached, Content
  <2>5. CASE ~(m \in job.asked /\ ~Differs(m))
    <3>1. m \in touched' <=> m \in touched
      BY <2>2, <2>5
    <3>2. m \notin job'.asked \ job'.different
      BY <2>2, <2>5
    <3> QED BY <2>1, <2>2, <2>3, <3>1, <3>2 DEF Cached, Agrees, Content
  <2> QED BY <2>4, <2>5
<1>4. CASE Answered
  <2>1. job \in AnsweredJobs /\ job.at = "answered"
    BY <1>4, JobKinds DEF Answered
  <2>2. job'.at = "done"
    BY <1>4 DEF Answered, Done
  <2>3. UNCHANGED <<expected, remote, marked, touched>>
    BY <1>4 DEF Answered, there
  <2>4. /\ published'[m] = IF m \notin job.asked THEN published[m]
                           ELSE IF m \in job.different THEN None ELSE expected[m]
        /\ verified'[m] \in {None, Content(expected[m]), verified[m]}
    BY <1>4 DEF Answered
  <2>5. published'[m] # None => Agrees(m, published'[m])
    BY <2>1, <2>4 DEF Cached
  <2>6. (published[m] # None => Agrees(m, published[m]))'
    BY <2>3, <2>5 DEF Agrees, Content
  <2> QED BY <2>1, <2>2, <2>3, <2>4, <2>6 DEF Cached, Content
<1> QED BY <1>1, <1>2, <1>3, <1>4 DEF Audits

LEMMA CachedStep ==
    ASSUME PublisherTypeOK, [PublisherNext]_publisherVars,
           NEW m \in Names, Tracked(m), Cached(m)
    PROVE  Cached(m)'
<1>0. remote \in ContentMaps
  BY TypeParts DEF Typed
<1> USE DEF Sending, Removing, Claiming, Inventory
<1>1. ASSUME NEW n \in Names, SubmitSite(n) PROVE Cached(m)'
  <2>1. job'.at = "look"
    BY <1>1 DEF SubmitSite
  <2> QED BY <1>1, <2>1, CachedUntouched DEF SubmitSite, caches, there
<1>2. ASSUME NEW n \in Names, NEW v \in Versions, Edit(n, v) PROVE Cached(m)'
  BY <1>2, CachedUntouched DEF Edit, caches
<1>3. ASSUME NEW n \in Names, SiteFails(n) PROVE Cached(m)'
  <2>1. job'.at = "done" /\ UNCHANGED <<published, expected, verified, marked, touched>>
    BY <1>3, JobIsDone DEF SiteFails, caches
  <2>2. CASE UNCHANGED remote
    BY <2>1, <2>2, CachedUntouched
  <2>3. CASE remote' = [remote EXCEPT ![n] = Mixed] /\ (OnSite(n, "sync") \/ OnSite(n, "remove"))
    <3>1. CASE n # m
      BY <1>0, <2>1, <2>3, <3>1, CachedUntouched DEF ContentMaps
    <3>2. CASE n = m
      <4>1. published[m] = None
        BY <2>3, <3>2, OnSiteMeans DEF Cached, InHand, SiteSteps, FailsAt
      <4>2. remote'[m] = Mixed
        BY <1>0, <2>3, <3>2 DEF ContentMaps
      <4> QED BY <2>1, <4>1, <4>2 DEF Cached, Content, InHand, Mixed, None
    <3> QED BY <3>1, <3>2
  <2> QED BY <1>3, <2>2, <2>3, OnSiteMeans DEF SiteFails, Sends, OnSite
<1>4. ASSUME NEW n \in Names, LateRemove(n) \/ LateClaim(n) \/ Touch(n) PROVE Cached(m)'
  <2>1. UNCHANGED <<published, expected, verified, job>> /\ touched' = touched \cup {n}
    BY <1>4 DEF LateRemove, LateClaim, Touch, caches
  <2>2. /\ \A k \in Names \ {n} : remote'[k] = remote[k] /\ (k \in marked' => k \in marked)
        /\ remote'[n] \in {remote[n], Mixed, None}
        /\ n \in marked' => n \in marked /\ remote'[n] \in {remote[n], Mixed}
    <3>1. CASE LateRemove(n)
      BY <1>0, <3>1 DEF LateRemove, TakenDown, ContentMaps
    <3>2. CASE LateClaim(n)
      BY <1>0, <3>2 DEF LateClaim, ContentMaps
    <3>3. CASE Touch(n)
      BY <1>0, <3>3 DEF Touch, TakenDown, Sends, ContentMaps
    <3> QED BY <1>4, <3>1, <3>2, <3>3
  <2>3. CASE n = m
    <3>1. m \in marked' => remote'[m] # None
      BY <2>2, <2>3 DEF Cached, Mixed, None
    <3> QED BY <2>1, <2>2, <2>3, <3>1, CachedTouched
  <2>4. CASE n # m
    BY <2>1, <2>2, <2>4, CachedUntouched
  <2> QED BY <2>3, <2>4
<1>5. ASSUME NEW n \in Names, AuditScanFails(n) PROVE Cached(m)'
  <2>1. job \in ListJobs /\ job.at = "audit"
    BY <1>5, JobKinds DEF AuditScanFails, ListSteps
  <2>2. job'.at = "audit" /\ job'.asked = job.asked
    BY <1>5, <2>1 DEF AuditScanFails, ListJobs
  <2>3. UNCHANGED <<published, expected, verified, remote, marked, touched>>
    BY <1>5 DEF AuditScanFails, caches, there
  <2> QED BY <2>1, <2>2, <2>3 DEF Cached, Agrees, Content, InHand
<1>6. CASE AuditFails
  <2>1. job'.at = "done"
    BY <1>6 DEF AuditFails, Done
  <2> QED BY <1>6, <2>1, CachedUntouched DEF AuditFails, caches, there
<1>7. CASE Crash
  <2>1. /\ job'.at = "idle" /\ published'[m] = None /\ verified'[m] = None
        /\ UNCHANGED <<remote, marked>>
    BY <1>7 DEF Crash, Idle, NoVersion, there
  <2> QED BY <2>1 DEF Cached, InHand
<1>8. CASE Observe \/ UNCHANGED publisherVars
  BY <1>8, CachedUntouched DEF Observe, caches, there, publisherVars
<1>9. CASE Complete
  <2>1. job'.at = "idle"
    BY <1>9 DEF Complete, Idle
  <2>2. UNCHANGED <<published, expected, verified, remote, marked, touched>>
    BY <1>9 DEF Complete, caches, there
  <2> QED BY <2>1, <2>2, CachedUntouched
<1>10. CASE SubmitAudit
  <2>1. /\ job'.at = "list" /\ job'.asked = {}
        /\ UNCHANGED <<published, expected, verified, remote, marked, touched>>
    BY <1>10 DEF SubmitAudit, caches, there
  <2> QED BY <2>1 DEF Cached, Agrees, Content, InHand
<1> QED BY <1>1, <1>2, <1>3, <1>4, <1>5, <1>6, <1>7, <1>8, <1>9, <1>10,
           CachedWorks, CachedAudits DEF PublisherNext, Environment

(* What the cache calls published is what the remote host has, unless      *)
(* others touched it.                                                      *)
THEOREM CacheTellsTheTruth == PublisherSpec => []CacheIsTrue
<1> DEFINE Inductive == PublisherTypeOK /\ \A n \in Names : Tracked(n) /\ Cached(n)
<1>1. PublisherInit => Inductive
  <2>1. PublisherInit => \A n \in Names : Tracked(n) /\ Cached(n)
    BY DEF PublisherInit, Tracked, Cached, InHand, Idle, NoVersion, Sending, Removing, Claiming,
           Inventory
  <2> QED BY <2>1, PublisherTypedAtFirst
<1>2. Inductive /\ [PublisherNext]_publisherVars => Inductive'
  BY TrackedStep, CachedStep, PublisherTypedStep
<1>3. Inductive => CacheIsTrue
  BY DEF Cached, Agrees, CacheIsTrue
<1> QED BY <1>1, <1>2, <1>3, PTL DEF PublisherSpec
-----------------------------------------------------------------------------
(* No change goes unseen. What a job has read of a site is compared with   *)
(* the tree: where they differ, something that outlives the job knows it.  *)
Noticed(n) == Queued(n) \/ lost \/ coverageLost \/ auditPending
Answering == {"ask", "answered"}

Seen(n) ==
    /\ n \in unwatched => n \in kernel \/ lost \/ coverageLost
    /\ published[n] # None => expected[n] # None
    /\ InHand(n, Sending) /\ job.snap # source[n] => Noticed(n)
    /\ job.at \in Inventory /\ n \in job.asked /\ expected[n] # source[n] => Noticed(n)
    /\ job.at \in Answering /\ n \notin job.asked \cup job.failed => published[n] = None
    /\ job.at = "done" /\ job.of = "audit" /\ job.failed => n \in skipped
    /\ job.at = "done" /\ job.of # "audit" => job.repairs = {}
    /\ published[n] \notin {None, source[n]} =>
          Queued(n) \/ Unscanned(n) \/ InventoryComes(n)

(* A step of another site's job.                                           *)
LEMMA SeenOther ==
    ASSUME PublisherTypeOK, NEW m \in Names, NEW n \in Names, n # m, Seen(m),
           UNCHANGED <<local, watcher, schedule>>,
           job.at \in SiteSteps, job.name = n,
           published'[m] = published[m], expected'[m] = expected[m],
           \/ job'.at \in SiteSteps /\ job'.name = n
           \/ job'.at = "done" /\ job'.of = n /\ job'.repairs = {}
    PROVE  Seen(m)'
<1> USE DEF SiteSteps, FailsAt
<1>1. UNCHANGED <<source, unwatched, kernel, lost, coverageLost, dirty, background, retry,
                  auditPending, skipped>>
  BY DEF local, watcher, schedule
<1>2. n # "audit"
  BY NamesAssumption
<1>3. published[m] \notin {None, source[m]} =>
         Queued(m) \/ lost \/ coverageLost \/ auditPending \/ m \in skipped
  BY OnSiteMeans DEF Seen, Unscanned, InventoryComes
<1>4. (published[m] \notin {None, source[m]} => Queued(m) \/ Unscanned(m) \/ InventoryComes(m))'
  BY <1>1, <1>3 DEF Queued, InventoryComes
<1> QED BY <1>1, <1>2, <1>4
        DEF Seen, Noticed, Queued, InHand, Sending, Removing, Claiming, Inventory, Answering

(* A step of the site's own job, once it has forgotten what was published. *)
LEMMA SeenOwn ==
    ASSUME NEW m \in Names, Seen(m),
           UNCHANGED <<local, watcher, schedule>>, published'[m] = None,
           \/ job'.at \in Sending /\ job'.snap = job.snap /\ InHand(m, Sending)
           \/ job'.at = "done" /\ job'.of = m /\ job'.repairs = {}
    PROVE  Seen(m)'
<1>1. UNCHANGED <<source, unwatched, kernel, lost, coverageLost, dirty, background, retry,
                  auditPending, skipped>>
  BY DEF local, watcher, schedule
<1>2. m # "audit"
  BY NamesAssumption
<1> QED BY <1>1, <1>2
        DEF Seen, Noticed, Queued, InHand, Sending, Removing, Claiming, Inventory, Answering

LEMMA SeenWorks ==
    ASSUME PublisherTypeOK, NEW m \in Names, Cached(m), Seen(m),
           NEW n \in Names, Works(n)
    PROVE  Seen(m)'
<1> USE DEF SiteSteps, FailsAt
<1>0. /\ published \in VersionMaps /\ expected \in VersionMaps /\ source \in VersionMaps
  BY TypeParts DEF Typed
<1>s. Sending = {"probe", "remove", "removed", "claim", "claimed", "sync", "synced"}
  BY DEF Sending, Removing, Claiming
<1>w. UNCHANGED <<local, watcher, schedule>>
  BY DEF Works, Look, ScanSite, Probed, RemoteRemoves, Removed, RemoteClaims, Claimed,
         RemoteSyncs, SyncRefused, Synced, AuditScan
<1>u. UNCHANGED <<source, unwatched, kernel, lost, coverageLost, dirty, background, retry,
                  auditPending, skipped>>
  BY <1>w DEF local, watcher, schedule
<1>n. n # "audit"
  BY NamesAssumption
<1>1. CASE Look(n)
  <2>1. job.name = n /\ job.at = "look" /\ UNCHANGED <<published, expected>>
    BY <1>1, OnSiteMeans DEF Look, caches
  <2>2. \/ OnSite(n, "scan")' /\ job'.at = "scan" /\ job'.name = n
        \/ job'.at = "done" /\ job'.of = n /\ job'.repairs = {} /\ source[n] = published[n]
    <3>1. CASE Goes("scan")
      BY <1>1, <3>1, SiteGoesOn DEF Look, OnSite, SiteJobs
    <3>2. CASE Done(n, FALSE, {}) /\ source[n] = published[n]
      BY <3>2, JobIsDone
    <3> QED BY <1>1, <3>1, <3>2 DEF Look
  <2>3. CASE n # m
    BY <1>w, <2>1, <2>2, <2>3, SeenOther
  <2>4. CASE n = m
    BY <1>u, <1>s, <1>n, <2>1, <2>2, <2>4
    DEF Seen, Unscanned, Noticed, Queued, InHand, Inventory, Answering
  <2> QED BY <2>3, <2>4
<1>2. CASE ScanSite(n)
  <2>1. job \in SiteJobs /\ job.name = n /\ job.at = "scan"
    BY <1>2, OnSiteMeans, JobKinds DEF ScanSite
  <2>2. \A k \in Names \ {n} : published'[k] = published[k]
    BY <1>0, <1>2 DEF ScanSite, VersionMaps
  <2>3. UNCHANGED expected
    BY <1>2 DEF ScanSite
  <2>4. \/ job'.at = "probe" /\ job'.name = n /\ job'.snap = source[n]
        \/ job'.at = "done" /\ job'.of = n /\ job'.repairs = {}
    <3>1. CASE Done(n, FALSE, {})
      BY <3>1, JobIsDone
    <3>2. CASE job' = [job EXCEPT !.at = "probe", !.snap = source[n]]
      BY <2>1, <3>2 DEF SiteJobs
    <3> QED BY <1>2, <3>1, <3>2 DEF ScanSite
  <2>5. published'[n] = None \/ (published'[n] = source[n] /\ published[n] # None)
    BY <1>0, <1>2 DEF ScanSite, VersionMaps, Unchanged
  <2>6. CASE n # m
    BY <1>w, <2>1, <2>2, <2>3, <2>4, <2>6, SeenOther
  <2>7. CASE n = m
    BY <1>u, <1>s, <1>n, <2>3, <2>4, <2>5, <2>7
    DEF Seen, Noticed, Queued, InHand, Inventory, Answering
  <2> QED BY <2>6, <2>7
<1>3. CASE Probed(n) \/ RemoteRemoves(n) \/ Removed(n) \/ RemoteClaims(n) \/ Claimed(n)
           \/ RemoteSyncs(n) \/ SyncRefused(n)
  <2> USE DEF Probed, RemoteRemoves, Removed, RemoteClaims, Claimed, RemoteSyncs, SyncRefused
  <2>1. job.name = n /\ job.at \in Sending
    BY <1>3, <1>s, OnSiteMeans
  <2>2. \/ job'.at \in Sending /\ job'.name = n /\ job'.snap = job.snap
        \/ job'.at = "done" /\ job'.of = n /\ job'.repairs = {}
    BY <1>3, <1>s, SiteGoesOn, JobIsDone
  <2>3. UNCHANGED <<published, expected>>
    BY <1>3 DEF caches
  <2> HIDE DEF Probed, RemoteRemoves, Removed, RemoteClaims, Claimed, RemoteSyncs, SyncRefused
  <2>4. CASE n # m
    BY <1>w, <1>s, <2>1, <2>2, <2>3, <2>4, SeenOther
  <2>5. CASE n = m
    <3>1. published[m] = None /\ InHand(m, Sending)
      BY <2>1, <2>5 DEF Cached, InHand
    <3> QED BY <1>w, <2>2, <2>3, <2>5, <3>1, SeenOwn
  <2> QED BY <2>4, <2>5
<1>4. CASE Synced(n)
  <2>1. job.name = n /\ job.at = "synced" /\ job \in SiteJobs
    BY <1>4, OnSiteMeans, JobKinds DEF Synced
  <2>2. job'.at = "done" /\ job'.of = n /\ job'.repairs = {}
    BY <1>4, JobIsDone DEF Synced
  <2>3. /\ published' = [published EXCEPT ![n] = job.snap]
        /\ expected' = [expected EXCEPT ![n] = job.snap]
    BY <1>4 DEF Synced
  <2>4. CASE n # m
    BY <1>0, <1>w, <2>1, <2>2, <2>3, <2>4, SeenOther DEF VersionMaps
  <2>5. CASE n = m
    <3>1. published'[m] = job.snap /\ expected'[m] = job.snap
      BY <1>0, <2>3, <2>5 DEF VersionMaps
    <3>2. job.snap # source[m] => Noticed(m)
      BY <1>s, <2>1, <2>5 DEF Seen, InHand
    <3> QED BY <1>u, <1>s, <1>n, <2>2, <2>5, <3>1, <3>2
            DEF Seen, Noticed, Queued, InventoryComes, InHand, Inventory, Answering
  <2> QED BY <2>4, <2>5
<1>5. CASE AuditScan(n)
  <2>1. job \in ListJobs /\ job.at = "audit" /\ UNCHANGED published
    BY <1>5, JobKinds DEF AuditScan, ListSteps
  <2>2. /\ job'.at = "audit"
        /\ \/ job'.asked = job.asked /\ UNCHANGED expected
           \/ job'.asked = job.asked \cup {n} /\ expected' = [expected EXCEPT ![n] = source[n]]
              /\ source[n] # None
    <3>1. \/ job' = [job EXCEPT !.left = @ \ {n}] /\ UNCHANGED expected
          \/ /\ job' = [job EXCEPT !.left = @ \ {n}, !.asked = @ \cup {n}]
             /\ expected' = [expected EXCEPT ![n] = source[n]] /\ source[n] # None
      BY <1>5 DEF AuditScan
    <3> QED BY <2>1, <3>1 DEF ListJobs
  <2>3. \/ expected'[m] = expected[m] /\ (m \in job'.asked <=> m \in job.asked)
        \/ expected'[m] = source[m] /\ m \in job'.asked /\ source[m] # None
    BY <1>0, <2>2 DEF VersionMaps
  <2>4. published[m] \notin {None, source[m]} =>
           \/ Queued(m) \/ lost \/ coverageLost \/ auditPending \/ m \in skipped
           \/ m \in job.asked => expected[m] = source[m]
    BY <2>1 DEF Seen, Unscanned, OnSite, InventoryComes
  <2>5. (published[m] \notin {None, source[m]} =>
           Queued(m) \/ Unscanned(m) \/ InventoryComes(m))'
    BY <1>u, <2>1, <2>2, <2>3, <2>4 DEF Queued, InventoryComes
  <2> QED BY <1>u, <1>s, <2>1, <2>2, <2>3, <2>5
          DEF Seen, Noticed, Queued, InHand, Inventory, Answering
<1> QED BY <1>1, <1>2, <1>3, <1>4, <1>5 DEF Works
LEMMA SeenAudits ==
    ASSUME PublisherTypeOK, NEW m \in Names, Cached(m), Seen(m), Audits
    PROVE  Seen(m)'
<1>0. published \in VersionMaps /\ expected \in VersionMaps /\ source \in VersionMaps
  BY TypeParts DEF Typed
<1>s. Sending = {"probe", "remove", "removed", "claim", "claimed", "sync", "synced"}
  BY DEF Sending, Removing, Claiming
<1>u. UNCHANGED <<source, unwatched, kernel, lost, coverageLost, dirty, background, retry,
                  auditPending>>
  BY DEF Audits, List, AuditListed, RemoteAnswers, Answered, local, watcher, schedule
<1>1. CASE List
  <2>1. job \in ListJobs /\ job.at = "list"
    BY <1>1, JobKinds DEF List, ListSteps
  <2>2. job'.at = "audit" /\ job'.asked = job.asked
    BY <1>1, <2>1 DEF List, ListJobs
  <2>3. UNCHANGED <<published, expected, skipped>> /\ m \notin job.asked
    BY <1>1, <2>1 DEF List, caches, schedule, Cached, Inventory
  <2>4. InventoryComes(m)'
    BY <2>2, <2>3 DEF InventoryComes
  <2> QED BY <1>u, <1>s, <2>1, <2>2, <2>3, <2>4
          DEF Seen, Noticed, Queued, InHand, Inventory, Answering
<1>2. CASE AuditListed
  <2>1. job \in ListJobs /\ job.at = "audit"
    BY <1>2, JobKinds DEF AuditListed, ListSteps
  <2>2. job'.at = "ask" /\ job'.asked = job.asked /\ job'.failed = job.failed
    BY <1>2, <2>1 DEF AuditListed, Goes, ListJobs
  <2>3. UNCHANGED skipped
    BY <1>2 DEF AuditListed, schedule
  <2>4. /\ m \in job.asked \cup job.failed =>
              expected'[m] = expected[m] /\ published'[m] = published[m]
        /\ m \notin job.asked \cup job.failed =>
              published'[m] = IF expected[m] # None THEN None ELSE published[m]
    BY <1>2 DEF AuditListed, Only
  <2>5. m \notin job.asked \cup job.failed => published'[m] = None
    BY <2>4 DEF Seen
  <2>6. published[m] \notin {None, source[m]} =>
           \/ Queued(m) \/ lost \/ coverageLost \/ auditPending \/ m \in skipped
           \/ m \in job.asked => expected[m] = source[m]
    BY <2>1 DEF Seen, Unscanned, OnSite, InventoryComes
  <2>7. (published[m] \notin {None, source[m]} =>
           Queued(m) \/ Unscanned(m) \/ InventoryComes(m))'
    BY <1>u, <2>2, <2>3, <2>4, <2>5, <2>6 DEF Queued, InventoryComes
  <2> QED BY <1>u, <1>s, <2>1, <2>2, <2>3, <2>4, <2>5, <2>7
          DEF Seen, Noticed, Queued, InHand, Inventory, Answering
<1>3. CASE RemoteAnswers
  <2>1. job \in ListJobs /\ job.at = "ask"
    BY <1>3, JobKinds DEF RemoteAnswers, ListSteps
  <2>2. job'.at = "answered" /\ job'.asked = job.asked /\ job'.failed = job.failed
    BY <1>3, <2>1 DEF RemoteAnswers, ListJobs
  <2>3. UNCHANGED <<published, expected, skipped>>
    BY <1>3 DEF RemoteAnswers, caches, schedule
  <2>4. published[m] \notin {None, source[m]} =>
           \/ Queued(m) \/ lost \/ coverageLost \/ auditPending \/ m \in skipped
           \/ m \in job.asked => expected[m] = source[m]
    BY <2>1 DEF Seen, Unscanned, OnSite, InventoryComes
  <2>5. (published[m] \notin {None, source[m]} =>
           Queued(m) \/ Unscanned(m) \/ InventoryComes(m))'
    BY <1>u, <2>2, <2>3, <2>4 DEF Queued, InventoryComes
  <2> QED BY <1>u, <1>s, <2>1, <2>2, <2>3, <2>5
          DEF Seen, Noticed, Queued, InHand, Inventory, Answering
<1>4. CASE Answered
  <2>1. job \in AnsweredJobs /\ job.at = "answered"
    BY <1>4, JobKinds DEF Answered
  <2>2. job'.at = "done" /\ job'.of = "audit" /\ ~job'.failed /\ UNCHANGED expected
    BY <1>4 DEF Answered, Done
  <2>3. /\ skipped' = job.failed
        /\ published'[m] = IF m \notin job.asked THEN published[m]
                           ELSE IF m \in job.different THEN None ELSE expected[m]
    BY <1>4 DEF Answered
  <2>4. CASE m \in job.asked
    <3>1. published'[m] \notin {None, source[m]} => Noticed(m)
      BY <2>1, <2>3, <2>4 DEF Seen, Inventory
    <3>2. (published[m] \notin {None, source[m]} =>
             Queued(m) \/ Unscanned(m) \/ InventoryComes(m))'
      BY <1>u, <3>1 DEF Noticed, Queued, InventoryComes
    <3>3. expected[m] # None
      BY <2>1, <2>4 DEF Cached, Inventory
    <3> QED BY <1>u, <1>s, <2>1, <2>2, <2>3, <2>4, <3>2, <3>3
            DEF Seen, Queued, InHand, Inventory, Answering
  <2>5. CASE m \notin job.asked
    <3>1. m \notin job.failed => published[m] = None
      BY <2>1, <2>5 DEF Seen, Answering
    <3>2. (published[m] \notin {None, source[m]} =>
             Queued(m) \/ Unscanned(m) \/ InventoryComes(m))'
      BY <1>u, <2>3, <2>5, <3>1 DEF InventoryComes
    <3> QED BY <1>u, <1>s, <2>1, <2>2, <2>3, <2>5, <3>2
            DEF Seen, Queued, InHand, Inventory, Answering
  <2> QED BY <2>4, <2>5
<1> QED BY <1>1, <1>2, <1>3, <1>4 DEF Audits

(* A change of the tree is noticed, by the kernel or by its overflow.      *)
LEMMA EditNoticed ==
    ASSUME PublisherTypeOK, NEW n \in Names, NEW v \in Versions, Edit(n, v),
           NEW m \in Names, Seen(m)
    PROVE  /\ source'[m] # source[m] => m \in kernel' \/ lost' \/ coverageLost'
           /\ m \in kernel => m \in kernel' \/ lost'
           /\ lost => lost'
           /\ m \in unwatched' => m \in kernel' \/ lost' \/ coverageLost'
<1>1. source \in VersionMaps
  BY TypeParts DEF Typed
<1>2. PICK new \in {v, None} :
        /\ source' = [source EXCEPT ![n] = new]
        /\ \/ /\ unwatched' \subseteq unwatched \cup {n}
              /\ \/ kernel' = kernel \cup {n} /\ lost' = lost
                 \/ kernel' = {} /\ lost' = TRUE
           \/ n \in unwatched /\ UNCHANGED <<unwatched, kernel, lost>>
  BY <1>1 DEF Edit, Reported, Overflows
<1>3. UNCHANGED coverageLost
  BY DEF Edit
<1>4. source'[m] # source[m] => m = n
  BY <1>1, <1>2 DEF VersionMaps
<1> QED BY <1>2, <1>3, <1>4 DEF Seen

LEMMA SeenStep ==
    ASSUME PublisherTypeOK, [PublisherNext]_publisherVars,
           NEW m \in Names, Cached(m), Seen(m)
    PROVE  Seen(m)'
<1>s. Sending = {"probe", "remove", "removed", "claim", "claimed", "sync", "synced"}
  BY DEF Sending, Removing, Claiming
<1>n. \A n \in Names : n # "audit"
  BY NamesAssumption
<1>1. ASSUME NEW n \in Names, SubmitSite(n) PROVE Seen(m)'
  <2>1. /\ job'.at = "look" /\ OnSite(n, "look")' /\ job = Idle
        /\ UNCHANGED <<retry, auditPending, skipped, published, expected>>
        /\ UNCHANGED <<source, unwatched, kernel, lost, coverageLost>>
    BY <1>1 DEF SubmitSite, OnSite, local, watcher, caches
  <2>2. n # m => (m \in dirty => m \in dirty') /\ (m \in background => m \in background')
    BY <1>1 DEF SubmitSite, Take
  <2>3. published[m] \notin {None, source[m]} =>
           Queued(m) \/ lost \/ coverageLost \/ auditPending \/ m \in skipped
    BY <2>1 DEF Seen, Unscanned, OnSite, InventoryComes, Idle
  <2>4. (published[m] \notin {None, source[m]} =>
           Queued(m) \/ Unscanned(m) \/ InventoryComes(m))'
    BY <2>1, <2>2, <2>3 DEF Queued, Unscanned, InventoryComes
  <2> QED BY <1>s, <2>1, <2>4 DEF Seen, InHand, Inventory, Answering
<1>2. ASSUME NEW n \in Names, NEW v \in Versions, Edit(n, v) PROVE Seen(m)'
  <2>1. /\ source'[m] # source[m] => m \in kernel' \/ lost' \/ coverageLost'
        /\ m \in kernel => m \in kernel' \/ lost'
        /\ lost => lost'
        /\ m \in unwatched' => m \in kernel' \/ lost' \/ coverageLost'
    BY <1>2, EditNoticed
  <2>2. UNCHANGED <<coverageLost, dirty, background, retry, auditPending, skipped,
                    job, published, expected>>
    BY <1>2 DEF Edit, schedule, caches
  <2>3. (published[m] \notin {None, source[m]} =>
           Queued(m) \/ Unscanned(m) \/ InventoryComes(m))'
    BY <2>1, <2>2 DEF Seen, Queued, Unscanned, OnSite, InventoryComes
  <2> QED BY <2>1, <2>2, <2>3 DEF Seen, Noticed, Queued, InHand
<1>3. ASSUME NEW n \in Names, SiteFails(n) PROVE Seen(m)'
  <2>1. job'.at = "done" /\ job'.of = n /\ job'.repairs = {} /\ job'.failed
    BY <1>3, JobIsDone DEF SiteFails
  <2>2. job.name = n /\ job.at \in SiteSteps
    BY <1>3, OnSiteMeans DEF SiteFails, SiteSteps
  <2>3. UNCHANGED <<local, watcher, schedule>> /\ UNCHANGED <<published, expected>>
    BY <1>3 DEF SiteFails, caches
  <2>4. CASE n # m
    BY <2>1, <2>2, <2>3, <2>4, SeenOther
  <2>5. CASE n = m
    <3>1. InventoryComes(m)'
      BY <2>1, <2>5 DEF InventoryComes
    <3> QED BY <1>s, <1>n, <2>1, <2>3, <2>5, <3>1
            DEF Seen, InHand, Inventory, Answering, local, watcher
  <2> QED BY <2>4, <2>5
<1>4. ASSUME NEW n \in Names, AuditScanFails(n) PROVE Seen(m)'
  <2>1. job \in ListJobs /\ job.at = "audit"
    BY <1>4, JobKinds DEF AuditScanFails, ListSteps
  <2>2. job'.at = "audit" /\ job'.asked = job.asked
    BY <1>4, <2>1 DEF AuditScanFails, ListJobs
  <2>3. UNCHANGED <<source, unwatched, kernel, lost, coverageLost, dirty, background, retry,
                    auditPending, skipped, published, expected>>
    BY <1>4 DEF AuditScanFails, local, watcher, schedule, caches
  <2>4. (published[m] \notin {None, source[m]} =>
           Queued(m) \/ Unscanned(m) \/ InventoryComes(m))'
    BY <2>1, <2>2, <2>3 DEF Seen, Unscanned, OnSite, InventoryComes, Queued
  <2> QED BY <1>s, <2>1, <2>2, <2>3, <2>4
          DEF Seen, Noticed, Queued, InHand, Inventory, Answering
<1>5. CASE AuditFails
  <2>1. /\ job'.at = "done" /\ job'.of = "audit" /\ m \in skipped'
        /\ UNCHANGED <<source, unwatched, kernel, lost, coverageLost, published, expected>>
    BY <1>5 DEF AuditFails, Done, local, watcher, caches
  <2> QED BY <1>s, <2>1 DEF Seen, InventoryComes, InHand, Inventory, Answering
<1>6. CASE Crash
  <2>1. job'.at = "idle" /\ published'[m] = None /\ unwatched' = {}
    BY <1>6 DEF Crash, Idle, NoVersion
  <2> QED BY <1>s, <2>1 DEF Seen, InHand, Inventory, Answering
<1>7. ASSUME NEW n \in Names, LateRemove(n) \/ LateClaim(n) \/ Touch(n) \/ UNCHANGED publisherVars
      PROVE  Seen(m)'
  <2>1. UNCHANGED <<source, unwatched, kernel, lost, coverageLost, dirty, background, retry,
                    auditPending, skipped, published, expected, job>>
    BY <1>7 DEF LateRemove, LateClaim, Touch, publisherVars, local, watcher, schedule, caches
  <2> QED BY <2>1
          DEF Seen, Noticed, Queued, InHand, Unscanned, OnSite, InventoryComes
<1>8. CASE Observe
  <2>1. /\ kernel' = {} /\ lost' = FALSE
        /\ dirty' = dirty \cup kernel /\ background' = background \ kernel
        /\ UNCHANGED <<source, retry, skipped, published, expected, job>>
    BY <1>8 DEF Observe, caches
  <2>2. lost \/ coverageLost \/ auditPending => auditPending' \/ coverageLost'
    BY <1>8 DEF Observe, OverflowAfter, Rebuilt, NotRebuilt
  <2>3. m \in unwatched' => coverageLost'
    BY <1>8 DEF Observe, NeedsRebuild, Rebuilt, NotRebuilt, Seen
  <2>4. Queued(m) => Queued(m)'
    BY <2>1 DEF Queued
  <2>5. Noticed(m) => Noticed(m)'
    BY <2>2, <2>4 DEF Noticed
  <2>6. (published[m] \notin {None, source[m]} =>
           Queued(m) \/ Unscanned(m) \/ InventoryComes(m))'
    BY <2>1, <2>2, <2>4 DEF Seen, Unscanned, OnSite, InventoryComes
  <2> QED BY <2>1, <2>3, <2>5, <2>6 DEF Seen, InHand
<1>9. CASE Complete
  <2>1. /\ job.at = "done" /\ job'.at = "idle"
        /\ UNCHANGED <<dirty, auditPending, skipped>>
        /\ UNCHANGED <<source, unwatched, kernel, lost, coverageLost, published, expected>>
    BY <1>9 DEF Complete, Idle, local, watcher, caches
  <2>2. job \in DoneJobs
    BY <2>1, JobKinds
  <2>3. Queued(m) \/ (job.of = m /\ job.failed)
           \/ (job.of = "audit" /\ ~job.failed /\ m \in job.repairs)
        => Queued(m)'
    <3>1. CASE job.of # "audit"
      <4>1. /\ retry' = IF job.failed THEN retry \cup {job.of} ELSE retry
            /\ UNCHANGED background
        BY <1>9, <3>1 DEF Complete
      <4> QED BY <2>1, <3>1, <4>1 DEF Queued
    <3>2. CASE job.of = "audit" /\ job.failed
      <4>1. UNCHANGED <<background, retry>>
        BY <1>9, <3>2 DEF Complete
      <4> QED BY <1>n, <2>1, <3>2, <4>1 DEF Queued
    <3>3. CASE job.of = "audit" /\ ~job.failed
      <4>1. background' = background \cup ((job.repairs \cup retry) \ dirty)
        BY <1>9, <3>3 DEF Complete, ToRepair
      <4> QED BY <1>n, <2>1, <3>3, <4>1 DEF Queued
    <3> QED BY <2>2, <3>1, <3>2, <3>3 DEF DoneJobs
  <2>4. published[m] \notin {None, source[m]} =>
           \/ Queued(m) \/ lost \/ coverageLost \/ auditPending \/ m \in skipped
           \/ job.of \in {m, "audit"} /\ (job.failed \/ m \in job.repairs)
    BY <2>1 DEF Seen, Unscanned, OnSite, InventoryComes
  <2>5. published[m] \notin {None, source[m]} =>
           Queued(m)' \/ lost \/ coverageLost \/ auditPending \/ m \in skipped
    BY <1>n, <2>1, <2>2, <2>3, <2>4 DEF Seen, DoneJobs
  <2>6. (published[m] \notin {None, source[m]} =>
           Queued(m) \/ Unscanned(m) \/ InventoryComes(m))'
    BY <2>1, <2>5 DEF InventoryComes
  <2> QED BY <1>s, <2>1, <2>6 DEF Seen, InHand, Inventory, Answering
<1>10. CASE SubmitAudit
  <2>1. /\ job'.at = "list" /\ job'.asked = {}
        /\ UNCHANGED <<source, unwatched, kernel, lost, coverageLost, published, expected>>
    BY <1>10 DEF SubmitAudit, local, watcher, caches
  <2>2. InventoryComes(m)'
    BY <2>1 DEF InventoryComes
  <2> QED BY <1>s, <2>1, <2>2 DEF Seen, InHand, Inventory, Answering
<1> QED BY <1>1, <1>2, <1>3, <1>4, <1>5, <1>6, <1>7, <1>8, <1>9, <1>10,
           SeenWorks, SeenAudits DEF PublisherNext, Environment

(* Where the cache is behind the tree, something is about to look.         *)
THEOREM NoChangeGoesUnseen == PublisherSpec => []ChangesAreSeen
<1> DEFINE Inductive == PublisherTypeOK /\ \A n \in Names : Tracked(n) /\ Cached(n) /\ Seen(n)
<1>1. PublisherInit => Inductive
  <2>1. PublisherInit => \A n \in Names : Tracked(n) /\ Cached(n) /\ Seen(n)
    BY DEF PublisherInit, Tracked, Cached, Seen, InHand, Idle, NoVersion, Sending, Removing,
           Claiming, Inventory, Answering
  <2> QED BY <2>1, PublisherTypedAtFirst
<1>2. Inductive /\ [PublisherNext]_publisherVars => Inductive'
  BY TrackedStep, CachedStep, SeenStep, PublisherTypedStep
<1>3. Inductive => ChangesAreSeen
  BY DEF Seen, ChangesAreSeen
<1> QED BY <1>1, <1>2, <1>3, PTL DEF PublisherSpec
=============================================================================
