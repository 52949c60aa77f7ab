-------------------------- MODULE RoomIntakeProofs --------------------------
(***************************************************************************)
(* What the intake of messages never does, for any rooms, messages and     *)
(* authors: answer a message twice, queue talk behind work, or begin what  *)
(* "!stop" has found.                                                      *)
(***************************************************************************)
EXTENDS RoomIntake, TLAPS

(* The places a message does not leave any more.                           *)
Out == {"handed", "ignored", "off"}

(* A message that waits is fresh: it was handed on, it was neither begun   *)
(* nor stopped, and it waits in its own room.                              *)
Fresh(r, m) == /\ RoomOf[m] = r /\ at[m] = "handed"
               /\ m \notin begun /\ m \notin stopped

LinesFresh == \A r \in Rooms : \A m \in waiting[r] : Fresh(r, m)

(* What a bucket will hand on is fresh and waits nowhere else; the newest  *)
(* line it has seen is out of on_message.                                  *)
BucketFresh(r) ==
    /\ bucket[r].earned = None => bucket[r].latest = None
    /\ bucket[r].earned # None => /\ Fresh(r, bucket[r].earned)
                                  /\ bucket[r].earned \notin waiting[r]
    /\ bucket[r].latest # None => /\ RoomOf[bucket[r].latest] = r
                                  /\ at[bucket[r].latest] \in Out
                                  /\ bucket[r].latest \notin waiting[r]
BucketsFresh == \A r \in Rooms : BucketFresh(r)

MarksOut == /\ \A m \in begun : at[m] = "handed"
            /\ \A m \in stopped : at[m] \in Out
            /\ \A r \in Rooms : answering[r] \subseteq begun

Inv == TypeOK /\ LinesFresh /\ BucketsFresh /\ MarksOut
-----------------------------------------------------------------------------
LEMMA InitInv == Init => Inv
<1> SUFFICES ASSUME Init PROVE Inv
  OBVIOUS
<1>1. TypeOK
  BY DEF Init, Line!Init, TypeOK, Places, NoBucket
<1>2. LinesFresh /\ BucketsFresh /\ MarksOut
  BY DEF Init, Line!Init, LinesFresh, BucketsFresh, BucketFresh, MarksOut, NoBucket
<1> QED
  BY <1>1, <1>2 DEF Inv

(* A step of on_message before its end moves one message that is not out.  *)
LEMMA MoveKeeps ==
    ASSUME Inv, NEW m \in Messages, NEW p \in Places, at[m] \notin Out, Move(m, p),
           UNCHANGED <<lineVars, turnVars, hushed, stopped, bucket>>,
           lock' \in [Rooms -> Messages \cup {None}],
           halts' \in [Messages -> Messages \cup {None}]
    PROVE  Inv'
<1> USE DEF lineVars, turnVars, Move
<1>1. /\ at' \in [Messages -> Places] /\ at'[m] = p
      /\ \A n \in Messages \ {m} : at'[n] = at[n]
  BY DEF Inv, TypeOK
<1>2. TypeOK'
  BY <1>1 DEF Inv, TypeOK
<1>3. \A n \in Messages : at[n] \in Out => at'[n] = at[n]
  BY <1>1
<1>4. LinesFresh'
  BY <1>3 DEF Inv, TypeOK, LinesFresh, Fresh, Out
<1>5. BucketsFresh'
  BY <1>3 DEF Inv, TypeOK, BucketsFresh, BucketFresh, Fresh, Out
<1>6. MarksOut'
  BY <1>3 DEF Inv, TypeOK, MarksOut, Out
<1> QED
  BY <1>2, <1>4, <1>5, <1>6 DEF Inv

(* The end of on_message for a message that is in no line and no bucket.   *)
LEMMA LeaveKeeps ==
    ASSUME Inv, NEW m \in Messages, Leave(m)
    PROVE  Inv'
<1> USE IntakeAssumption
<1> DEFINE r == RoomOf[m]
<1>1. /\ r \in Rooms /\ at[m] = "leaving" /\ m # None
      /\ m \notin begun /\ m \notin stopped
      /\ UNCHANGED <<turnVars, stopVars, lock>>
  BY DEF Inv, MarksOut, Leave, Out
<1>2. \A s \in Rooms : /\ m \notin waiting[s] /\ m # bucket[s].earned
                       /\ m # bucket[s].latest
  BY <1>1 DEF Inv, LinesFresh, BucketsFresh, BucketFresh, Fresh, Out
<1>3. PICK p \in Out : Move(m, p)
  BY DEF Leave, HandDirect, HandTalk, IgnoreTalk, SwitchedOff, Out
<1>4. /\ at' \in [Messages -> Places] /\ at'[m] = p
      /\ \A n \in Messages \ {m} : at'[n] = at[n]
  BY <1>3 DEF Inv, TypeOK, Move, Places, Out
<1>5. /\ UNCHANGED <<answering, isOpen>>
      /\ waiting' \in [Rooms -> SUBSET Messages]
      /\ \A s \in Rooms : waiting'[s] \subseteq waiting[s] \cup {m}
      /\ \A s \in Rooms \ {r} : waiting'[s] = waiting[s]
      /\ m \in waiting'[r] => p = "handed" /\ bucket' = Emptied(r)
  <2>1. CASE HandDirect(m)
    <3>1. PICK gone \in SUBSET waiting[r] :
             waiting' = [waiting EXCEPT ![r] = (@ \ gone) \cup {m}]
      BY <2>1 DEF HandDirect, Line!Join
    <3>2. p = "handed"
      BY <1>4, <2>1 DEF HandDirect, Move, Inv, TypeOK
    <3> QED
      BY <2>1, <3>1, <3>2 DEF HandDirect, Line!Join, Inv, TypeOK
  <2>2. CASE UNCHANGED lineVars
    BY <1>2, <2>2 DEF lineVars, Inv, TypeOK
  <2> QED
    BY <2>1, <2>2 DEF Leave, HandTalk, IgnoreTalk, SwitchedOff
<1>6. /\ bucket' \in [Rooms -> [latest : Messages \cup {None}, earned : Messages \cup {None}]]
      /\ \A s \in Rooms \ {r} : bucket'[s] = bucket[s]
      /\ \/ bucket'[r] = bucket[r]
         \/ bucket'[r] = NoBucket
         \/ bucket'[r] = [latest |-> m, earned |-> m] /\ p = "handed"
         \/ /\ bucket[r].earned # None
            /\ bucket'[r].latest = m /\ bucket'[r].earned = bucket[r].earned
  <2>1. bucket[r] \in [latest : Messages \cup {None}, earned : Messages \cup {None}]
    BY <1>1 DEF Inv, TypeOK
  <2>2. bucket[r] # NoBucket => bucket[r].earned # None
    BY <1>1, <2>1 DEF Inv, BucketsFresh, BucketFresh, NoBucket
  <2>3. CASE bucket' = bucket
    BY <2>3 DEF Inv, TypeOK
  <2>4. CASE bucket' = Emptied(r)
    BY <1>1, <2>4 DEF Emptied, NoBucket, Inv, TypeOK
  <2>5. CASE bucket' = Bucketed(r, m, TRUE) /\ HandTalk(m)
    <3>1. p = "handed"
      BY <1>4, <2>5 DEF HandTalk, Move, Inv, TypeOK
    <3>2. bucket' = [bucket EXCEPT ![r] = [latest |-> m, earned |-> m]]
      BY <2>5 DEF Bucketed
    <3> QED
      BY <1>1, <3>1, <3>2 DEF Inv, TypeOK
  <2>6. CASE bucket' = Bucketed(r, m, FALSE) /\ bucket[r] # NoBucket
    <3>1. bucket' = [bucket EXCEPT ![r].latest = m]
      BY <2>6 DEF Bucketed
    <3>2. bucket' = [bucket EXCEPT ![r] = [bucket[r] EXCEPT !.latest = m]]
      BY <3>1
    <3> DEFINE b == [bucket[r] EXCEPT !.latest = m]
    <3>3. /\ b.latest = m /\ b.earned = bucket[r].earned
          /\ b \in [latest : Messages \cup {None}, earned : Messages \cup {None}]
      BY <2>1
    <3>4. bucket' = [bucket EXCEPT ![r] = b]
      BY <3>2
    <3> HIDE DEF b
    <3>5. bucket \in [Rooms -> [latest : Messages \cup {None}, earned : Messages \cup {None}]]
      BY DEF Inv, TypeOK
    <3>6. bucket'[r] = b /\ \A s \in Rooms \ {r} : bucket'[s] = bucket[s]
      BY <1>1, <3>4, <3>5
    <3>7. bucket' \in [Rooms -> [latest : Messages \cup {None}, earned : Messages \cup {None}]]
      BY <1>1, <3>3, <3>4, <3>5
    <3> QED
      BY <2>2, <2>6, <3>3, <3>6, <3>7
  <2>7. Bucketed(r, m, FALSE) = bucket \/ bucket[r] # NoBucket
    BY DEF Bucketed
  <2> QED
    BY <2>3, <2>4, <2>5, <2>6, <2>7 DEF Leave, HandDirect, HandTalk, IgnoreTalk, SwitchedOff
<1>7. TypeOK'
  BY <1>1, <1>4, <1>5, <1>6 DEF Inv, TypeOK, turnVars, stopVars
<1>8. MarksOut'
  BY <1>1, <1>3, <1>4, <1>5 DEF Inv, TypeOK, MarksOut, turnVars, stopVars
<1>9. /\ begun' = begun /\ stopped' = stopped
      /\ \A n \in Messages : at[n] \in Out => at'[n] = at[n]
  BY <1>1, <1>4 DEF turnVars, stopVars, Out
<1>10. LinesFresh'
  <2> SUFFICES ASSUME NEW s \in Rooms, NEW n \in waiting'[s] PROVE Fresh(s, n)'
    BY DEF LinesFresh
  <2>1. n \in waiting[s] \/ (n = m /\ s = r /\ p = "handed")
    BY <1>2, <1>5
  <2>2. CASE n \in waiting[s]
    BY <1>9, <2>2 DEF Inv, TypeOK, LinesFresh, Fresh, Out
  <2>3. CASE n = m /\ s = r /\ p = "handed"
    BY <1>1, <1>4, <1>9, <2>3 DEF Fresh
  <2> QED
    BY <2>1, <2>2, <2>3
<1>11. BucketsFresh'
  <2> SUFFICES ASSUME NEW s \in Rooms PROVE BucketFresh(s)'
    BY DEF BucketsFresh
  <2>1. BucketFresh(s)
    BY DEF Inv, BucketsFresh
  <2>2. bucket[s].earned \in Messages \cup {None} /\ bucket[s].latest \in Messages \cup {None}
    BY DEF Inv, TypeOK
  <2>3. CASE bucket'[s] = bucket[s]
    BY <1>2, <1>5, <1>9, <2>1, <2>2, <2>3 DEF BucketFresh, Fresh, Out
  <2>4. CASE bucket'[s] = NoBucket
    BY <2>4 DEF BucketFresh, NoBucket
  <2>5. CASE s = r /\ bucket'[r] = [latest |-> m, earned |-> m] /\ p = "handed"
    <3>1. m \notin waiting'[r]
      BY <1>1, <1>5, <2>5, <1>6 DEF Emptied, NoBucket, Inv, TypeOK
    <3> QED
      BY <1>1, <1>4, <1>9, <2>5, <3>1 DEF BucketFresh, Fresh, Out
  <2>6. CASE /\ s = r /\ bucket[r].earned # None
             /\ bucket'[r].latest = m /\ bucket'[r].earned = bucket[r].earned
    <3>1. m \notin waiting'[r]
      BY <1>1, <1>5, <2>6 DEF Emptied, NoBucket, Inv, TypeOK
    <3> QED
      BY <1>1, <1>2, <1>3, <1>4, <1>5, <1>9, <2>1, <2>2, <2>6, <3>1 DEF BucketFresh, Fresh, Out
  <2> QED
    BY <1>6, <2>3, <2>4, <2>5, <2>6
<1> QED
  BY <1>7, <1>8, <1>10, <1>11 DEF Inv

(* The timer of a bucket, and the turns.                                   *)
LEMMA TimerKeeps ==
    ASSUME Inv, NEW r \in Rooms, Flush(r)
    PROVE  Inv'
<1> USE IntakeAssumption
<1> DEFINE m == bucket[r].earned
<1>1. /\ bucket[r] \in [latest : Messages \cup {None}, earned : Messages \cup {None}]
      /\ bucket[r] # NoBucket /\ bucket' = [bucket EXCEPT ![r] = NoBucket]
      /\ UNCHANGED <<turnVars, stopVars, at, lock, answering, isOpen>>
  BY DEF Flush, Popped, Emptied, Line!Join, lineVars, Inv, TypeOK
<1>2. m \in Messages /\ Fresh(r, m) /\ m \notin waiting[r]
  BY <1>1 DEF Inv, BucketsFresh, BucketFresh, NoBucket
<1>3. /\ waiting' \in [Rooms -> SUBSET Messages]
      /\ \A s \in Rooms : waiting'[s] \subseteq waiting[s] \cup {m}
      /\ \A s \in Rooms \ {r} : waiting'[s] = waiting[s]
  <2>1. CASE Line!Join(r, m)
    <3>1. PICK gone \in SUBSET waiting[r] :
             waiting' = [waiting EXCEPT ![r] = (@ \ gone) \cup {m}]
      BY <2>1 DEF Line!Join
    <3> QED
      BY <1>2, <3>1 DEF Inv, TypeOK
  <2>2. CASE UNCHANGED lineVars
    BY <2>2 DEF lineVars, Inv, TypeOK
  <2> QED
    BY <2>1, <2>2 DEF Flush
<1>4. TypeOK'
  BY <1>1, <1>3 DEF Inv, TypeOK, NoBucket, turnVars, stopVars
<1>5. LinesFresh'
  BY <1>1, <1>2, <1>3 DEF Inv, LinesFresh, Fresh, turnVars, stopVars
<1>6. BucketsFresh'
  <2> SUFFICES ASSUME NEW s \in Rooms PROVE BucketFresh(s)'
    BY DEF BucketsFresh
  <2>1. CASE s = r
    BY <1>1, <2>1 DEF BucketFresh, NoBucket, Inv, TypeOK
  <2>2. CASE s # r
    <3>1. bucket'[s] = bucket[s] /\ waiting'[s] = waiting[s]
      BY <1>1, <1>3, <2>2 DEF Inv, TypeOK
    <3> QED
      BY <1>1, <3>1 DEF BucketFresh, Fresh, Inv, BucketsFresh, turnVars, stopVars
  <2> QED
    BY <2>1, <2>2
<1>7. MarksOut'
  BY <1>1 DEF Inv, MarksOut, turnVars, stopVars
<1> QED
  BY <1>4, <1>5, <1>6, <1>7 DEF Inv

LEMMA BeginKeeps ==
    ASSUME Inv, NEW r \in Rooms, NEW m \in Messages, Begin(r, m)
    PROVE  Inv'
<1> USE IntakeAssumption
<1>1. /\ m \in waiting[r] /\ begun' = begun \cup {m}
      /\ waiting' = [waiting EXCEPT ![r] = @ \ {m}]
      /\ answering' = [answering EXCEPT ![r] = {m}]
      /\ UNCHANGED <<isOpen, working, replying, stopVars, at, lock, bucket>>
  BY DEF Begin, Line!Begin
<1>2. Fresh(r, m)
  BY <1>1 DEF Inv, LinesFresh
<1>3. /\ waiting' \in [Rooms -> SUBSET Messages]
      /\ waiting'[r] = waiting[r] \ {m}
      /\ \A s \in Rooms \ {r} : waiting'[s] = waiting[s]
  BY <1>1 DEF Inv, TypeOK
<1>4. TypeOK'
  BY <1>1, <1>3 DEF Inv, TypeOK, stopVars
<1>5. LinesFresh'
  BY <1>1, <1>2, <1>3 DEF Inv, LinesFresh, Fresh, stopVars
<1>6. BucketsFresh'
  <2> SUFFICES ASSUME NEW s \in Rooms PROVE BucketFresh(s)'
    BY DEF BucketsFresh
  <2>1. BucketFresh(s) /\ waiting'[s] \subseteq waiting[s] /\ bucket'[s] = bucket[s]
    BY <1>1, <1>3 DEF Inv, BucketsFresh
  <2>2. bucket[s].earned # m
    BY <1>1, <1>2, <2>1 DEF BucketFresh, Fresh
  <2> QED
    BY <1>1, <2>1, <2>2 DEF BucketFresh, Fresh, stopVars
<1>7. MarksOut'
  BY <1>1, <1>2 DEF Inv, TypeOK, MarksOut, Fresh, stopVars
<1> QED
  BY <1>4, <1>5, <1>6, <1>7 DEF Inv

(* What a turn does after its beginning, and lines that grow too old.      *)
LEMMA TurnKeeps ==
    ASSUME Inv, NEW r \in Rooms, Prepare(r) \/ Work(r) \/ End(r) \/ Expire(r)
    PROVE  Inv'
<1>1. /\ waiting' \in [Rooms -> SUBSET Messages]
      /\ \A s \in Rooms : waiting'[s] \subseteq waiting[s]
      /\ answering' \in [Rooms -> SUBSET Messages]
      /\ \A s \in Rooms : answering'[s] \subseteq answering[s]
      /\ UNCHANGED <<isOpen, begun, stopVars, at, lock, bucket>>
  <2>1. CASE Prepare(r) \/ Work(r)
    BY <2>1 DEF Prepare, Work, lineVars, Inv, TypeOK
  <2>2. CASE End(r)
    BY <2>2 DEF End, Line!End, Inv, TypeOK
  <2>3. CASE Expire(r)
    BY <2>3 DEF Expire, Line!Leave, turnVars, Inv, TypeOK
  <2> QED
    BY <2>1, <2>2, <2>3
<1>2. working' \in [Rooms -> Messages \cup {None}] /\ replying' \subseteq Rooms
  BY DEF Prepare, Work, End, Expire, turnVars, Inv, TypeOK
<1>3. TypeOK'
  BY <1>1, <1>2 DEF Inv, TypeOK, stopVars
<1>4. LinesFresh' /\ MarksOut'
  BY <1>1 DEF Inv, LinesFresh, Fresh, MarksOut, stopVars
<1>5. BucketsFresh'
  BY <1>1 DEF Inv, BucketsFresh, BucketFresh, Fresh, stopVars
<1> QED
  BY <1>3, <1>4, <1>5 DEF Inv

LEMMA StopKeeps ==
    ASSUME Inv, NEW r \in Rooms, Stop(r)
    PROVE  Inv'
<1> USE IntakeAssumption
<1> DEFINE inBucket == {bucket[r].latest, bucket[r].earned} \ {None}
           found == waiting[r] \cup inBucket \cup answering[r]
<1>1. /\ hushed' = hushed \cup {r} /\ stopped' = stopped \cup found
      /\ waiting' = [waiting EXCEPT ![r] = {}]
      /\ bucket' = [bucket EXCEPT ![r] = NoBucket]
      /\ UNCHANGED <<answering, isOpen, turnVars, halts, at, lock>>
  BY DEF Stop, Dropped, Emptied
<1>2. \A m \in found : m \in Messages /\ at[m] \in Out /\ (RoomOf[m] = r \/ m \in begun)
  BY DEF Inv, TypeOK, LinesFresh, BucketsFresh, BucketFresh, MarksOut, Fresh, Out
<1> HIDE DEF found
<1>3. TypeOK'
  BY <1>1, <1>2 DEF Inv, TypeOK, NoBucket, turnVars
<1>4. LinesFresh'
  BY <1>1, <1>2 DEF Inv, TypeOK, LinesFresh, Fresh, turnVars
<1>5. BucketsFresh'
  <2> SUFFICES ASSUME NEW s \in Rooms PROVE BucketFresh(s)'
    BY DEF BucketsFresh
  <2>1. CASE s = r
    BY <1>1, <2>1 DEF BucketFresh, NoBucket, Inv, TypeOK
  <2>2. CASE s # r
    <3>1. bucket'[s] = bucket[s] /\ waiting'[s] = waiting[s] /\ BucketFresh(s)
      BY <1>1, <2>2 DEF Inv, TypeOK, BucketsFresh
    <3> QED
      BY <1>1, <1>2, <2>2, <3>1 DEF BucketFresh, Fresh, turnVars
  <2> QED
    BY <2>1, <2>2
<1>6. MarksOut'
  BY <1>1, <1>2 DEF Inv, MarksOut, turnVars
<1> QED
  BY <1>3, <1>4, <1>5, <1>6 DEF Inv
-----------------------------------------------------------------------------
LEMMA StepInv == Inv /\ [Next]_vars => Inv'
<1> SUFFICES ASSUME Inv, [Next]_vars PROVE Inv'
  OBVIOUS
<1> USE IntakeAssumption
<1>1. ASSUME NEW m \in Messages, OnMessage(m) PROVE Inv'
  <2>1. CASE Leave(m)
    BY <2>1, LeaveKeeps
  <2>2. CASE ~Leave(m)
    <3>1. /\ at[m] \notin Out /\ (\E p \in Places : Move(m, p))
          /\ UNCHANGED <<lineVars, turnVars, hushed, stopped, bucket>>
      BY <1>1, <2>2 DEF OnMessage, Receive, HaveRead, AfterInterrupt, Acquire, GiveUp,
           HaveStored, Hang, stopVars, Out, Places
    <3>2. lock' = lock \/ lock' = [lock EXCEPT ![RoomOf[m]] = m]
          \/ lock' = [lock EXCEPT ![RoomOf[m]] = IF @ = m THEN None ELSE @]
      BY <1>1, <2>2 DEF OnMessage, Receive, HaveRead, AfterInterrupt, Acquire, GiveUp,
           HaveStored, Hang
    <3>3. lock' \in [Rooms -> Messages \cup {None}]
      BY <3>2 DEF Inv, TypeOK
    <3>4. halts' = halts \/ (Interrupts(m) /\ halts' = [halts EXCEPT ![m] = working[RoomOf[m]]])
      BY <1>1, <2>2 DEF OnMessage, Receive, HaveRead, AfterInterrupt, Acquire, GiveUp,
           HaveStored, Hang, stopVars
    <3>5. halts' \in [Messages -> Messages \cup {None}]
      BY <3>4 DEF Inv, TypeOK
    <3> QED
      BY <3>1, <3>3, <3>5, MoveKeeps
  <2> QED
    BY <2>1, <2>2
<1>2. ASSUME NEW r \in Rooms, Flush(r) PROVE Inv'
  BY <1>2, TimerKeeps
<1>3. ASSUME NEW r \in Rooms, Prepare(r) \/ Work(r) \/ End(r) \/ Expire(r) PROVE Inv'
  BY <1>3, TurnKeeps
<1>4. ASSUME NEW r \in Rooms, Stop(r) PROVE Inv'
  BY <1>4, StopKeeps
<1>5. ASSUME NEW r \in Rooms, NEW m \in Messages, Begin(r, m) PROVE Inv'
  BY <1>5, BeginKeeps
<1>6. CASE UNCHANGED vars
  BY <1>6 DEF vars, lineVars, turnVars, stopVars, Inv, TypeOK, LinesFresh, BucketsFresh,
       BucketFresh, Fresh, MarksOut
<1> QED
  BY <1>1, <1>2, <1>3, <1>4, <1>5, <1>6 DEF Next

LEMMA AlwaysInv == Spec => []Inv
BY InitInv, StepInv, PTL DEF Spec

(* Only a message that waits in a line is ever begun.                      *)
LEMMA OnlyWaitingBegin ==
    ASSUME Inv, [Next]_vars, NEW m \in Messages, Starts(m)
    PROVE  \E r \in Rooms : m \in waiting[r]
<1>1. PICK r \in Rooms : m \in answering'[r] /\ m \notin answering[r]
  BY DEF Starts
<1>2. ASSUME NEW n \in Messages, OnMessage(n) PROVE FALSE
  <2>1. answering' = answering
    BY <1>2 DEF OnMessage, Receive, HaveRead, AfterInterrupt, Acquire, GiveUp, HaveStored,
         Hang, Leave, HandDirect, HandTalk, IgnoreTalk, SwitchedOff, Line!Join, lineVars
  <2> QED
    BY <1>1, <2>1
<1>3. ASSUME NEW s \in Rooms,
             Flush(s) \/ Prepare(s) \/ Work(s) \/ End(s) \/ Stop(s) \/ Expire(s)
      PROVE  FALSE
  <2>1. answering' = answering \/ answering' = [answering EXCEPT ![s] = {}]
    BY <1>3 DEF Flush, Prepare, Work, End, Stop, Expire, Line!Join, Line!End, Line!Leave,
         lineVars
  <2> QED
    BY <1>1, <2>1 DEF Inv, TypeOK
<1>4. ASSUME NEW s \in Rooms, NEW n \in Messages, Begin(s, n)
      PROVE  m \in waiting[s]
  BY <1>1, <1>4 DEF Begin, Line!Begin, Inv, TypeOK
<1>5. CASE UNCHANGED vars
  BY <1>1, <1>5 DEF vars, lineVars
<1> QED
  BY <1>2, <1>3, <1>4, <1>5 DEF Next
-----------------------------------------------------------------------------
(* Every variable of the intake keeps its shape.                           *)
THEOREM TypeCorrect == Spec => []TypeOK
<1>1. Inv => TypeOK
  BY DEF Inv
<1> QED
  BY <1>1, AlwaysInv, PTL

(* No message is begun twice, whichever way it takes to its line.          *)
THEOREM NoneAnsweredTwice == Spec => AnsweredOnce
<1>1. Inv /\ [Next]_vars => [\A m \in begun : ~Starts(m)]_vars
  <2> SUFFICES ASSUME Inv, [Next]_vars, NEW m \in begun, Starts(m) PROVE FALSE
    OBVIOUS
  <2>1. m \in Messages
    BY DEF Inv, TypeOK
  <2> QED
    BY <2>1, OnlyWaitingBegin DEF Inv, LinesFresh, Fresh
<1> QED
  BY <1>1, AlwaysInv, PTL DEF Spec, AnsweredOnce

(* What "!stop" found is never begun afterwards.                           *)
THEOREM StopIsFinal == Spec => StoppedStayStopped
<1>1. Inv /\ [Next]_vars => [\A m \in stopped : ~Starts(m)]_vars
  <2> SUFFICES ASSUME Inv, [Next]_vars, NEW m \in stopped, Starts(m) PROVE FALSE
    OBVIOUS
  <2>1. m \in Messages
    BY DEF Inv, TypeOK
  <2> QED
    BY <2>1, OnlyWaitingBegin DEF Inv, LinesFresh, Fresh
<1> QED
  BY <1>1, AlwaysInv, PTL DEF Spec, StoppedStayStopped

(* Talk enters a line only while nothing waits there and no turn runs.     *)
THEOREM TalkNeverQueues == Spec => TalkYields
<1>1. ASSUME Inv, [Next]_vars, NEW r \in Rooms,
             NEW m \in (waiting'[r] \ waiting[r]) \ Direct
      PROVE  waiting[r] = {} /\ \A s \in Rooms : answering[s] = {}
  <2>1. ASSUME NEW n \in Messages, OnMessage(n) PROVE FALSE
    <3>1. CASE HandDirect(n) /\ n \in Direct
      <4>1. n \in Direct /\ Line!Join(RoomOf[n], n)
        BY <3>1 DEF HandDirect
      <4>2. waiting'[r] \subseteq waiting[r] \cup {n}
        BY <4>1, IntakeAssumption DEF Line!Join, Inv, TypeOK
      <4> QED
        BY <4>1, <4>2
    <3>2. CASE waiting' = waiting
      BY <3>2
    <3> QED
      BY <2>1, <3>1, <3>2 DEF OnMessage, Receive, HaveRead, AfterInterrupt, Acquire, GiveUp,
         HaveStored, Hang, Leave, HandTalk, IgnoreTalk, SwitchedOff, lineVars
  <2>2. ASSUME NEW t \in Rooms, Flush(t)
        PROVE  waiting[r] = {} /\ \A s \in Rooms : answering[s] = {}
    <3>1. CASE UNCHANGED lineVars
      BY <3>1 DEF lineVars
    <3>2. CASE ~MustYield(t) /\ Line!Join(t, bucket[t].earned)
      <4>1. t = r
        BY <3>2 DEF Line!Join, Inv, TypeOK
      <4> QED
        BY <3>2, <4>1 DEF MustYield, Busy
    <3> QED
      BY <2>2, <3>1, <3>2 DEF Flush
  <2>3. ASSUME NEW t \in Rooms, Prepare(t) \/ Work(t) \/ End(t) \/ Stop(t) \/ Expire(t)
        PROVE  FALSE
    <3>1. \A s \in Rooms : waiting'[s] \subseteq waiting[s]
      <4>1. CASE Prepare(t) \/ Work(t) \/ End(t)
        BY <4>1 DEF Prepare, Work, End, Line!End, lineVars
      <4>2. CASE Stop(t)
        BY <4>2 DEF Stop, Inv, TypeOK
      <4>3. CASE Expire(t)
        BY <4>3 DEF Expire, Line!Leave, Inv, TypeOK
      <4> QED
        BY <2>3, <4>1, <4>2, <4>3
    <3> QED
      BY <3>1
  <2>4. ASSUME NEW t \in Rooms, NEW n \in Messages, Begin(t, n) PROVE FALSE
    BY <2>4 DEF Begin, Line!Begin, Inv, TypeOK
  <2>5. CASE UNCHANGED vars
    BY <2>5 DEF vars, lineVars
  <2> QED
    BY <1>1, <2>1, <2>2, <2>3, <2>4, <2>5 DEF Next
<1>2. Inv /\ [Next]_vars =>
        [\A r \in Rooms : \A m \in (waiting'[r] \ waiting[r]) \ Direct :
            waiting[r] = {} /\ \A s \in Rooms : answering[s] = {}]_vars
  BY <1>1
<1> QED
  BY <1>2, AlwaysInv, PTL DEF Spec, TalkYields
=============================================================================
