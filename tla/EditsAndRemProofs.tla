-------------------------- MODULE EditsAndRemProofs --------------------------
(***************************************************************************)
(* What the edit path promises for any number of edits and any pictures:   *)
(* a prompt that is complete answers the newest notice, and a message that *)
(* waits is known in its newest version once its updates are handled.      *)
(* And what REM promises for any number of events, callers, passes, faults *)
(* and restarts: nothing is assimilated twice, nothing is passed by, and   *)
(* the flag on disk is true, but for the causes its properties name.       *)
(***************************************************************************)
EXTENDS MessageEdits, Rem, TLAPS

Handlers == [at : HandlerStates, version : Versions, changed : BOOLEAN]
Message(x) == Object(x) \ {None}

(* The records of the turn and of its context.                             *)
TurnRecord == [at : TurnStates, object : Message(Asked), content : Versions,
               fetched : Versions \cup {None}, mark : Nat]
ContextRecord == [open : BOOLEAN, ids : SUBSET Messages,
                  message : Object(Asked), latest : Object(Asked),
                  version : Nat, seen : Nat, told : Versions \cup {None},
                  early : BOOLEAN, followed : BOOLEAN]

(* The types, with what is never None.                                     *)
Counts == /\ newest \in [Messages -> Nat] /\ delivered \in [Messages -> Nat]
          /\ \A x \in Messages : delivered[x] <= newest[x] /\ newest[x] <= Edits[x]
HandlerTypes ==
    /\ handler = [x \in Messages |-> handler[x]]
    /\ \A x \in Messages : handler[x] \in [1..Edits[x] -> Handlers]
Remembered == /\ known \in [Messages -> Versions \cup {None}]
              /\ row \in [Messages -> Versions \cup {None}]
              /\ snapshot = [x \in Messages |-> snapshot[x]]
              /\ \A x \in Messages : snapshot[x] \in Object(x)
              /\ visual \in [Messages -> SUBSET Pictures]
TurnTypes ==
    /\ turn \in [at : TurnStates, object : Message(Asked), content : Versions,
                 fetched : Versions \cup {None}, mark : Nat]
    /\ turn.at = "fetched" => turn.fetched \in Versions
    /\ bucket \in Object(Asked)
    /\ turn.at = "bucket" => bucket # None
ContextTypes ==
    /\ context \in [open : BOOLEAN, ids : SUBSET Messages,
                    message : Object(Asked), latest : Object(Asked),
                    version : Nat, seen : Nat, told : Versions \cup {None},
                    early : BOOLEAN, followed : BOOLEAN]
    /\ context.version # 0 => context.latest # None
    /\ context.open => context.message # None
Types == Counts /\ HandlerTypes /\ Remembered /\ TurnTypes /\ ContextTypes

(* What the turn knows of the notices: the first build has seen none, and  *)
(* a rebuild answers the last one of its own message as long as its mark is*)
(* the last notice; what was told is the latest message, and the message of*)
(* the context too unless it was told early.                               *)
Unread == context.told # None /\ ~(context.early /\ context.followed)
Noticed ==
    /\ turn.at \in {"begun", "fetching", "fetched", "extracting", "building"} =>
          context.seen = 0
    /\ turn.at = "rebuilding" =>
          /\ turn.mark <= context.version
          /\ context.version = turn.mark /\ Unread => turn.content >= context.told
    /\ turn.at \in {"begun", "fetching", "fetched", "extracting", "building",
                   "rebuilding"} =>
          /\ context.told # None => context.version # 0
          /\ Unread => context.latest = context.told
          /\ context.told # None /\ ~context.early =>
                /\ turn.at \in {"building", "rebuilding"}
                /\ context.message = context.told

(* Until its turn begins, a message the library holds is registered in its *)
(* newest version, which the bucket shows or is about to be shown.         *)
Current ==
    Asked \in Held /\ turn.at \in {"received", "bucket", "line"} =>
      /\ turn.at = "received" => turn.object = Live
      /\ turn.at # "bucket" => bucket = None
      /\ turn.at # "received" => row[Asked] = delivered[Asked]
      /\ known[Asked] = IF delivered[Asked] = 0 THEN None ELSE delivered[Asked]
      /\ \A n \in 1..Edits[Asked] :
            /\ handler[Asked][n].at # "fetching"
            /\ Pending(Asked, n) => handler[Asked][n].version = n
      /\ \/ bucket \in {None, Live, delivered[Asked]}
         \/ /\ delivered[Asked] \in 1..Edits[Asked]
            /\ Pending(Asked, delivered[Asked])

Inv == Types /\ Noticed /\ Current
-----------------------------------------------------------------------------
LEMMA Constants ==
    /\ Edits[Asked] \in Nat /\ Edits[Parent] \in Nat
    /\ \A x \in Messages : Edits[x] \in Nat /\ 0..Edits[x] \subseteq Versions
    /\ Versions \subseteq Nat /\ 0 \in Versions
    /\ Live \notin Nat /\ None \notin Nat /\ None # Live
    /\ Asked \in Messages /\ Parent \in Messages /\ Asked # Parent
<1>1. Asked \in Messages /\ Parent \in Messages
  BY DEF Messages
<1>2. \A x \in Messages : Edits[x] \in Nat
  BY EditsAssumption
<1>3. \A x \in Messages : 0..Edits[x] \subseteq Versions
  BY DEF Versions
<1>4. Versions \subseteq Nat
  BY <1>2 DEF Versions
<1>5. 0 \in Versions
  BY <1>1, <1>2, <1>3
<1> QED
  BY <1>1, <1>2, <1>3, <1>4, <1>5, EditsAssumption

(* What an object says is a version.                                       *)
LEMMA ReadIsVersion ==
    ASSUME Counts, NEW x \in Messages, NEW o \in Message(x)
    PROVE  Read(x, o) \in Versions /\ delivered[x] \in Versions
<1>1. delivered[x] \in Versions
  BY Constants DEF Counts
<1> QED
  BY <1>1, Constants DEF Read, Message, Object

(* One handler moves, the others stay.                                     *)
LEMMA OneHandler ==
    ASSUME HandlerTypes, NEW x \in Messages, NEW n \in 1..Edits[x], NEW h \in Handlers,
           handler' = [handler EXCEPT ![x] = [handler[x] EXCEPT ![n] = h]]
    PROVE  /\ HandlerTypes' /\ handler'[x][n] = h
           /\ \A k \in 1..Edits[x] : k # n => handler'[x][k] = handler[x][k]
           /\ \A y \in Messages : y # x => handler'[y] = handler[y]
<1>1. DOMAIN handler = Messages /\ handler[x] \in [1..Edits[x] -> Handlers]
  <2>1. handler = [y \in Messages |-> handler[y]]
    BY DEF HandlerTypes
  <2> QED
    BY <2>1 DEF HandlerTypes
<1> DEFINE row1 == [handler[x] EXCEPT ![n] = h]
<1>2. /\ row1 \in [1..Edits[x] -> Handlers] /\ row1[n] = h
      /\ \A k \in 1..Edits[x] : k # n => row1[k] = handler[x][k]
  BY <1>1
<1> HIDE DEF row1
<1>3. handler' = [handler EXCEPT ![x] = row1]
  BY DEF row1
<1>4. handler'[x] = row1 /\ \A y \in Messages : y # x => handler'[y] = handler[y]
  BY <1>1, <1>3
<1>5. handler' = [y \in Messages |-> handler'[y]]
  BY <1>1, <1>3
<1>6. \A y \in Messages : handler'[y] \in [1..Edits[y] -> Handlers]
  BY <1>2, <1>4 DEF HandlerTypes
<1> QED
  BY <1>2, <1>4, <1>5, <1>6 DEF HandlerTypes
-----------------------------------------------------------------------------
LEMMA InitInv == Init => Inv
<1> SUFFICES ASSUME Init PROVE Inv
  OBVIOUS
<1> USE Constants
<1>1. Counts /\ Remembered
  BY DEF Init, Counts, Remembered, Object
<1>2. HandlerTypes
  <2>1. Unborn \in Handlers
    BY DEF Unborn, Handlers, HandlerStates
  <2> QED
    BY <2>1 DEF Init, HandlerTypes
<1>3. TurnTypes /\ ContextTypes
  <2>1. Created(Asked) \in Message(Asked)
    BY DEF Created, Message, Object
  <2> QED
    BY <2>1 DEF Init, TurnTypes, ContextTypes, Closed, TurnStates, Object, Message
<1>4. Noticed /\ Current
  BY DEF Init, Noticed, Unread, Current, Created, Unborn, Pending
<1> QED
  BY <1>1, <1>2, <1>3, <1>4 DEF Inv, Types
-----------------------------------------------------------------------------
(* What the registration of version v changes.                             *)
LEMMA RegisterEffect ==
    ASSUME HandlerTypes, Remembered, NEW x \in Messages, NEW n \in 1..Edits[x],
           NEW v \in Versions, Register(x, n, v)
    PROVE  /\ Remembered' /\ HandlerTypes'
           /\ UNCHANGED <<newest, visual, bucket, turn, context>>
           /\ known'[x] = v /\ \A y \in Messages : y # x => known'[y] = known[y]
           /\ known[x] # v => /\ row'[x] = v
                              /\ handler'[x][n].at = "storing"
                              /\ handler'[x][n].version = v
           /\ \A y \in Messages : y # x => row'[y] = row[y] /\ handler'[y] = handler[y]
           /\ \A k \in 1..Edits[x] : k # n => handler'[x][k] = handler[x][k]
<1> USE Constants
<1>1. handler[x][n] \in Handlers
  BY DEF HandlerTypes
<1>2. /\ snapshot' = [y \in Messages |-> snapshot'[y]]
      /\ \A y \in Messages : snapshot'[y] \in Object(y)
  <2>1. DOMAIN snapshot = Messages /\ \A y \in Messages : snapshot[y] \in Object(y)
    <3>1. snapshot = [y \in Messages |-> snapshot[y]]
      BY DEF Remembered
    <3> QED
      BY <3>1 DEF Remembered
  <2>2. snapshot' = [snapshot EXCEPT ![x] = IF x \in Held THEN Live ELSE v]
    BY DEF Register
  <2> QED
    BY <2>1, <2>2 DEF Object
<1>3. UNCHANGED <<newest, visual, bucket, turn, context>>
  BY DEF Register
<1>4. CASE known[x] = v
  <2>1. [handler[x][n] EXCEPT !.at = "done"] \in Handlers
    BY <1>1 DEF Handlers, HandlerStates
  <2>2. PICK h \in Handlers : handler' = [handler EXCEPT ![x] = [handler[x] EXCEPT ![n] = h]]
    BY <1>4, <2>1 DEF Register
  <2>3. UNCHANGED <<known, row>>
    BY <1>4 DEF Register
  <2>4. /\ HandlerTypes' /\ handler'[x][n] = h
        /\ \A k \in 1..Edits[x] : k # n => handler'[x][k] = handler[x][k]
        /\ \A y \in Messages : y # x => handler'[y] = handler[y]
    BY <2>2, OneHandler
  <2>5. Remembered'
    BY <1>2, <1>3, <2>3 DEF Remembered
  <2> QED
    BY <1>3, <1>4, <2>3, <2>4, <2>5
<1>5. CASE known[x] # v
  <2> DEFINE h == [at |-> "storing", version |-> v,
                   changed |-> known[x] = None \/ PictureOf[known[x]] # PictureOf[v]]
  <2>1. h \in Handlers /\ h.at = "storing" /\ h.version = v
    BY DEF Handlers, HandlerStates
  <2>2. handler' = [handler EXCEPT ![x] = [handler[x] EXCEPT ![n] = h]]
    BY <1>5 DEF Register
  <2> HIDE DEF h
  <2>3. known' = [known EXCEPT ![x] = v] /\ row' = [row EXCEPT ![x] = v]
    BY <1>5 DEF Register
  <2>4. known' \in [Messages -> Versions \cup {None}] /\ row' \in [Messages -> Versions \cup {None}]
        /\ visual' \in [Messages -> SUBSET Pictures]
    BY <1>3, <2>3 DEF Remembered
  <2>5. Remembered'
    BY <1>2, <2>4 DEF Remembered
  <2>6. /\ known'[x] = v /\ row'[x] = v
        /\ \A y \in Messages : y # x => known'[y] = known[y] /\ row'[y] = row[y]
    BY <2>3 DEF Remembered
  <2>7. /\ HandlerTypes' /\ handler'[x][n] = h
        /\ \A k \in 1..Edits[x] : k # n => handler'[x][k] = handler[x][k]
        /\ \A y \in Messages : y # x => handler'[y] = handler[y]
    BY <2>1, <2>2, OneHandler
  <2> QED
    BY <1>3, <2>1, <2>5, <2>6, <2>7
<1> QED
  BY <1>4, <1>5

LEMMA DeliverKeeps ==
    ASSUME Inv, NEW x \in Messages, Deliver(x)
    PROVE  Inv'
<1> USE Constants
<1>0. PICK n \in Nat : n = delivered[x] + 1
  BY DEF Inv, Types, Counts
<1>1. /\ n \in 1..Edits[x] /\ n \in Versions /\ delivered[x] < newest[x]
      /\ delivered' = [delivered EXCEPT ![x] = n] /\ delivered'[x] = n
      /\ \A y \in Messages : y # x => delivered'[y] = delivered[y]
  <2>1. delivered[x] \in Nat /\ newest[x] \in Nat /\ newest[x] <= Edits[x]
        /\ delivered[x] < newest[x]
    BY DEF Inv, Types, Counts, Deliver
  <2>2. n \in 1..Edits[x]
    BY <1>0, <2>1
  <2> QED
    BY <1>0, <2>1, <2>2 DEF Inv, Types, Counts, Deliver
<1>2. CASE x \in Held
  <2>1. Register(x, n, n)
    BY <1>0, <1>2 DEF Deliver
  <2>2. /\ Remembered' /\ HandlerTypes'
        /\ UNCHANGED <<newest, visual, bucket, turn, context>>
        /\ known'[x] = n /\ \A y \in Messages : y # x => known'[y] = known[y]
        /\ known[x] # n => /\ row'[x] = n
                           /\ handler'[x][n].at = "storing"
                           /\ handler'[x][n].version = n
        /\ \A y \in Messages : y # x => row'[y] = row[y] /\ handler'[y] = handler[y]
        /\ \A k \in 1..Edits[x] : k # n => handler'[x][k] = handler[x][k]
    BY <1>1, <2>1, RegisterEffect DEF Inv, Types
  <2>3. Counts'
    BY <1>0, <1>1, <2>2 DEF Inv, Types, Counts
  <2>4. TurnTypes' /\ ContextTypes' /\ Noticed'
    BY <2>2 DEF Inv, Types, TurnTypes, ContextTypes, Noticed, Unread
  <2>5. Current'
    <3> SUFFICES ASSUME Asked \in Held, turn.at \in {"received", "bucket", "line"}
                 PROVE  Current'
      BY <2>2 DEF Current
    <3>1. Current /\ (turn.at \in {"received", "bucket", "line"})'
      BY <2>2 DEF Inv
    <3>2. CASE x = Asked
      <4>1. known[x] # n /\ n # 0
        <5>1. delivered[x] \in Nat /\ delivered[x] # n
          BY <1>0 DEF Inv, Types, Counts
        <5> QED
          BY <1>1, <3>1, <3>2, <5>1 DEF Current
      <4>2. Pending(Asked, n)' /\ n \in 1..Edits[Asked] /\ delivered'[Asked] = n
        BY <1>1, <2>2, <3>2, <4>1 DEF Pending
      <4>3. \A k \in 1..Edits[Asked] :
              /\ handler'[Asked][k].at # "fetching"
              /\ Pending(Asked, k)' => handler'[Asked][k].version = k
        BY <2>2, <3>1, <3>2, <4>1 DEF Current, Pending
      <4>4. known'[Asked] = n /\ row'[Asked] = n
        BY <2>2, <3>2, <4>1
      <4>5. /\ turn'.at = "received" => turn'.object = Live
            /\ turn'.at # "bucket" => bucket' = None
        BY <2>2, <3>1 DEF Current
      <4> QED
        BY <4>1, <4>2, <4>3, <4>4, <4>5 DEF Current
    <3>3. CASE x # Asked
      <4>1. /\ delivered'[Asked] = delivered[Asked] /\ known'[Asked] = known[Asked]
            /\ row'[Asked] = row[Asked] /\ handler'[Asked] = handler[Asked]
        BY <1>1, <2>2, <3>3
      <4> QED
        BY <2>2, <3>1, <4>1 DEF Current, Pending
    <3> QED
      BY <3>2, <3>3
  <2> QED
    BY <2>2, <2>3, <2>4, <2>5 DEF Inv, Types
<1>3. CASE x \notin Held
  <2> DEFINE h == [handler[x][n] EXCEPT !.at = "fetching"]
  <2>1. h \in Handlers
    <3>1. handler[x][n] \in Handlers
      BY <1>1 DEF Inv, Types, HandlerTypes
    <3> QED
      BY <3>1 DEF Handlers, HandlerStates
  <2>2. handler' = [handler EXCEPT ![x] = [handler[x] EXCEPT ![n] = h]]
        /\ UNCHANGED <<newest, known, snapshot, row, visual, bucket, turn, context>>
    BY <1>0, <1>3 DEF Deliver
  <2> HIDE DEF h
  <2>3. HandlerTypes' /\ \A y \in Messages : y # x => handler'[y] = handler[y]
    BY <1>1, <2>1, <2>2, OneHandler DEF Inv, Types
  <2>4. Counts'
    BY <1>0, <1>1, <2>2 DEF Inv, Types, Counts
  <2>5. Remembered' /\ TurnTypes' /\ ContextTypes' /\ Noticed'
    BY <2>2 DEF Inv, Types, Remembered, TurnTypes, ContextTypes, Noticed, Unread
  <2>6. Current'
    <3>1. Asked \in Held => x # Asked
      BY <1>3
    <3> QED
      BY <1>1, <2>2, <2>3, <3>1 DEF Inv, Current, Pending
  <2> QED
    BY <2>3, <2>4, <2>5, <2>6 DEF Inv, Types
<1> QED
  BY <1>2, <1>3

LEMMA FetchKeeps ==
    ASSUME Inv, NEW x \in Messages, NEW n \in 1..Edits[x], FetchUpdate(x, n)
    PROVE  Inv'
<1> USE Constants
<1>1. handler[x][n].at = "fetching" /\ delivered' = delivered
  BY DEF FetchUpdate
<1>2. PICK v \in n..newest[x] : Register(x, n, v)
  BY DEF FetchUpdate
<1>3. v \in Versions
  BY DEF Inv, Types, Counts
<1>4. /\ Remembered' /\ HandlerTypes'
      /\ UNCHANGED <<newest, visual, bucket, turn, context>>
      /\ \A y \in Messages : y # x => known'[y] = known[y] /\ row'[y] = row[y]
                                      /\ handler'[y] = handler[y]
  BY <1>2, <1>3, RegisterEffect DEF Inv, Types
<1>5. Counts' /\ TurnTypes' /\ ContextTypes' /\ Noticed'
  BY <1>1, <1>4 DEF Inv, Types, Counts, TurnTypes, ContextTypes, Noticed, Unread
<1>6. Current'
  BY <1>1, <1>4 DEF Inv, Current, Pending
<1> QED
  BY <1>4, <1>5, <1>6 DEF Inv, Types

(* The end of a handler.                                                   *)
LEMMA HandOverKeeps ==
    ASSUME Inv, NEW x \in Messages, NEW n \in 1..Edits[x], Pending(x, n), HandOver(x, n),
           UNCHANGED <<newest, delivered, known, snapshot, row, turn>>,
           visual' \in [Messages -> SUBSET Pictures]
    PROVE  Inv'
<1> USE Constants
<1>1. handler[x][n] \in Handlers
  BY DEF Inv, Types, HandlerTypes
<1>2. PICK v \in Versions : v = handler[x][n].version
  BY <1>1 DEF Handlers
<1>3. PICK h \in Handlers : /\ handler' = [handler EXCEPT ![x] = [handler[x] EXCEPT ![n] = h]]
                            /\ h.at = "done"
  <2>1. [handler[x][n] EXCEPT !.at = "done"] \in Handlers
    BY <1>1 DEF Handlers, HandlerStates
  <2>2. [handler[x][n] EXCEPT !.at = "done"].at = "done"
    BY <1>1 DEF Handlers
  <2> QED
    BY <2>1, <2>2 DEF HandOver
<1>4. /\ HandlerTypes' /\ handler'[x][n] = h
      /\ \A k \in 1..Edits[x] : k # n => handler'[x][k] = handler[x][k]
      /\ \A y \in Messages : y # x => handler'[y] = handler[y]
  BY <1>3, OneHandler DEF Inv, Types
<1>5. /\ known[x] # v => bucket' = bucket /\ context' = context
      /\ known[x] = v => RefreshBucket(x, v) /\ NotifyTurn(x, v)
  BY <1>2 DEF HandOver, Superseded
<1>6. /\ bucket' \in {bucket, v}
      /\ x # Asked => bucket' = bucket
      /\ known[x] # v => bucket' = bucket
      /\ x = Asked /\ known[x] = v => bucket' \in {None, v}
      /\ bucket = None => bucket' = None
      /\ bucket # None => bucket' # None
  BY <1>5 DEF RefreshBucket
<1>7. Counts' /\ Remembered' /\ TurnTypes'
  <2>1. bucket' \in Object(Asked)
    BY <1>6 DEF Inv, Types, TurnTypes, Object
  <2> QED
    BY <1>6, <2>1 DEF Inv, Types, Counts, Remembered, TurnTypes
<1>8. ContextTypes' /\ Noticed'
  <2>1. CASE context' = context
    BY <2>1 DEF Inv, Types, ContextTypes, Noticed, Unread
  <2>2. CASE context' # context
    <3>1. context.open /\ NotifyTurn(x, v)
      BY <1>5, <2>2 DEF NotifyTurn
    <3>2. context \in ContextRecord /\ context.message \in Object(Asked) \ {None}
      BY <3>1 DEF Inv, Types, ContextTypes, ContextRecord
    <3>3. /\ context.open \in BOOLEAN /\ context.ids \in SUBSET Messages
          /\ context.version \in Nat /\ context.seen \in Nat
          /\ context.told \in Versions \cup {None} /\ context.early \in BOOLEAN
          /\ context.latest \in Object(Asked) /\ context.message \in Object(Asked)
      BY <3>2 DEF ContextRecord
    <3>4. turn' = turn /\ turn.mark \in Nat
      BY DEF Inv, Types, TurnTypes
    <3>5. CASE x = Asked
      <4> DEFINE early == turn.at \in Early
      <4>1. early \in BOOLEAN
        OBVIOUS
      <4>2. context' = [open |-> context.open, ids |-> context.ids, message |-> v,
                        latest |-> v, version |-> context.version + 1,
                        seen |-> context.seen, told |-> v, early |-> early,
                        followed |-> FALSE]
        BY <2>2, <3>1, <3>2, <3>5 DEF NotifyTurn, TellOwn, ContextRecord
      <4> HIDE DEF early
      <4>3. v \in Object(Asked) /\ v # None
        BY DEF Object
      <4>4. context' \in ContextRecord
        BY <3>3, <4>1, <4>2, <4>3 DEF ContextRecord
      <4>5. ContextTypes'
        BY <4>2, <4>3, <4>4 DEF ContextTypes, ContextRecord
      <4>6. /\ context'.told = v /\ context'.latest = v /\ context'.message = v
            /\ context'.version = context.version + 1 /\ context'.seen = context.seen
            /\ context'.early <=> turn.at \in Early
        BY <4>2 DEF early
      <4>7. turn.at \in {"begun", "fetching", "fetched", "extracting", "building"} =>
               context'.seen = 0
        BY <4>6 DEF Inv, Noticed, Unread
      <4>8. turn.at = "rebuilding" =>
               turn.mark <= context'.version /\ context'.version # turn.mark
        BY <3>3, <3>4, <4>6 DEF Inv, Noticed, Unread
      <4>9. context'.version # 0 /\ (~context'.early => turn.at \notin Early)
        BY <3>3, <4>6
      <4>10. Noticed'
        BY <3>4, <4>6, <4>7, <4>8, <4>9 DEF Noticed, Unread, Early
      <4> QED
        BY <4>5, <4>10
    <3>6. CASE x # Asked
      <4>1. context' = [open |-> context.open, ids |-> context.ids,
                        message |-> context.message, latest |-> context.message,
                        version |-> context.version + 1, seen |-> context.seen,
                        told |-> context.told, early |-> context.early,
                        followed |-> TRUE]
        BY <2>2, <3>1, <3>2, <3>6 DEF NotifyTurn, TellParent, ContextRecord
      <4>2. context' \in ContextRecord
        BY <3>3, <4>1 DEF ContextRecord
      <4>3. ContextTypes'
        BY <3>2, <4>1, <4>2 DEF ContextTypes, ContextRecord
      <4>4. Noticed'
        BY <3>3, <3>4, <4>1 DEF Inv, Noticed, Unread
      <4> QED
        BY <4>3, <4>4
    <3> QED
      BY <3>5, <3>6
  <2> QED
    BY <2>1, <2>2
<1>9. Current'
  <2> SUFFICES ASSUME Asked \in Held, turn.at \in {"received", "bucket", "line"}
               PROVE  Current'
    BY DEF Current
  <2>1. Current
    BY DEF Inv
  <2>2. CASE x # Asked
    BY <1>4, <1>6, <2>1, <2>2 DEF Current, Pending
  <2>3. CASE x = Asked /\ n # delivered[Asked]
    <3>1. v = n /\ known[x] # v
      BY <1>2, <2>1, <2>3 DEF Current
    <3>2. \A k \in 1..Edits[Asked] :
            /\ handler'[Asked][k].at # "fetching"
            /\ Pending(Asked, k)' => Pending(Asked, k) /\ handler'[Asked][k] = handler[Asked][k]
      BY <1>3, <1>4, <2>1, <2>3 DEF Current, Pending
    <3>3. /\ delivered[Asked] \in 1..Edits[Asked] /\ Pending(Asked, delivered[Asked])
             => Pending(Asked, delivered[Asked])'
          /\ bucket' = bucket
      BY <1>4, <1>6, <2>3, <3>1 DEF Pending
    <3> QED
      BY <2>1, <3>2, <3>3 DEF Current
  <2>4. CASE x = Asked /\ n = delivered[Asked]
    <3>1. v = n /\ known[x] = v
      BY <1>2, <2>1, <2>4 DEF Current
    <3>2. \A k \in 1..Edits[Asked] :
            /\ handler'[Asked][k].at # "fetching"
            /\ Pending(Asked, k)' => Pending(Asked, k) /\ handler'[Asked][k] = handler[Asked][k]
      BY <1>3, <1>4, <2>1, <2>4 DEF Current, Pending
    <3>3. bucket' \in {None, delivered[Asked]}
      BY <1>6, <2>4, <3>1
    <3> QED
      BY <1>6, <2>1, <3>2, <3>3 DEF Current
  <2> QED
    BY <2>2, <2>3, <2>4
<1> QED
  BY <1>4, <1>7, <1>8, <1>9 DEF Inv, Types

LEMMA StoredKeeps ==
    ASSUME Inv, NEW x \in Messages, NEW n \in 1..Edits[x], Stored(x, n)
    PROVE  Inv'
<1> USE Constants
<1>1. handler[x][n] \in Handlers /\ Pending(x, n)
  BY DEF Inv, Types, HandlerTypes, Stored, Pending
<1>2. CASE handler[x][n].changed
  <2>1. UNCHANGED <<bucket, context, newest, delivered, known, snapshot, row, visual, turn>>
    BY <1>2 DEF Stored
  <2>2. PICK h \in Handlers : /\ handler' = [handler EXCEPT ![x] = [handler[x] EXCEPT ![n] = h]]
                              /\ h.at = "loading" /\ h.version = handler[x][n].version
    <3>1. [handler[x][n] EXCEPT !.at = "loading"] \in Handlers
      BY <1>1 DEF Handlers, HandlerStates
    <3>2. /\ [handler[x][n] EXCEPT !.at = "loading"].at = "loading"
          /\ [handler[x][n] EXCEPT !.at = "loading"].version = handler[x][n].version
      BY <1>1 DEF Handlers
    <3> QED
      BY <1>2, <3>1, <3>2 DEF Stored
  <2>3. /\ HandlerTypes' /\ handler'[x][n] = h
        /\ \A k \in 1..Edits[x] : k # n => handler'[x][k] = handler[x][k]
        /\ \A y \in Messages : y # x => handler'[y] = handler[y]
    BY <2>2, OneHandler DEF Inv, Types
  <2>4. Counts' /\ Remembered' /\ TurnTypes' /\ ContextTypes' /\ Noticed'
    BY <2>1 DEF Inv, Types, Counts, Remembered, TurnTypes, ContextTypes, Noticed, Unread
  <2>5. Current'
    <3>1. \A k \in 1..Edits[x] :
             /\ Pending(x, k)' <=> Pending(x, k)
             /\ handler'[x][k].version = handler[x][k].version
             /\ handler'[x][k].at = "fetching" => handler[x][k].at = "fetching"
      BY <1>1, <2>2, <2>3 DEF Pending
    <3>2. CASE x = Asked
      <4>1. delivered[Asked] \in 1..Edits[Asked] /\ Pending(Asked, delivered[Asked])
            => Pending(Asked, delivered[Asked])'
        BY <2>1, <3>1, <3>2 DEF Pending
      <4> QED
        BY <2>1, <3>1, <3>2, <4>1 DEF Inv, Current
    <3>3. CASE x # Asked
      BY <2>1, <2>3, <3>3 DEF Inv, Current, Pending
    <3> QED
      BY <3>2, <3>3
  <2> QED
    BY <2>3, <2>4, <2>5 DEF Inv, Types
<1>3. CASE ~handler[x][n].changed
  BY <1>1, <1>3, HandOverKeeps DEF Stored, Inv, Types, Remembered
<1> QED
  BY <1>2, <1>3

LEMMA LoadedKeeps ==
    ASSUME Inv, NEW x \in Messages, NEW n \in 1..Edits[x], NEW ok \in BOOLEAN,
           Loaded(x, n, ok)
    PROVE  Inv'
<1> USE Constants
<1>1. Pending(x, n) /\ handler[x][n].version \in Versions
  BY DEF Inv, Types, HandlerTypes, Handlers, Loaded, Pending
<1>2. PicturesOf(handler[x][n].version) \subseteq Pictures
  BY <1>1, EditsAssumption DEF PicturesOf
<1>3. visual' \in [Messages -> SUBSET Pictures]
  BY <1>2 DEF Inv, Types, Remembered, Loaded
<1> QED
  BY <1>1, <1>3, HandOverKeeps DEF Loaded
-----------------------------------------------------------------------------
LEMMA Fields ==
    ASSUME Inv
    PROVE  /\ turn \in TurnRecord /\ context \in ContextRecord
           /\ turn.object \in Message(Asked) /\ turn.content \in Versions
           /\ turn.fetched \in Versions \cup {None} /\ turn.mark \in Nat
           /\ context.open \in BOOLEAN /\ context.ids \in SUBSET Messages
           /\ context.message \in Object(Asked) /\ context.latest \in Object(Asked)
           /\ context.version \in Nat /\ context.seen \in Nat
           /\ context.told \in Versions \cup {None}
           /\ context.early \in BOOLEAN /\ context.followed \in BOOLEAN
           /\ Versions \subseteq Message(Asked)
           /\ Message(Asked) \subseteq Object(Asked) /\ None \notin Message(Asked)
           /\ Object(Asked) = Message(Asked) \cup {None}
<1>1. turn \in TurnRecord /\ context \in ContextRecord
  BY DEF Inv, Types, TurnTypes, ContextTypes, TurnRecord, ContextRecord
<1>2. /\ Versions \subseteq Message(Asked)
      /\ Message(Asked) \subseteq Object(Asked) /\ None \notin Message(Asked)
      /\ Object(Asked) = Message(Asked) \cup {None}
  BY Constants DEF Message, Object
<1> QED
  BY <1>1, <1>2 DEF TurnRecord, ContextRecord

(* A step of the turn once it has begun.                                   *)
LEMMA BegunKeeps ==
    ASSUME Inv, UNCHANGED Outside,
           turn' \in TurnRecord, turn'.at \notin {"received", "bucket", "line"},
           turn'.at = "fetched" => turn'.fetched # None,
           bucket' \in Object(Asked), context' \in ContextRecord,
           context'.version # 0 => context'.latest # None,
           context'.open => context'.message # None,
           known' \in [Messages -> Versions \cup {None}],
           row' \in [Messages -> Versions \cup {None}],
           snapshot' = [x \in Messages |-> snapshot'[x]],
           \A x \in Messages : snapshot'[x] \in Object(x),
           visual' \in [Messages -> SUBSET Pictures],
           Noticed'
    PROVE  Inv'
<1>1. Counts' /\ HandlerTypes' /\ Remembered'
  BY DEF Inv, Types, Counts, HandlerTypes, Remembered, Outside
<1>2. TurnTypes' /\ ContextTypes'
  BY DEF TurnTypes, ContextTypes, TurnRecord, ContextRecord
<1>3. Current'
  BY DEF Current
<1> QED
  BY <1>1, <1>2, <1>3 DEF Inv, Types

(* What the turn registers of its own message keeps the types.             *)
LEMMA Registers ==
    ASSUME Inv
    PROVE  /\ known \in [Messages -> Versions \cup {None}]
           /\ row \in [Messages -> Versions \cup {None}]
           /\ visual \in [Messages -> SUBSET Pictures]
           /\ snapshot = [x \in Messages |-> snapshot[x]]
           /\ \A x \in Messages : snapshot[x] \in Object(x)
           /\ [known EXCEPT ![Asked] = Read(Asked, turn.object)]
                 \in [Messages -> Versions \cup {None}]
           /\ \A o \in Object(Asked) : \A s : s = [snapshot EXCEPT ![Asked] = o] =>
                 /\ s = [x \in Messages |-> s[x]]
                 /\ \A x \in Messages : s[x] \in Object(x)
<1> USE Constants
<1>1. /\ known \in [Messages -> Versions \cup {None}]
      /\ row \in [Messages -> Versions \cup {None}]
      /\ visual \in [Messages -> SUBSET Pictures]
      /\ snapshot = [x \in Messages |-> snapshot[x]]
      /\ \A x \in Messages : snapshot[x] \in Object(x)
  BY DEF Inv, Types, Remembered
<1>2. Read(Asked, turn.object) \in Versions
  BY Fields, ReadIsVersion DEF Inv, Types
<1>3. DOMAIN snapshot = Messages
  BY <1>1
<1>4. ASSUME NEW o \in Object(Asked), NEW s, s = [snapshot EXCEPT ![Asked] = o]
      PROVE  s = [x \in Messages |-> s[x]] /\ \A x \in Messages : s[x] \in Object(x)
  BY <1>1, <1>3, <1>4
<1> QED
  BY <1>1, <1>2, <1>4

LEMMA RebuildKeeps ==
    ASSUME Inv, Rebuild, context.version # 0, turn.at \in {"building", "rebuilding"}
    PROVE  Inv'
<1> USE Fields
<1>1. context.latest \in Message(Asked) /\ context.version # 0
  BY DEF Inv, Types, ContextTypes
<1>2. Read(Asked, context.latest) \in Versions
  BY <1>1, ReadIsVersion, Constants DEF Inv, Types
<1>3. turn' = [at |-> "rebuilding", object |-> context.latest,
               content |-> Read(Asked, context.latest), fetched |-> turn.fetched,
               mark |-> context.version]
  BY DEF Rebuild, TurnRecord
<1>4. context' = [open |-> context.open, ids |-> context.ids, message |-> context.latest,
                  latest |-> context.latest, version |-> context.version,
                  seen |-> context.version, told |-> context.told, early |-> context.early,
                  followed |-> context.followed]
  BY DEF Rebuild, ContextRecord
<1>5. turn' \in TurnRecord /\ context' \in ContextRecord
  BY <1>1, <1>2, <1>3, <1>4 DEF TurnRecord, ContextRecord, TurnStates
<1>6. Noticed'
  <2>2. Unread => Read(Asked, context.latest) = context.told /\ context.told \in Nat
    BY Constants DEF Inv, Noticed, Unread, Read
  <2>3. /\ turn'.at = "rebuilding" /\ turn'.mark = context.version
        /\ turn'.content = Read(Asked, context.latest)
        /\ context'.version = context.version /\ context'.latest = context.latest
        /\ context'.message = context.latest /\ context'.told = context.told
        /\ context'.early = context.early /\ context'.followed = context.followed
    BY <1>3, <1>4
  <2> QED
    BY <1>1, <2>2, <2>3 DEF Inv, Noticed, Unread
<1>7. UNCHANGED <<Outside, known, snapshot, row, visual, bucket>>
  BY DEF Rebuild
<1>8. bucket' \in Object(Asked)
  BY <1>7 DEF Inv, Types, TurnTypes
<1> QED
  BY <1>1, <1>3, <1>4, <1>5, <1>6, <1>7, <1>8, Registers, BegunKeeps

LEMMA SlotKeeps ==
    ASSUME Inv, GoToSlot
    PROVE  Inv'
<1> USE Fields
<1>1. turn' = [at |-> "slot", object |-> turn.object, content |-> turn.content,
               fetched |-> turn.fetched, mark |-> turn.mark]
  BY DEF GoToSlot, TurnRecord
<1>2. context' = [open |-> context.open, ids |-> context.ids, message |-> turn.object,
                  latest |-> context.latest, version |-> context.version,
                  seen |-> context.seen, told |-> context.told, early |-> context.early,
                  followed |-> context.followed]
  BY DEF GoToSlot, ContextRecord
<1>3. turn' \in TurnRecord /\ context' \in ContextRecord
  BY <1>1, <1>2 DEF TurnRecord, ContextRecord, TurnStates
<1>4. /\ UNCHANGED <<Outside, row, visual, bucket>>
      /\ known' = known \/ known' = [known EXCEPT ![Asked] = Read(Asked, turn.object)]
      /\ snapshot' = snapshot \/ snapshot' = [snapshot EXCEPT ![Asked] = turn.object]
  BY DEF GoToSlot
<1>5. /\ known' \in [Messages -> Versions \cup {None}]
      /\ snapshot' = [x \in Messages |-> snapshot'[x]]
      /\ \A x \in Messages : snapshot'[x] \in Object(x)
  BY <1>4, Registers
<1>6. /\ context'.version # 0 => context'.latest # None
      /\ bucket' \in Object(Asked) /\ Noticed'
  BY <1>1, <1>2, <1>4 DEF Inv, Types, TurnTypes, ContextTypes, Noticed, Unread
<1> QED
  BY <1>1, <1>2, <1>3, <1>4, <1>5, <1>6, Registers, BegunKeeps

(* Before its turn begins, the message goes to the bucket or to the line.  *)
LEMMA WaitingKeeps ==
    ASSUME Inv, Dispatch \/ Flush
    PROVE  Inv'
<1> USE Fields, Constants
<1>1. /\ Read(Asked, turn.object) \in Versions
      /\ turn.at = "bucket" => bucket \in Message(Asked) /\ Read(Asked, bucket) \in Versions
  BY ReadIsVersion DEF Inv, Types, TurnTypes
<1>2. UNCHANGED <<Outside, known, snapshot, visual, context>>
  BY DEF Dispatch, Flush
<1>3. CASE Dispatch
  <2>1. /\ turn.at = "received"
        /\ row' = [row EXCEPT ![Asked] = Read(Asked, turn.object)]
    BY <1>3 DEF Dispatch
  <2>2. row' \in [Messages -> Versions \cup {None}] /\ row'[Asked] = Read(Asked, turn.object)
    BY <1>1, <2>1 DEF Inv, Types, Remembered
  <2>3. \/ /\ bucket' = turn.object
           /\ turn' = [at |-> "bucket", object |-> turn.object, content |-> turn.content,
                       fetched |-> turn.fetched, mark |-> turn.mark]
        \/ /\ bucket' = bucket
           /\ turn' = [at |-> "line", object |-> turn.object,
                       content |-> Read(Asked, turn.object),
                       fetched |-> turn.fetched, mark |-> turn.mark]
    BY <1>3 DEF Dispatch, TurnRecord
  <2>4. TurnTypes'
    <3>1. turn' \in TurnRecord
      BY <1>1, <2>3 DEF TurnRecord, TurnStates
    <3> QED
      BY <2>3, <3>1 DEF TurnTypes, TurnRecord, Inv, Types
  <2>5. Counts' /\ HandlerTypes' /\ Remembered' /\ ContextTypes' /\ Noticed'
    <3>1. Counts' /\ HandlerTypes'
      BY <1>2 DEF Inv, Types, Counts, HandlerTypes, Outside
    <3>2. Remembered'
      BY <1>2, <2>2 DEF Inv, Types, Remembered
    <3>3. ContextTypes'
      BY <1>2 DEF Inv, Types, ContextTypes
    <3>4. Noticed'
      BY <1>2, <2>3 DEF Noticed, Unread
    <3> QED
      BY <3>1, <3>2, <3>3, <3>4
  <2>6. Current'
    <3> SUFFICES ASSUME Asked \in Held PROVE Current'
      BY DEF Current
    <3>1. turn.object = Live /\ bucket = None
      BY <2>1 DEF Inv, Current
    <3>2. row'[Asked] = delivered[Asked]
      BY <2>2, <3>1 DEF Read
    <3> QED
      BY <1>2, <2>1, <2>3, <3>1, <3>2 DEF Inv, Current, Outside, Pending
  <2> QED
    BY <2>4, <2>5, <2>6 DEF Inv, Types
<1>4. CASE Flush
  <2>1. /\ turn.at = "bucket" /\ bucket' = None /\ row' = row
        /\ turn' = [at |-> "line", object |-> bucket, content |-> Read(Asked, bucket),
                    fetched |-> turn.fetched, mark |-> turn.mark]
    BY <1>4 DEF Flush, TurnRecord
  <2>2. TurnTypes'
    <3>1. turn' \in TurnRecord
      BY <1>1, <2>1 DEF TurnRecord, TurnStates
    <3> QED
      BY <2>1, <3>1 DEF TurnTypes, TurnRecord
  <2>3. Counts' /\ HandlerTypes' /\ Remembered' /\ ContextTypes' /\ Noticed'
    <3>1. Counts' /\ HandlerTypes'
      BY <1>2 DEF Inv, Types, Counts, HandlerTypes, Outside
    <3>2. Remembered'
      BY <1>2, <2>1 DEF Inv, Types, Remembered
    <3>3. ContextTypes'
      BY <1>2 DEF Inv, Types, ContextTypes
    <3>4. Noticed'
      BY <1>2, <2>1 DEF Noticed, Unread
    <3> QED
      BY <3>1, <3>2, <3>3, <3>4
  <2>4. Current'
    BY <1>2, <2>1 DEF Inv, Current, Outside, Pending
  <2> QED
    BY <2>2, <2>3, <2>4 DEF Inv, Types
<1> QED
  BY <1>3, <1>4

(* The turn from its beginning to its end.                                 *)
LEMMA TurnKeeps ==
    ASSUME Inv, TurnStep
    PROVE  Inv'
<1> USE Fields, Registers
<1> DEFINE moved(place, object, content, fetched) ==
              [at |-> place, object |-> object, content |-> content,
               fetched |-> fetched, mark |-> turn.mark]
<1>b. bucket \in Object(Asked) /\ newest[Asked] \in Versions
  BY Constants DEF Inv, Types, TurnTypes, Counts
<1>c. /\ context.version # 0 => context.latest # None
      /\ context.open => context.message # None
  BY DEF Inv, Types, ContextTypes
<1>1. CASE Dispatch \/ Flush
  BY <1>1, WaitingKeeps
<1>2. CASE Begin
  <2>1. turn' = moved("begun", turn.object, turn.content, turn.fetched)
    BY <1>2 DEF Begin, TurnRecord
  <2>2. context' = [open |-> TRUE, ids |-> {Asked}, message |-> turn.object,
                    latest |-> None, version |-> 0, seen |-> 0, told |-> None,
                    early |-> FALSE, followed |-> FALSE]
    BY <1>2 DEF Begin, Closed
  <2>3. turn' \in TurnRecord /\ context' \in ContextRecord
    BY <2>1, <2>2, Constants DEF TurnRecord, ContextRecord, TurnStates
  <2>4. UNCHANGED <<Outside, known, snapshot, row, visual, bucket>>
    BY <1>2 DEF Begin
  <2>5. /\ Noticed' /\ context'.version = 0 /\ context'.message # None
        /\ turn'.at = "begun"
    BY <2>1, <2>2 DEF Noticed, Unread
  <2> QED
    BY <1>b, <2>3, <2>4, <2>5, BegunKeeps
<1>3. CASE AskAgain \/ Answered \/ NoAnswer
  <2>1. \/ /\ turn.at = "begun"
           /\ turn' = moved("fetching", turn.object, turn.content, turn.fetched)
        \/ /\ turn.at = "fetching"
           /\ turn' = moved("fetched", turn.object, turn.content, newest[Asked])
        \/ /\ turn.at \in {"begun", "fetching"}
           /\ turn' = moved("extracting", turn.object, turn.content, turn.fetched)
    BY <1>3 DEF AskAgain, Answered, NoAnswer, TurnRecord
  <2>2. UNCHANGED <<Outside, known, snapshot, row, visual, bucket, context>>
    BY <1>3 DEF AskAgain, Answered, NoAnswer
  <2>3. turn' \in TurnRecord /\ turn'.at \in {"fetching", "fetched", "extracting"}
        /\ (turn'.at = "fetched" => turn'.fetched # None)
    BY <1>b, <2>1, Constants DEF TurnRecord, TurnStates
  <2>4. Noticed'
    BY <2>1, <2>2 DEF Inv, Noticed, Unread
  <2> QED
    BY <1>b, <1>c, <2>2, <2>3, <2>4, BegunKeeps
<1>4. CASE TakeAnswer
  <2>1. turn.fetched \in Versions
    BY <1>4 DEF TakeAnswer, Inv, Types, TurnTypes
  <2>2. turn' = moved("extracting", turn.fetched, turn.fetched, turn.fetched)
    BY <1>4 DEF TakeAnswer, TurnRecord
  <2>3. context' = [open |-> context.open, ids |-> context.ids, message |-> turn.fetched,
                    latest |-> context.latest, version |-> context.version,
                    seen |-> context.seen, told |-> context.told, early |-> context.early,
                    followed |-> context.followed]
    BY <1>4 DEF TakeAnswer, ContextRecord
  <2>4. turn' \in TurnRecord /\ context' \in ContextRecord
    BY <2>1, <2>2, <2>3 DEF TurnRecord, ContextRecord, TurnStates
  <2>5. row' \in [Messages -> Versions \cup {None}]
    BY <1>4, <2>1 DEF TakeAnswer
  <2>6. Noticed'
    BY <1>4, <2>2, <2>3 DEF TakeAnswer, Inv, Noticed, Unread
  <2>7. UNCHANGED <<Outside, known, snapshot, visual, bucket>>
    BY <1>4 DEF TakeAnswer
  <2> QED
    BY <1>b, <1>c, <2>1, <2>2, <2>3, <2>4, <2>5, <2>6, <2>7, BegunKeeps
<1>5. CASE Extracted
  <2>1. turn' = moved("building", turn.object, turn.content, turn.fetched)
    BY <1>5 DEF Extracted, TurnRecord
  <2>2. context' = [open |-> context.open, ids |-> {Asked, Parent},
                    message |-> turn.object, latest |-> context.latest,
                    version |-> context.version, seen |-> context.seen,
                    told |-> context.told, early |-> context.early,
                    followed |-> context.followed]
    BY <1>5 DEF Extracted, ContextRecord
  <2>3. turn' \in TurnRecord /\ context' \in ContextRecord
    BY <2>1, <2>2, Constants DEF TurnRecord, ContextRecord, TurnStates, Messages
  <2>4. visual' \in [Messages -> SUBSET Pictures]
    <3>1. Read(Asked, turn.object) \in Versions
      BY ReadIsVersion, Constants DEF Inv, Types
    <3>2. PicturesOf(Read(Asked, turn.object)) \subseteq Pictures
      BY <3>1, EditsAssumption DEF PicturesOf
    <3> QED
      BY <1>5, <3>2 DEF Extracted
  <2>5. /\ UNCHANGED <<Outside, row, bucket>>
        /\ known' = known \/ known' = [known EXCEPT ![Asked] = Read(Asked, turn.object)]
        /\ snapshot' = snapshot \/ snapshot' = [snapshot EXCEPT ![Asked] = turn.object]
    BY <1>5 DEF Extracted
  <2>6. /\ known' \in [Messages -> Versions \cup {None}]
        /\ snapshot' = [x \in Messages |-> snapshot'[x]]
        /\ \A x \in Messages : snapshot'[x] \in Object(x)
    BY <2>5
  <2>7. Noticed'
    BY <1>5, <2>1, <2>2 DEF Extracted, Inv, Noticed, Unread
  <2> QED
    BY <1>b, <1>c, <2>1, <2>2, <2>3, <2>4, <2>5, <2>6, <2>7, BegunKeeps
<1>6. CASE Built
  <2>1. CASE Unseen
    <3>1. context.version # 0
      BY <1>6, <2>1 DEF Unseen
    <3> QED
      BY <1>6, <2>1, <3>1, RebuildKeeps DEF Built
  <2>2. CASE ~Unseen
    BY <1>6, <2>2, SlotKeeps DEF Built
  <2> QED
    BY <2>1, <2>2
<1>7. CASE Rebuilt
  <2>1. turn.mark <= context.version
    BY <1>7 DEF Rebuilt, Inv, Noticed, Unread
  <2>2. CASE NoticedMeanwhile
    BY <1>7, <2>1, <2>2, RebuildKeeps DEF Rebuilt, NoticedMeanwhile
  <2>3. CASE ~NoticedMeanwhile
    <3>1. turn' = moved("retooling", turn.object, turn.content, turn.fetched)
      BY <1>7, <2>3 DEF Rebuilt, TurnRecord
    <3>2. UNCHANGED <<Outside, known, snapshot, row, visual, bucket, context>>
      BY <1>7, <2>3 DEF Rebuilt
    <3>3. turn' \in TurnRecord /\ Noticed'
      BY <3>1 DEF TurnRecord, TurnStates, Noticed, Unread
    <3> QED
      BY <1>b, <1>c, <3>1, <3>2, <3>3, BegunKeeps
  <2> QED
    BY <2>2, <2>3
<1>8. CASE Retooled
  BY <1>8, SlotKeeps DEF Retooled
<1>9. CASE Ask
  <2>1. turn' = moved("asked", turn.object, turn.content, turn.fetched)
    BY <1>9 DEF Ask, TurnRecord
  <2>2. UNCHANGED <<Outside, known, snapshot, row, visual, bucket, context>>
    BY <1>9 DEF Ask
  <2>3. turn' \in TurnRecord /\ Noticed'
    BY <2>1 DEF TurnRecord, TurnStates, Noticed, Unread
  <2> QED
    BY <1>b, <1>c, <2>1, <2>2, <2>3, BegunKeeps
<1>10. CASE Finish
  <2>1. turn' = moved("over", turn.object, turn.content, turn.fetched)
    BY <1>10 DEF Finish, TurnRecord
  <2>2. /\ UNCHANGED <<Outside, known, snapshot, row, visual, bucket>>
        /\ context' = Closed
    BY <1>10 DEF Finish
  <2>3. turn' \in TurnRecord /\ Noticed' /\ context' \in ContextRecord
    BY <2>1, <2>2 DEF TurnRecord, TurnStates, Noticed, Unread, ContextRecord, Closed
  <2>4. context'.version = 0 /\ ~context'.open
    BY <2>2 DEF Closed
  <2> QED
    BY <1>b, <2>1, <2>2, <2>3, <2>4, BegunKeeps
<1> QED
  BY <1>1, <1>2, <1>3, <1>4, <1>5, <1>6, <1>7, <1>8, <1>9, <1>10 DEF TurnStep
-----------------------------------------------------------------------------
LEMMA StepInv == Inv /\ [Next]_vars => Inv'
<1> SUFFICES ASSUME Inv, [Next]_vars PROVE Inv'
  OBVIOUS
<1>1. ASSUME NEW x \in Messages, Edit(x) PROVE Inv'
  <2>1. Counts'
    <3>1. Edits[x] \in Nat
      BY Constants
    <3> QED
      BY <1>1, <3>1 DEF Edit, Inv, Types, Counts
  <2>2. UNCHANGED <<delivered, handler, known, snapshot, row, visual, bucket, turn, context>>
    BY <1>1 DEF Edit
  <2>3. HandlerTypes' /\ Remembered' /\ TurnTypes' /\ ContextTypes'
    BY <2>2 DEF Inv, Types, HandlerTypes, Remembered, TurnTypes, ContextTypes
  <2>4. Noticed' /\ Current'
    BY <2>2 DEF Inv, Noticed, Unread, Current, Pending
  <2> QED
    BY <2>1, <2>3, <2>4 DEF Inv, Types
<1>2. ASSUME NEW x \in Messages, Deliver(x) PROVE Inv'
  BY <1>2, DeliverKeeps
<1>3. ASSUME NEW x \in Messages, NEW n \in 1..Edits[x], HandlerStep(x, n) PROVE Inv'
  BY <1>3, FetchKeeps, StoredKeeps, LoadedKeeps DEF HandlerStep
<1>4. CASE TurnStep
  BY <1>4, TurnKeeps
<1>5. CASE UNCHANGED vars
  <2>1. Types'
    BY <1>5 DEF vars, Inv, Types, Counts, HandlerTypes, Remembered, TurnTypes, ContextTypes
  <2>2. Noticed' /\ Current'
    BY <1>5 DEF vars, Inv, Noticed, Unread, Current, Pending
  <2> QED
    BY <2>1, <2>2 DEF Inv
<1> QED
  BY <1>1, <1>2, <1>3, <1>4, <1>5 DEF Next

LEMMA AlwaysInv == Spec => []Inv
BY InitInv, StepInv, PTL DEF Spec

(* Every variable of the edit path keeps its shape.                        *)
THEOREM TypeCorrect == Spec => []TypeOK
<1>1. Inv => TypeOK
  <2> SUFFICES ASSUME Inv PROVE TypeOK
    OBVIOUS
  <2>1. newest \in [Messages -> Versions] /\ delivered \in [Messages -> Versions]
    BY Constants DEF Inv, Types, Counts
  <2> QED
    BY <2>1 DEF Inv, Types, Counts, HandlerTypes, Remembered, TurnTypes, ContextTypes,
         Handlers, Message, TypeOK
<1> QED
  BY <1>1, AlwaysInv, PTL

(* A complete prompt was begun after the last notice of either message, and*)
(* answers no older text than the one the turn was last told of, unless a  *)
(* notice of the parent brought back the message the turn had written over *)
(* a text it was told of too early.                                        *)
THEOREM PromptsAreFresh == Spec => PromptIsFresh
<1>1. Inv /\ [Next]_vars =>
        [Completes => TakesAllIn /\ (Reverted \/ AnswersTold)]_vars
  <2> SUFFICES ASSUME Inv, Next, Completes
               PROVE  TakesAllIn /\ (Reverted \/ AnswersTold)
    BY DEF vars, Completes
  <2> USE Fields DEF Building
  <2>1. Built \/ Rebuilt
    <3>1. turn' # turn /\ turn.at \in {"building", "rebuilding"}
      BY DEF Completes
    <3>2. TurnStep
      BY <3>1 DEF Next, Edit, Deliver, HandlerStep, FetchUpdate, Register, Stored, Loaded
    <3>3. CASE Extracted
      BY <3>1, <3>3 DEF Extracted
    <3> QED
      BY <3>1, <3>2, <3>3 DEF TurnStep, Dispatch, Flush, Begin, AskAgain, Answered,
           TakeAnswer, NoAnswer, Retooled, Ask, Finish
  <2>2. CASE Built
    <3>1. turn.at = "building" /\ context.seen = 0
      BY <2>2 DEF Built, Inv, Noticed, Unread
    <3>2. CASE Unseen
      <4>1. turn'.at = "rebuilding"
        BY <2>2, <3>2 DEF Built, Rebuild, TurnRecord
      <4> QED
        BY <4>1 DEF Completes
    <3>3. CASE ~Unseen
      <4>1. context.version = 0
        BY <3>1, <3>3 DEF Unseen
      <4>2. context.told = None
        BY <3>1, <4>1 DEF Inv, Noticed, Unread
      <4> QED
        BY <4>1, <4>2 DEF TakesAllIn, AnswersTold
    <3> QED
      BY <3>2, <3>3
  <2>3. CASE Rebuilt
    <3>1. CASE NoticedMeanwhile
      <4>1. turn'.at = "rebuilding"
        BY <2>3, <3>1 DEF Rebuilt, Rebuild, TurnRecord
      <4> QED
        BY <4>1 DEF Completes
    <3>2. CASE ~NoticedMeanwhile
      BY <2>3, <3>2 DEF Rebuilt, NoticedMeanwhile, Inv, Noticed, Unread, TakesAllIn,
           AnswersTold, Reverted
    <3> QED
      BY <3>1, <3>2
  <2> QED
    BY <2>1, <2>2, <2>3
<1> QED
  BY <1>1, AlwaysInv, PTL DEF Spec, PromptIsFresh

(* While a message waits, its row and its bucket are those of its newest   *)
(* update as soon as its updates have been handled.                        *)
THEOREM WaitingStaysCurrent == Spec => []WaitingIsCurrent
<1>1. Inv => WaitingIsCurrent
  BY Constants DEF Inv, Current, WaitingIsCurrent, Settled, Read
<1> QED
  BY <1>1, AlwaysInv, PTL
------------------------------------------------------------------------------
(* Who is inside the guard, and who has had the flag written.               *)
InGuard(c) == stage[c] \notin {"off", "outer"}
Beyond(c) == stage[c] \notin {"off", "flag", "outer"}

(* The guard is up exactly while a pass is inside it, and one is at most.   *)
Guarded ==
    /\ guard <=> \E c \in Callers : InGuard(c)
    /\ \A c, d \in Callers : InGuard(c) /\ InGuard(d) => c = d

(* A lock is held by the pass that writes through it.  A pass that waits    *)
(* for it to write for the last time has been cancelled at a stop, and      *)
(* nobody starts any more.                                                  *)
Locks ==
    /\ \A c \in Callers : lock = c <=> Shared(stage[c]) /\ write[c] # {}
    /\ \A c \in Callers : write[c] # {} => stage[c] \in Writing
    /\ \A c \in Callers : stage[c] \in Writing /\ ~Shared(stage[c]) => write[c] # {}
    /\ \A c, d \in Callers : Beyond(c) => stage[d] # "outer"
    /\ \A c \in Callers : stage[c] = "outer" /\ write[c] = {} => mode # "up" /\ ~guard

(* A process that is down runs nothing.                                     *)
Down == mode = "down" => /\ \A c \in Callers : stage[c] = "off"
                         /\ saves = << >> /\ stray = {}

(* What was recorded and is not lost is in the ring, and a process that is  *)
(* down has it on disk.                                                     *)
Rings == /\ kept \ gone \subseteq Members(ring)
         /\ mode = "down" => kept \ gone \subseteq Members(disk)

(* Events are said before anything is done with them, and a pass started no *)
(* later than the ring was last looked at.                                  *)
Clocks ==
    /\ drained <= clock /\ \A e \in Events : born[e] <= clock
    /\ \A e \in kept : born[e] # 0
    /\ \A c \in Callers : started[c] <= drained
    /\ \A c \in Callers : \A e \in slice[c] : born[e] # 0 /\ born[e] <= started[c]
    /\ \A e \in Events : heard[e] # 0 => born[e] # 0

(* A mark that passes nothing by.                                           *)
Passes(mark) == /\ mark <= drained
                /\ \A e \in kept : heard[e] = 0 /\ born[e] <= mark => e \in late \cup gone
Looked == {"snapshot", "open", "ask", "apply"}
Marks ==
    /\ Passes(state.mark)
    /\ \A f \in stray : Passes(f.mark)
    /\ \A c \in Callers : \A f \in write[c] : Passes(f.mark)
    /\ \A c \in Callers : stage[c] \in Looked =>
         \A e \in kept : heard[e] = 0 /\ born[e] <= started[c] => e \in late \cup gone \cup slice[c]

(* What was assimilated is below the mark, or the pass is about to move it. *)
Covers(mark) == \A e \in Events : heard[e] # 0 =>
    born[e] <= mark \/ \E c \in Callers : stage[c] = "close" /\ e \in slice[c]
Hears ==
    /\ \A c \in Callers : stage[c] \in Looked => started[c] = drained
    /\ \A c \in Callers : \A f \in write[c] : stage[c] = "close" => f.mark = started[c]
    /\ ~(redone \/ undone) =>
         /\ \A e \in Events : heard[e] <= 1 \/ e \in reread
         /\ Covers(state.mark)
         /\ \A c \in Callers : \A f \in write[c] : Covers(f.mark)
         /\ \A c \in Callers : stage[c] \in Looked =>
              \A e \in slice[c] : heard[e] = 0 \/ e \in reread

(* The flag is up from the first write on, and somebody is left to lower it.*)
Raised == {"slot", "begin", "empty", "snapshot", "open", "ask", "apply", "close"}
Lowers(c) == Beyond(c) \/ (stage[c] = "outer" /\ write[c] # {})
Flags ==
    /\ \A c \in Callers : \A f \in write[c] : f.running <=> stage[c] \in {"flag", "open"}
    /\ ~(unsure \/ strayed) =>
         /\ stray = {}
         /\ \A c \in Callers : stage[c] \in Raised => state.running
         /\ state.running => \E c \in Callers : Lowers(c)

RemInv == RemTypeOK /\ Guarded /\ Locks /\ Down /\ Rings /\ Clocks /\ Marks /\ Hears /\ Flags
-----------------------------------------------------------------------------
(* What is in a ring, and what an event adds to it.                        *)
LEMMA MembersIs ==
    ASSUME NEW S, NEW s \in Seq(S), NEW x
    PROVE  /\ Members(Append(s, x)) = Members(s) \cup {x}
           /\ Members(s) \subseteq S
<1>1. Members(s) \subseteq S
  BY DEF Members
<1>2. \A i \in DOMAIN s : Append(s, x)[i] = s[i] /\ i \in DOMAIN Append(s, x)
  OBVIOUS
<1>3. Append(s, x)[Len(s) + 1] = x /\ DOMAIN Append(s, x) = DOMAIN s \cup {Len(s) + 1}
  OBVIOUS
<1> QED BY <1>1, <1>2, <1>3 DEF Members

(* The trimmed ring has the type of the ring.                              *)
LEMMA NewestIs ==
    ASSUME NEW S, NEW s \in Seq(S), NEW n \in Nat \ {0}
    PROVE  Newest(s, n) \in Seq(S)
BY DEF Newest

(* The newest event is kept.                                                *)
LEMMA NewestHasLast ==
    ASSUME NEW S, NEW s \in Seq(S), NEW x \in S, NEW n \in Nat \ {0}
    PROVE  x \in Members(Newest(Append(s, x), n))
<1> DEFINE t == Append(s, x)
           k == IF Len(t) > n THEN Len(t) - n + 1 ELSE 1
<1>1. t \in Seq(S) /\ Len(t) = Len(s) + 1 /\ t[Len(t)] = x
  OBVIOUS
<1>2. k \in 1..Len(t)
  BY <1>1
<1> HIDE DEF t, k
<1>3. SubSeq(t, k, Len(t))[Len(t) - k + 1] = x
  BY <1>1, <1>2
<1>4. Len(t) - k + 1 \in DOMAIN SubSeq(t, k, Len(t))
  BY <1>1, <1>2
<1>5. x \in Members(SubSeq(t, k, Len(t)))
  BY <1>3, <1>4 DEF Members
<1> QED BY <1>5 DEF Newest, t, k

(* The file a thread is handed: which it is, and when there is one.        *)
LEMMA HandedIs ==
    ASSUME NEW at, NEW since \in Nat, NEW free, state' \in Files
    PROVE  /\ Handed(at, since, free) \subseteq Files
           /\ Handed(at, since, free) # {} <=> at \in Writing /\ (Shared(at) => free)
           /\ \A f \in Handed(at, since, free) :
                /\ f.mark = IF at \in {"empty", "close"} THEN since ELSE state'.mark
                /\ f.running <=> at \in {"flag", "open"}
<1> DEFINE u == Updated(at, since, state')
<1>1. /\ u.mark = IF at \in {"empty", "close"} THEN since ELSE state'.mark
      /\ u.running = (at \in {"flag", "open"}) /\ u = [mark |-> u.mark, running |-> u.running]
  BY DEF Updated, File
<1>2. u.mark \in Nat /\ u.running \in BOOLEAN
  BY <1>1 DEF Files
<1>3. u \in Files
  BY <1>1, <1>2 DEF Files
<1>4. Handed(at, since, free) = IF at \in Writing /\ (Shared(at) => free) THEN {u} ELSE {}
  BY DEF Handed
<1> HIDE DEF u
<1> QED BY <1>1, <1>3, <1>4

(* What a step of a pass keeps of the types.                                *)
LEMMA GotoTyped ==
    ASSUME PassTypes, NEW c \in Callers, NEW at \in Stages, Goto(c, at),
           state' \in Files, started' \in [Callers -> Nat],
           slice' \in [Callers -> SUBSET Events], UNCHANGED stray
    PROVE  /\ stage' = [stage EXCEPT ![c] = at] /\ stage' \in [Callers -> Stages]
           /\ write' \in [Callers -> SUBSET Files]
           /\ lock' \in Callers \cup {Nobody} /\ guard' \in BOOLEAN
           /\ state' \in Files /\ stray' \subseteq Files
<1>1. Handed(at, started'[c], lock \in {c, Nobody}) \subseteq Files
  BY HandedIs
<1> QED BY <1>1 DEF Goto, PassTypes

(* Where a write and an exception lead.                                    *)
LEMMA Ways ==
    /\ Writing \subseteq Stages /\ \A s \in Writing : After[s] \in Stages
    /\ \A s : Unwound(s) \in {"inner", "outer"} /\ Unwound(s) \in Stages
    /\ After["flag"] = "slot" /\ After["open"] = "ask" /\ After["empty"] = "emptylog"
    /\ After["close"] = "log" /\ After["inner"] = "outer" /\ After["outer"] = "off"
BY DEF Writing, Stages, Inside, After, Unwound

(* The steps of a pass.                                                     *)
Passage(c) == \/ Landed(c) \/ WriteFails(c) \/ Admitted(c) \/ Refused(c) \/ Drain(c)
              \/ Snapshot(c) \/ Replied(c) \/ Apply(c) \/ Logged(c)

(* What leaves the passes and their file alone.                             *)
Elsewhere == \/ \E e \in Events : Said(e) \/ RecordUser(e) \/ RecordAssistant(e)
             \/ Debounced \/ SaveLands \/ SaveFails \/ Switch \/ FlushRing

(* What the ring and the switch leave alone.                               *)
LEMMA ElsewhereIs ==
    ASSUME Elsewhere
    PROVE  /\ UNCHANGED <<state, guard, lock, stage, started, slice, write, stray>>
           /\ UNCHANGED <<heard, drained, reread, redone, unsure, strayed, undone>>
           /\ mode' = mode \/ (mode = "stopping" /\ mode' = "flushing")
BY DEF Elsewhere, Said, Says, RecordUser, RecordAssistant, Recorded, Debounced, SaveLands,
       SaveFails, Switch, FlushRing, Trouble, pass, ringVars, bounds, memory, marks

(* The way of a pass, from where it is to where it gets.                    *)
Leads(from, at) ==
    \/ from = "flag" /\ at = "slot"
    \/ /\ from \in Stages \ {"off", "flag", "outer"} /\ at \in Stages \ {"off", "flag"}
    \/ from = "outer" /\ at = "off"

(* Every passage follows the way of a pass.                                *)
LEMMA PassageIs ==
    ASSUME RemTypeOK, Locks, NEW c \in Callers, Passage(c)
    PROVE  \E at \in Stages :
              /\ Goto(c, at) /\ Leads(stage[c], at)
              /\ stage[c] \in {"flag", "outer"} => write[c] # {}
<1>1. CASE Landed(c)
  <2>1. write[c] # {} /\ stage[c] \in Writing /\ Goto(c, After[stage[c]])
    BY <1>1 DEF Landed, Locks
  <2>2. After[stage[c]] \in Stages /\ Leads(stage[c], After[stage[c]])
    BY <2>1, Ways DEF Writing, Leads, Stages, Inside
  <2> QED BY <2>1, <2>2
<1>2. CASE WriteFails(c)
  <2>1. write[c] # {} /\ stage[c] \in Writing
    BY <1>2 DEF WriteFails, Locks
  <2>2. CASE Goto(c, After[stage[c]])
    <3>1. After[stage[c]] \in Stages /\ Leads(stage[c], After[stage[c]])
      BY <2>1, Ways DEF Writing, Leads, Stages, Inside
    <3> QED BY <2>1, <2>2, <3>1
  <2>3. CASE stage[c] \in {"open", "empty", "close"} /\ Goto(c, Unwound(stage[c]))
    <3>1. Unwound(stage[c]) \in Stages /\ Leads(stage[c], Unwound(stage[c]))
      BY <2>3 DEF Unwound, Leads, Stages, Inside, Writing
    <3> QED BY <2>1, <2>3, <3>1
  <2> QED BY <1>2, <2>2, <2>3 DEF WriteFails
<1>3. CASE Refused(c) \/ Logged(c)
  <2>1. stage[c] \in {"slot", "ask", "log", "emptylog"} /\ Goto(c, Unwound(stage[c]))
    BY <1>3 DEF Refused, Logged
  <2>2. Unwound(stage[c]) \in Stages /\ Leads(stage[c], Unwound(stage[c]))
    BY <2>1 DEF Unwound, Leads, Stages, Inside, Writing
  <2> QED BY <2>1, <2>2
<1>4. CASE Admitted(c)
  BY <1>4 DEF Admitted, Leads, Stages, Inside, Writing
<1>5. CASE Drain(c)
  <2>1. "empty" \in Stages /\ "snapshot" \in Stages /\ Leads("begin", "empty")
        /\ Leads("begin", "snapshot")
    BY DEF Leads, Stages, Inside, Writing
  <2>2. stage[c] = "begin" /\ (Goto(c, "empty") \/ Goto(c, "snapshot"))
    BY <1>5 DEF Drain
  <2> QED BY <2>1, <2>2
<1>6. CASE Snapshot(c)
  BY <1>6 DEF Snapshot, Leads, Stages, Inside, Writing
<1>7. CASE Replied(c)
  BY <1>7 DEF Replied, Leads, Stages, Inside, Writing
<1>8. CASE Apply(c)
  BY <1>8 DEF Apply, Leads, Stages, Inside, Writing
<1> QED BY <1>1, <1>2, <1>3, <1>4, <1>5, <1>6, <1>7, <1>8 DEF Passage

(* What a pass drains: all that is after the mark, and what is before it    *)
(* only if it could not read the mark.                                      *)
LEMMA DrainIs ==
    ASSUME RemTypeOK, NEW c \in Callers, Drain(c)
    PROVE  /\ stage[c] = "begin" /\ clock' = clock + 1 /\ drained' = clock + 1
           /\ started' = [started EXCEPT ![c] = clock + 1]
           /\ slice' \in [Callers -> SUBSET Events]
           /\ \A d \in Callers \ {c} : slice'[d] = slice[d]
           /\ \A e \in slice'[c] : /\ e \in Members(ring) /\ born[e] # 0
                                   /\ born[e] > state.mark \/ e \in reread'
           /\ \A e \in Members(ring) : born[e] > state.mark => e \in slice'[c]
           /\ reread \subseteq reread' /\ reread' \subseteq reread \cup Events
           /\ UNCHANGED <<others, state, heard, kept, late, gone, marks>>
<1>1. /\ Members(ring) \subseteq Events /\ born \in [Events -> Nat] /\ state.mark \in Nat
      /\ slice \in [Callers -> SUBSET Events]
  BY MembersIs DEF RemTypeOK, EventTypes, PassTypes, Files
<1>2. PICK since \in {state.mark, 0} :
         slice' = [slice EXCEPT ![c] = {e \in Members(ring) : born[e] > since}]
  BY DEF Drain
<1>3. since \in Nat /\ since <= state.mark
  BY <1>1
<1>4. slice'[c] = {e \in Members(ring) : born[e] > since}
      /\ \A d \in Callers \ {c} : slice'[d] = slice[d]
  BY <1>1, <1>2
<1>5. reread' = reread \cup {e \in slice'[c] : born[e] <= state.mark}
  BY DEF Drain
<1>6. slice' \in [Callers -> SUBSET Events]
  BY <1>1, <1>2
<1>7. \A e \in Members(ring) : born[e] \in Nat
  BY <1>1
<1>8. /\ \A e \in slice'[c] : /\ e \in Members(ring) /\ born[e] # 0
                              /\ born[e] > state.mark \/ e \in reread'
      /\ \A e \in Members(ring) : born[e] > state.mark => e \in slice'[c]
  BY <1>1, <1>3, <1>4, <1>5, <1>7
<1>9. reread \subseteq reread' /\ reread' \subseteq reread \cup Events
  BY <1>1, <1>4, <1>5
<1>10. /\ stage[c] = "begin" /\ clock' = clock + 1 /\ drained' = clock + 1
       /\ started' = [started EXCEPT ![c] = clock + 1]
       /\ UNCHANGED <<others, state, heard, kept, late, gone, marks>>
  BY DEF Drain
<1> QED BY <1>4, <1>6, <1>8, <1>9, <1>10

(* What a passage does to the rest.                                         *)
LEMMA PassageTypes ==
    ASSUME RemTypeOK, NEW c \in Callers, Passage(c)
    PROVE  /\ state' \in Files /\ started' \in [Callers -> Nat]
           /\ slice' \in [Callers -> SUBSET Events]
           /\ UNCHANGED <<stray, mode, strayed, undone>>
           /\ redone' \in BOOLEAN /\ unsure' \in BOOLEAN
           /\ state' = state \/ (Landed(c) /\ state' \in write[c])
           /\ (started' = started /\ slice' = slice) \/ Drain(c)
<1> USE DEF RemTypeOK, PassTypes, EventTypes, others, memory, marks, ringVars
<1>1. CASE Landed(c)
  BY <1>1 DEF Landed
<1>2. CASE WriteFails(c)
  BY <1>2 DEF WriteFails
<1>3. CASE Refused(c) \/ Logged(c) \/ Admitted(c) \/ Snapshot(c) \/ Replied(c)
  BY <1>3 DEF Refused, Logged, Admitted, Snapshot, Replied, Quietly
<1>4. CASE Drain(c)
  <2>1. clock + 1 \in Nat
    OBVIOUS
  <2> QED BY <1>4, <2>1, DrainIs
<1>5. CASE Apply(c)
  BY <1>5 DEF Apply
<1> QED BY <1>1, <1>2, <1>3, <1>4, <1>5 DEF Passage

(* A start takes the guard, and the lock if it is free.                    *)
LEMMA StartIs ==
    ASSUME RemTypeOK, NEW c \in Callers, Start(c)
    PROVE  /\ mode = "up" /\ mode' = "up" /\ stage[c] = "off" /\ ~guard /\ guard'
           /\ stage' = [stage EXCEPT ![c] = "flag"] /\ stage' \in [Callers -> Stages]
           /\ started' = [started EXCEPT ![c] = 0] /\ slice' = [slice EXCEPT ![c] = {}]
           /\ write' = [write EXCEPT ![c] = Handed("flag", 0, lock = Nobody)]
           /\ write' \in [Callers -> SUBSET Files]
           /\ lock' = IF lock = Nobody THEN c ELSE lock
           /\ UNCHANGED <<state, stray, clock, born, ring, dirty, timer, saves, disk, enabled,
                          heard, kept, late, gone, drained, reread, redone, unsure, strayed,
                          undone>>
<1>1. /\ mode = "up" /\ stage[c] = "off" /\ ~guard /\ guard'
      /\ stage' = [stage EXCEPT ![c] = "flag"]
      /\ started' = [started EXCEPT ![c] = 0] /\ slice' = [slice EXCEPT ![c] = {}]
      /\ write' = [write EXCEPT ![c] = Handed("flag", 0, lock = Nobody)]
      /\ lock' = IF lock = Nobody THEN c ELSE lock
  BY DEF Start
<1>2. UNCHANGED <<state, stray, mode, clock, born, ring, dirty, timer, saves, disk, enabled,
                  heard, kept, late, gone, drained, reread, redone, unsure, strayed, undone>>
  BY DEF Start, others, memory, marks, ringVars
<1>3. Handed("flag", 0, lock = Nobody) \subseteq Files
  BY <1>2, HandedIs DEF RemTypeOK, PassTypes
<1>4. "flag" \in Stages
  BY DEF Stages, Writing
<1> QED BY <1>1, <1>2, <1>3, <1>4 DEF RemTypeOK, PassTypes

(* A write that waited for the lock begins.                                *)
LEMMA LockedIs ==
    ASSUME RemTypeOK, NEW c \in Callers, Locked(c)
    PROVE  /\ Shared(stage[c]) /\ write[c] = {} /\ lock = Nobody /\ lock' = c
           /\ write' = [write EXCEPT ![c] = Handed(stage[c], started[c], TRUE)]
           /\ write' \in [Callers -> SUBSET Files]
           /\ UNCHANGED <<state, stray, guard, stage, started, slice, mode>>
           /\ UNCHANGED <<clock, born, ring, dirty, timer, saves, disk, enabled,
                          heard, kept, late, gone, drained, reread, redone, unsure, strayed,
                          undone>>
<1>1. /\ Shared(stage[c]) /\ write[c] = {} /\ lock = Nobody /\ lock' = c
      /\ write' = [write EXCEPT ![c] = Handed(stage[c], started[c], TRUE)]
      /\ UNCHANGED <<state, stray, guard, stage, started, slice, mode>>
      /\ UNCHANGED <<clock, born, ring, dirty, timer, saves, disk, enabled,
                     heard, kept, late, gone, drained, reread, redone, unsure, strayed, undone>>
  BY DEF Locked, others, memory, marks, ringVars
<1>2. Handed(stage[c], started[c], TRUE) \subseteq Files
  BY <1>1, HandedIs DEF RemTypeOK, PassTypes
<1> QED BY <1>1, <1>2 DEF RemTypeOK, PassTypes

(* A cancellation moves the passes of cs and frees their lock.             *)
LEMMA CancelIs ==
    ASSUME RemTypeOK, NEW cs \in SUBSET Callers, Cancel(cs)
    PROVE  /\ stage' \in [Callers -> Stages] /\ write' \in [Callers -> SUBSET Files]
           /\ \A c \in Callers \ cs : stage'[c] = stage[c] /\ write'[c] = write[c]
           /\ \A c \in cs : /\ stage'[c] = Fled(stage[c])
                            /\ write'[c] = Handed(Fled(stage[c]), started[c],
                                                  lock \in cs \cup {Nobody})
           /\ stray' = stray \cup UNION {write[c] : c \in cs} /\ stray' \subseteq Files
           /\ guard' = \E c \in Callers : stage'[c] \notin {"off", "outer"}
           /\ lock \notin cs \cup {Nobody} => lock' = lock
           /\ lock \in cs \cup {Nobody} =>
                /\ (\A c \in cs : stage'[c] # "outer") => lock' = Nobody
                /\ (\E c \in cs : stage'[c] = "outer") => lock' \in cs /\ stage'[lock'] = "outer"
           /\ redone' = (redone \/ \E c \in cs : Redo(c))
           /\ strayed' = (strayed \/ \E c \in cs : write[c] # {})
           /\ UNCHANGED <<state, started, slice, clock, born, ring, disk, enabled, heard, kept,
                          late, gone, drained, reread, unsure, undone>>
<1> DEFINE free == lock \in cs \cup {Nobody}
           leaving == {c \in cs : Fled(stage[c]) = "outer"}
<1>1. /\ stage' = [c \in Callers |-> IF c \in cs THEN Fled(stage[c]) ELSE stage[c]]
      /\ write' = [c \in Callers |-> IF c \in cs THEN Handed(Fled(stage[c]), started[c], free)
                                     ELSE write[c]]
      /\ stray' = stray \cup UNION {write[c] : c \in cs}
      /\ guard' = \E c \in Callers : stage'[c] \notin {"off", "outer"}
      /\ lock' = IF ~ free THEN lock
                 ELSE IF leaving = {} THEN Nobody ELSE CHOOSE c \in leaving : TRUE
      /\ redone' = (redone \/ \E c \in cs : Redo(c))
      /\ strayed' = (strayed \/ UNION {write[c] : c \in cs} # {})
  BY Zenon DEF Cancel
<1>2. UNCHANGED <<state, started, slice, clock, born, ring, disk, enabled, heard, kept,
                  late, gone, drained, reread, unsure, undone>>
  BY DEF Cancel, memory
<1>3. \A c \in Callers : Fled(stage[c]) \in Stages
  BY Ways DEF Fled, Stages
<1>4. \A c \in Callers : Handed(Fled(stage[c]), started[c], free) \subseteq Files
  BY <1>2, HandedIs DEF RemTypeOK, PassTypes
<1>5. stage' \in [Callers -> Stages]
  BY <1>1, <1>3 DEF RemTypeOK, PassTypes
<1>6. write' \in [Callers -> SUBSET Files]
  BY <1>1, <1>4 DEF RemTypeOK, PassTypes
<1>7. stray' \subseteq Files
  BY <1>1 DEF RemTypeOK, PassTypes
<1>8. \A c \in cs : stage'[c] = Fled(stage[c])
                    /\ write'[c] = Handed(Fled(stage[c]), started[c], free)
  BY <1>1
<1>9. \A c \in Callers \ cs : stage'[c] = stage[c] /\ write'[c] = write[c]
  BY <1>1
<1>10. (UNION {write[c] : c \in cs} # {}) <=> \E c \in cs : write[c] # {}
  OBVIOUS
<1>11. ~free => lock' = lock
  BY <1>1
<1>12. free /\ (\A c \in cs : stage'[c] # "outer") => lock' = Nobody
  <2>1. (\A c \in cs : stage'[c] # "outer") => leaving = {}
    BY <1>8
  <2> QED BY <1>1, <2>1
<1>13. free /\ (\E c \in cs : stage'[c] = "outer") => lock' \in cs /\ stage'[lock'] = "outer"
  <2> SUFFICES ASSUME free, \E c \in cs : stage'[c] = "outer"
               PROVE  lock' \in cs /\ stage'[lock'] = "outer"
    OBVIOUS
  <2>1. leaving # {}
    BY <1>8
  <2>2. lock' = CHOOSE c \in leaving : TRUE
    BY <1>1, <2>1
  <2>3. lock' \in leaving
    <3> HIDE DEF leaving
    <3> QED BY <2>1, <2>2
  <2> QED BY <1>8, <2>3
<1> HIDE DEF leaving
<1>14. strayed' = (strayed \/ \E c \in cs : write[c] # {})
  BY <1>1, <1>10
<1>15. /\ guard' = \E c \in Callers : stage'[c] \notin {"off", "outer"}
       /\ redone' = (redone \/ \E c \in cs : Redo(c))
       /\ stray' = stray \cup UNION {write[c] : c \in cs}
  BY <1>1, Zenon
<1> QED BY <1>2, <1>5, <1>6, <1>7, <1>8, <1>9, <1>11, <1>12, <1>13, <1>14, <1>15, Zenon

Halts == Stop \/ EndLoop

(* A stop and the end of the loop cancel passes and start none.            *)
LEMMA HaltsIs ==
    ASSUME Halts
    PROVE  /\ \E cs \in SUBSET Callers : Cancel(cs)
           /\ mode # "down" /\ mode' \in {"stopping", "ending"}
           /\ UNCHANGED <<dirty, timer, saves>>
<1>1. Scheduler \in Callers
  BY RemAssumption
<1>2. CASE Stop
  BY <1>1, <1>2 DEF Stop
<1>3. CASE EndLoop
  BY <1>3 DEF EndLoop
<1> QED BY <1>2, <1>3 DEF Halts

(* The cases of a step.                                                     *)
LEMMA StepIs ==
    ASSUME [RemNext]_remVars
    PROVE  \/ Elsewhere \/ UNCHANGED remVars
           \/ \E c \in Callers : Start(c) \/ Locked(c) \/ Passage(c)
           \/ Halts \/ Exit \/ StrayLands \/ Crash \/ Restart
BY DEF RemNext, Step, Elsewhere, Passage, Halts

(* Nothing but a restart, a crash or an exit changes where all the passes   *)
(* stand at once.                                                           *)
LEMMA RestIs ==
    ASSUME UNCHANGED remVars \/ Exit \/ StrayLands \/ Restart
    PROVE  /\ UNCHANGED <<stage, started, slice, write, lock, guard, clock, born, heard, kept,
                          late, drained, reread, redone, unsure, strayed, saves>>
           /\ UNCHANGED <<mode, gone, ring, disk, enabled, dirty, timer>> \/ Exit \/ Restart
           /\ UNCHANGED <<state, stray, undone>> \/ StrayLands
BY DEF remVars, Exit, StrayLands, Restart, ringVars, pass, bounds, memory, marks

(* What a crash leaves: a state file and a ring that were being written.   *)
LEMMA CrashIs ==
    ASSUME RemTypeOK, Crash
    PROVE  /\ mode' = "down" /\ stage' = [c \in Callers |-> "off"]
           /\ started' = [c \in Callers |-> 0]
           /\ slice' = [c \in Callers |-> {}] /\ write' = [c \in Callers |-> {}]
           /\ guard' = FALSE /\ lock' = Nobody /\ stray' = {} /\ saves' = << >>
           /\ timer' = FALSE /\ unsure' = TRUE
           /\ redone' = (redone \/ \E c \in Callers : Redo(c))
           /\ undone' = (undone \/ state'.mark < state.mark)
           /\ state' = state \/ state' \in stray \/ \E c \in Callers : state' \in write[c]
           /\ disk' = disk \/ (saves # << >> /\ disk' = Head(saves))
           /\ gone' = gone \cup (Members(ring) \ Members(disk'))
           /\ UNCHANGED <<clock, born, ring, dirty, enabled, heard, kept, late, drained, reread,
                          strayed>>
BY Zenon DEF Crash

(* The types of what the passes hold are kept.                             *)
LEMMA PassTypesStep ==
    ASSUME RemTypeOK, Locks, [RemNext]_remVars
    PROVE  PassTypes'
<1>a. PassTypes
  BY DEF RemTypeOK
<1>1. CASE Elsewhere
  BY <1>a, <1>1, ElsewhereIs DEF PassTypes
<1>2. CASE \E c \in Callers : Start(c)
  <2>1. PICK c \in Callers : Start(c)
    BY <1>2
  <2>2. started' \in [Callers -> Nat] /\ slice' \in [Callers -> SUBSET Events]
    BY <1>a, <2>1, StartIs DEF PassTypes
  <2>3. lock' \in Callers \cup {Nobody} /\ guard' \in BOOLEAN
    BY <1>a, <2>1, StartIs DEF PassTypes, Start
  <2> QED BY <1>a, <2>1, <2>2, <2>3, StartIs DEF PassTypes
<1>3. CASE \E c \in Callers : Locked(c)
  BY <1>a, <1>3, LockedIs DEF PassTypes
<1>4. CASE \E c \in Callers : Passage(c)
  <2>1. PICK c \in Callers : Passage(c)
    BY <1>4
  <2>2. PICK at \in Stages : Goto(c, at)
    BY <2>1, PassageIs
  <2>3. /\ state' \in Files /\ started' \in [Callers -> Nat]
        /\ slice' \in [Callers -> SUBSET Events] /\ UNCHANGED stray
        /\ strayed' = strayed /\ undone' = undone /\ redone' \in BOOLEAN /\ unsure' \in BOOLEAN
    BY <2>1, PassageTypes
  <2>4. /\ stage' \in [Callers -> Stages] /\ write' \in [Callers -> SUBSET Files]
        /\ lock' \in Callers \cup {Nobody} /\ guard' \in BOOLEAN /\ stray' \subseteq Files
    BY <1>a, <2>2, <2>3, GotoTyped
  <2> QED BY <1>a, <2>3, <2>4 DEF PassTypes
<1>5. CASE Halts
  <2>1. PICK cs \in SUBSET Callers : Cancel(cs)
    BY <1>5, HaltsIs
  <2>2. /\ stage' \in [Callers -> Stages] /\ write' \in [Callers -> SUBSET Files]
        /\ stray' \subseteq Files /\ guard' \in BOOLEAN
        /\ redone' \in BOOLEAN /\ strayed' \in BOOLEAN
        /\ UNCHANGED <<state, started, slice, unsure, undone>>
    BY <2>1, CancelIs
  <2>3. lock' \in Callers \cup {Nobody}
    BY <1>a, <2>1, CancelIs DEF PassTypes
  <2> QED BY <1>a, <2>2, <2>3 DEF PassTypes
<1>6. CASE UNCHANGED remVars \/ Exit \/ StrayLands \/ Restart
  <2>1. CASE StrayLands
    <3>1. state' \in stray /\ stray' \subseteq stray /\ undone' \in BOOLEAN
      BY <2>1 DEF StrayLands
    <3> QED BY <1>a, <1>6, <3>1, RestIs DEF PassTypes
  <2>2. CASE UNCHANGED <<state, stray, undone>>
    BY <1>a, <1>6, <2>2, RestIs DEF PassTypes
  <2> QED BY <1>6, <2>1, <2>2, RestIs
<1>7. CASE Crash
  <2>1. state' \in Files
    BY <1>a, <1>7, CrashIs DEF PassTypes
  <2>2. stage' \in [Callers -> Stages] /\ started' \in [Callers -> Nat]
    BY <1>7, CrashIs DEF Stages
  <2> QED BY <1>a, <1>7, <2>1, <2>2, CrashIs DEF PassTypes
<1> QED BY <1>1, <1>2, <1>3, <1>4, <1>5, <1>6, <1>7, StepIs

(* Queues keep the type of what is in them.                                 *)
LEMMA Appended ==
    ASSUME NEW S, NEW s \in Seq(S), NEW x \in S
    PROVE  Append(s, x) \in Seq(S)
OBVIOUS

(* The head and the tail of a queue.                                       *)
LEMMA Taken ==
    ASSUME NEW S, NEW s \in Seq(S), s # << >>
    PROVE  Head(s) \in S /\ Tail(s) \in Seq(S)
OBVIOUS

(* The types of what the ring and the history hold are kept.               *)
LEMMA EventTypesStep ==
    ASSUME RemTypeOK, [RemNext]_remVars
    PROVE  EventTypes'
<1>a. EventTypes /\ MaxEvents \in Nat \ {0}
  BY RemAssumption DEF RemTypeOK
<1>1. CASE Elsewhere
  <2>1. ASSUME NEW e \in Events, Said(e)
        PROVE  EventTypes'
    <3>1. clock' \in Nat /\ born' \in [Events -> Nat]
      BY <1>a, <2>1 DEF Said, Says, EventTypes
    <3> QED BY <1>a, <2>1, <3>1 DEF Said, EventTypes, ringVars, memory
  <2>2. ASSUME NEW e \in Events, RecordUser(e) \/ RecordAssistant(e)
        PROVE  EventTypes'
    <3>1. clock' \in Nat /\ born' \in [Events -> Nat]
      <4>1. CASE RecordUser(e)
        BY <1>a, <4>1 DEF RecordUser, EventTypes
      <4>2. CASE Says(e)
        BY <1>a, <4>2 DEF Says, EventTypes
      <4> QED BY <2>2, <4>1, <4>2 DEF RecordAssistant
    <3>2. PICK said : Recorded(e, said)
      BY <2>2 DEF RecordUser, RecordAssistant
    <3>3. mode' = mode /\ UNCHANGED <<saves, disk, enabled, heard, drained>>
      BY <3>2 DEF Recorded, memory, marks
    <3>4. ring' \in Seq(Events) /\ dirty' \in BOOLEAN /\ timer' \in BOOLEAN
      <4>1. Append(ring, e) \in Seq(Events)
        BY <1>a DEF EventTypes
      <4> QED BY <1>a, <3>2, <4>1, NewestIs DEF Recorded
    <3>5. /\ kept' \subseteq Events /\ late' \subseteq Events /\ gone' \subseteq Events
          /\ reread' = reread
      BY <1>a, <3>2, MembersIs DEF Recorded, EventTypes
    <3> QED BY <1>a, <3>1, <3>3, <3>4, <3>5 DEF EventTypes
  <2>3. CASE Debounced \/ FlushRing
    <3>1. saves' \in Seq(Seq(Events))
      <4>1. ring \in Seq(Events) /\ saves \in Seq(Seq(Events))
        BY <1>a DEF EventTypes
      <4>2. Append(saves, ring) \in Seq(Seq(Events))
        BY <4>1, Appended
      <4> QED BY <2>3, <4>1, <4>2 DEF Debounced, FlushRing
    <3>2. mode' \in {"up", "stopping", "flushing", "ending", "down"}
          /\ timer' = FALSE /\ dirty' = FALSE
      BY <1>a, <2>3 DEF Debounced, FlushRing, EventTypes
    <3> QED BY <1>a, <2>3, <3>1, <3>2 DEF Debounced, FlushRing, EventTypes, memory
  <2>4. CASE SaveLands \/ SaveFails
    <3>1. saves' \in Seq(Seq(Events)) /\ disk' \in Seq(Events)
      <4>1. disk \in Seq(Events) /\ saves \in Seq(Seq(Events)) /\ saves # << >>
        BY <1>a, <2>4 DEF EventTypes, SaveLands, SaveFails
      <4>2. Head(saves) \in Seq(Events) /\ Tail(saves) \in Seq(Seq(Events))
        BY <4>1, Taken
      <4> QED BY <2>4, <4>1, <4>2 DEF SaveLands, SaveFails
    <3> QED BY <1>a, <2>4, <3>1 DEF SaveLands, SaveFails, EventTypes, memory
  <2>5. CASE Switch
    BY <1>a, <2>5 DEF Switch, EventTypes, ringVars, memory
  <2> QED BY <1>1, <2>1, <2>2, <2>3, <2>4, <2>5 DEF Elsewhere
<1>2. CASE \E c \in Callers : Start(c)
  BY <1>a, <1>2, StartIs DEF EventTypes
<1>3. CASE \E c \in Callers : Locked(c)
  BY <1>a, <1>3, LockedIs DEF EventTypes
<1>4. CASE \E c \in Callers : Passage(c)
  <2>1. PICK c \in Callers : Passage(c)
    BY <1>4
  <2>2. UNCHANGED <<born, ring, dirty, timer, saves, disk, enabled, mode, kept, late, gone>>
    BY <2>1 DEF Passage, Landed, WriteFails, Admitted, Refused, Drain, Snapshot, Replied, Apply,
                Logged, Quietly, others, ringVars, memory
  <2>3. clock' \in Nat /\ drained' \in Nat
    BY <1>a, <2>1 DEF Passage, Landed, WriteFails, Admitted, Refused, Drain, Snapshot, Replied,
                Apply, Logged, Quietly, memory, EventTypes
  <2>4. heard' \in [Events -> Nat]
    BY <1>a, <2>1 DEF Passage, Landed, WriteFails, Admitted, Refused, Drain, Snapshot, Replied,
                Apply, Logged, Quietly, memory, EventTypes
  <2>5. reread' \subseteq Events
    <3>1. CASE Drain(c)
      BY <1>a, <3>1, DrainIs DEF EventTypes
    <3>2. CASE reread' = reread
      BY <1>a, <3>2 DEF EventTypes
    <3> QED BY <2>1, <3>1, <3>2 DEF Passage, Landed, WriteFails, Admitted, Refused, Snapshot,
                Replied, Apply, Logged, Quietly, memory
  <2> QED BY <1>a, <2>2, <2>3, <2>4, <2>5 DEF EventTypes
<1>5. CASE Halts
  <2>1. PICK cs \in SUBSET Callers : Cancel(cs)
    BY <1>5, HaltsIs
  <2>2. UNCHANGED <<clock, born, ring, disk, enabled, heard, kept, late, gone, drained, reread>>
    BY <2>1, CancelIs
  <2> QED BY <1>a, <1>5, <2>2, HaltsIs DEF EventTypes
<1>6. CASE UNCHANGED remVars \/ Exit \/ StrayLands \/ Restart
  <2>1. CASE Exit
    <3>1. gone' \subseteq Events
      <4>1. Members(ring) \subseteq Events
        BY <1>a, MembersIs DEF EventTypes
      <4> QED BY <1>a, <2>1, <4>1 DEF Exit, EventTypes
    <3> QED BY <1>a, <2>1, <3>1 DEF Exit, EventTypes
  <2>2. CASE Restart
    <3>1. ring' \in Seq(Events)
      <4>1. << >> \in Seq(Events)
        OBVIOUS
      <4> QED BY <1>a, <2>2, <4>1 DEF Restart, EventTypes
    <3>2. gone' \subseteq Events
      <4>1. Members(disk) \subseteq Events
        BY <1>a, MembersIs DEF EventTypes
      <4> QED BY <1>a, <2>2, <4>1 DEF Restart, EventTypes
    <3> QED BY <1>a, <2>2, <3>1, <3>2 DEF Restart, EventTypes
  <2>3. CASE UNCHANGED <<mode, gone, ring, disk, enabled, dirty, timer>>
    BY <1>a, <1>6, <2>3, RestIs DEF EventTypes
  <2> QED BY <1>6, <2>1, <2>2, <2>3, RestIs
<1>7. CASE Crash
  <2>1. disk' \in Seq(Events)
    BY <1>a, <1>7, CrashIs DEF EventTypes
  <2>2. gone' \subseteq Events
    <3>1. Members(ring) \subseteq Events
      BY <1>a, MembersIs DEF EventTypes
    <3> QED BY <1>a, <1>7, <3>1, CrashIs DEF EventTypes
  <2> QED BY <1>a, <1>7, <2>1, <2>2, CrashIs DEF EventTypes
<1> QED BY <1>1, <1>2, <1>3, <1>4, <1>5, <1>6, <1>7, StepIs

(* A write begins at once unless the lock is taken.                         *)
LEMMA HandedSome ==
    ASSUME NEW at, NEW since, NEW free \in BOOLEAN
    PROVE  Handed(at, since, free) # {} <=> at \in Writing /\ (Shared(at) => free)
BY DEF Handed

(* A passage in full: what becomes of the pass that takes it.               *)
LEMMA PassageTo ==
    ASSUME RemTypeOK, Locks, NEW c \in Callers, Passage(c)
    PROVE  \E at \in Stages :
              /\ Leads(stage[c], at)
              /\ stage[c] \in {"flag", "outer"} => write[c] # {}
              /\ stage'[c] = at /\ write'[c] = Handed(at, started'[c], lock \in {c, Nobody})
              /\ write'[c] # {} <=> at \in Writing /\ (Shared(at) => lock \in {c, Nobody})
              /\ \A d \in Callers \ {c} : stage'[d] = stage[d] /\ write'[d] = write[d]
              /\ lock' = IF lock \in {c, Nobody} THEN (IF Shared(at) THEN c ELSE Nobody)
                         ELSE lock
              /\ guard' = (guard /\ at # "outer")
<1>1. PICK at \in Stages : /\ Goto(c, at) /\ Leads(stage[c], at)
                           /\ stage[c] \in {"flag", "outer"} => write[c] # {}
  BY PassageIs
<1>2. stage \in [Callers -> Stages] /\ write \in [Callers -> SUBSET Files]
  BY DEF RemTypeOK, PassTypes
<1>3. started'[c] \in Nat /\ state' \in Files
  BY PassageTypes
<1>4. stage'[c] = at /\ write'[c] = Handed(at, started'[c], lock \in {c, Nobody})
  BY <1>1, <1>2 DEF Goto
<1>5. \A d \in Callers \ {c} : stage'[d] = stage[d] /\ write'[d] = write[d]
  BY <1>1, <1>2 DEF Goto
<1>6. lock' = IF lock \in {c, Nobody} THEN (IF Shared(at) THEN c ELSE Nobody) ELSE lock
  BY <1>1 DEF Goto
<1>7. guard' = (guard /\ at # "outer")
  BY <1>1 DEF Goto
<1>8. write'[c] # {} <=> at \in Writing /\ (Shared(at) => lock \in {c, Nobody})
  <2>1. (lock \in {c, Nobody}) \in BOOLEAN
    OBVIOUS
  <2> QED BY <1>4, <2>1, HandedSome, Zenon
<1> QED BY <1>1, <1>4, <1>5, <1>6, <1>7, <1>8

(* Where a cancelled pass gets to.                                          *)
LEMMA FledIs ==
    ASSUME NEW at \in Stages
    PROVE  /\ Fled(at) \in {"off", "inner", "outer"}
           /\ Fled(at) = "off" <=> at \in {"off", "outer"}
           /\ Fled(at) = "inner" <=> at \in Inside
BY DEF Fled, Unwound, Inside

(* The guard is up while a pass is inside, and one is at most.             *)
LEMMA GuardedStep ==
    ASSUME RemTypeOK, Locks, Guarded, [RemNext]_remVars
    PROVE  Guarded'
<1>1. CASE Elsewhere
  BY <1>1, ElsewhereIs DEF Guarded, InGuard
<1>2. CASE \E c \in Callers : Start(c)
  <2>1. PICK c \in Callers : Start(c)
    BY <1>2
  <2>2. guard' /\ ~guard /\ stage'[c] = "flag"
        /\ \A d \in Callers \ {c} : stage'[d] = stage[d]
    BY <2>1, StartIs DEF RemTypeOK, PassTypes
  <2>3. \A d \in Callers : ~InGuard(d)
    BY <2>2 DEF Guarded
  <2> QED BY <2>2, <2>3 DEF Guarded, InGuard
<1>3. CASE \E c \in Callers : Locked(c)
  BY <1>3, LockedIs DEF Guarded, InGuard
<1>4. CASE \E c \in Callers : Passage(c)
  <2>1. PICK c \in Callers : Passage(c)
    BY <1>4
  <2>2. PICK at \in Stages :
              /\ Leads(stage[c], at) /\ stage'[c] = at
              /\ \A d \in Callers \ {c} : stage'[d] = stage[d]
              /\ guard' = (guard /\ at # "outer")
    BY <2>1, PassageTo
  <2>3. \A d \in Callers : InGuard(d)' => InGuard(d)
    BY <2>2 DEF InGuard, Leads
  <2>4. CASE InGuard(c)
    <3>1. guard /\ at # "off"
      BY <2>2, <2>4 DEF Guarded, InGuard, Leads
    <3>2. guard' <=> InGuard(c)'
      BY <2>2, <3>1 DEF InGuard
    <3>3. \A d \in Callers : InGuard(d)' => d = c
      BY <2>3, <2>4 DEF Guarded
    <3> QED BY <3>2, <3>3 DEF Guarded
  <2>5. CASE ~InGuard(c)
    <3>1. at = "off" /\ guard' = guard
      BY <2>2, <2>5 DEF InGuard, Leads, RemTypeOK, PassTypes
    <3>2. \A d \in Callers : InGuard(d)' <=> InGuard(d)
      BY <2>2, <2>5, <3>1 DEF InGuard
    <3> QED BY <3>1, <3>2 DEF Guarded
  <2> QED BY <2>4, <2>5
<1>5. CASE Halts
  <2>1. PICK cs \in SUBSET Callers : Cancel(cs)
    BY <1>5, HaltsIs
  <2>2. \A d \in Callers : InGuard(d)' => InGuard(d)
    <3>1. \A d \in cs : stage'[d] = Fled(stage[d]) /\ stage[d] \in Stages
      BY <2>1, CancelIs DEF RemTypeOK, PassTypes
    <3>2. \A d \in Callers \ cs : stage'[d] = stage[d]
      BY <2>1, CancelIs
    <3> QED BY <3>1, <3>2, FledIs DEF InGuard
  <2>3. guard' <=> \E c \in Callers : InGuard(c)'
    BY <2>1, CancelIs DEF InGuard
  <2> QED BY <2>2, <2>3 DEF Guarded
<1>6. CASE UNCHANGED remVars \/ Exit \/ StrayLands \/ Restart
  BY <1>6, RestIs DEF Guarded, InGuard
<1>7. CASE Crash
  BY <1>7, CrashIs DEF Guarded, InGuard
<1> QED BY <1>1, <1>2, <1>3, <1>4, <1>5, <1>6, <1>7, StepIs

(* The lock is held by whom a thread writes for, and a pass beyond its     *)
(* first write never meets one that waits to write for the last time.      *)
LEMMA LocksStep ==
    ASSUME RemTypeOK, Locks, Guarded, Down, [RemNext]_remVars
    PROVE  Locks'
<1>a. \A x : Shared(x) => x \in Writing
  BY DEF Shared, Writing
<1>b. Nobody \notin Callers
  BY RemAssumption
<1>1. CASE Elsewhere
  <2>1. UNCHANGED <<stage, write, lock, guard>> /\ (mode # "up" => mode' # "up")
    BY <1>1, ElsewhereIs
  <2> QED BY <2>1 DEF Locks, Beyond
<1>2. CASE \E c \in Callers : Start(c)
  <2>1. PICK c \in Callers : Start(c)
    BY <1>2
  <2>2. /\ stage'[c] = "flag" /\ write'[c] = Handed("flag", 0, lock = Nobody)
        /\ lock' = IF lock = Nobody THEN c ELSE lock
        /\ stage[c] = "off" /\ mode = "up" /\ state' \in Files
    BY <2>1, StartIs DEF RemTypeOK, PassTypes
  <2>3. \A d \in Callers \ {c} : stage'[d] = stage[d] /\ write'[d] = write[d]
    BY <2>1, StartIs DEF RemTypeOK, PassTypes
  <2>4. write'[c] # {} <=> lock = Nobody
    <3>1. "flag" \in Writing /\ Shared("flag") /\ 0 \in Nat
      BY DEF Writing, Shared
    <3>2. (lock = Nobody) \in BOOLEAN
      OBVIOUS
    <3> QED BY <2>2, <3>1, <3>2, HandedSome, Zenon
  <2>5. lock # c
    BY <2>2 DEF Locks, Shared
  <2>6. \A d \in Callers : lock' = d <=> Shared(stage'[d]) /\ write'[d] # {}
    BY <1>b, <2>2, <2>3, <2>4, <2>5 DEF Locks, Shared
  <2>7. \A d \in Callers : write'[d] # {} => stage'[d] \in Writing
    BY <2>2, <2>3 DEF Locks, Writing
  <2>8. \A d \in Callers : stage'[d] \in Writing /\ ~Shared(stage'[d]) => write'[d] # {}
    BY <2>2, <2>3 DEF Locks, Shared
  <2>9. \A x, y \in Callers : Beyond(x)' => stage'[y] # "outer"
    BY <2>2, <2>3 DEF Locks, Beyond
  <2>10. \A d \in Callers : ~(stage'[d] = "outer" /\ write'[d] = {})
    BY <2>2, <2>3 DEF Locks
  <2> QED BY <2>6, <2>7, <2>8, <2>9, <2>10 DEF Locks
<1>3. CASE \E c \in Callers : Locked(c)
  <2>1. PICK c \in Callers : Locked(c)
    BY <1>3
  <2>2. /\ Shared(stage[c]) /\ lock = Nobody /\ lock' = c /\ UNCHANGED <<stage, guard, mode>>
        /\ write'[c] = Handed(stage[c], started[c], TRUE)
        /\ \A d \in Callers \ {c} : write'[d] = write[d]
    BY <2>1, LockedIs DEF RemTypeOK, PassTypes
  <2>3. write'[c] # {}
    <3>1. state' \in Files /\ started[c] \in Nat
      BY <2>1, LockedIs DEF RemTypeOK, PassTypes
    <3> QED BY <1>a, <2>2, <3>1, HandedSome, Zenon
  <2>4. \A d \in Callers : lock' = d <=> Shared(stage'[d]) /\ write'[d] # {}
    BY <1>b, <2>2, <2>3 DEF Locks
  <2> QED BY <1>a, <2>2, <2>3, <2>4 DEF Locks, Beyond
<1>4. CASE \E c \in Callers : Passage(c)
  <2>1. PICK c \in Callers : Passage(c)
    BY <1>4
  <2>2. PICK at \in Stages :
              /\ Leads(stage[c], at)
              /\ stage[c] \in {"flag", "outer"} => write[c] # {}
              /\ stage'[c] = at
              /\ write'[c] # {} <=> at \in Writing /\ (Shared(at) => lock \in {c, Nobody})
              /\ \A d \in Callers \ {c} : stage'[d] = stage[d] /\ write'[d] = write[d]
              /\ lock' = IF lock \in {c, Nobody} THEN (IF Shared(at) THEN c ELSE Nobody)
                         ELSE lock
              /\ guard' = (guard /\ at # "outer")
    BY <2>1, PassageTo
  <2>3. mode' = mode
    BY <2>1, PassageTypes
  <2>4. \A d \in Callers : lock' = d <=> Shared(stage'[d]) /\ write'[d] # {}
    BY <1>a, <1>b, <2>2 DEF Locks
  <2>5. \A d \in Callers : write'[d] # {} => stage'[d] \in Writing
    BY <2>2 DEF Locks
  <2>6. \A d \in Callers : stage'[d] \in Writing /\ ~Shared(stage'[d]) => write'[d] # {}
    BY <2>2 DEF Locks
  <2>7. \A x, y \in Callers : Beyond(x)' => stage'[y] # "outer"
    <3> SUFFICES ASSUME NEW x \in Callers, NEW y \in Callers, Beyond(x)', stage'[y] = "outer"
                 PROVE  FALSE
      OBVIOUS
    <3>1. CASE y = c
      <4>1. at = "outer" /\ InGuard(c) /\ x # c
        BY <2>2, <3>1 DEF Leads, InGuard, Beyond
      <4>2. InGuard(x)
        BY <2>2, <4>1 DEF InGuard, Beyond
      <4> QED BY <4>1, <4>2 DEF Guarded
    <3>2. CASE y # c /\ x = c
      <4>1. stage[y] = "outer"
        BY <2>2, <3>2
      <4>2. stage[c] = "flag"
        BY <2>2, <3>2, <4>1 DEF Locks, Leads, Beyond
      <4>3. lock = c
        BY <2>2, <4>2 DEF Locks, Shared
      <4>4. write[y] = {}
        BY <3>2, <4>1, <4>3 DEF Locks, Shared
      <4>5. guard
        BY <4>2 DEF Guarded, InGuard
      <4> QED BY <4>1, <4>4, <4>5 DEF Locks
    <3>3. CASE y # c /\ x # c
      BY <2>2, <3>3 DEF Locks, Beyond
    <3> QED BY <3>1, <3>2, <3>3
  <2>8. \A d \in Callers : stage'[d] = "outer" /\ write'[d] = {} => mode' # "up" /\ ~guard'
    <3> SUFFICES ASSUME NEW d \in Callers, stage'[d] = "outer", write'[d] = {}
                 PROVE  mode' # "up" /\ ~guard'
      OBVIOUS
    <3>1. CASE d # c
      BY <2>2, <2>3, <3>1 DEF Locks
    <3>2. CASE d = c
      <4>1. at = "outer" /\ Beyond(c) /\ lock \notin {c, Nobody}
        BY <2>2, <3>2 DEF Leads, Beyond, Writing, Shared
      <4>2. lock \in Callers
        BY <4>1 DEF RemTypeOK, PassTypes
      <4>3. Shared(stage[lock])
        BY <4>2 DEF Locks
      <4>4. stage[lock] = "flag"
        BY <4>1, <4>2, <4>3 DEF Locks, Shared
      <4> QED BY <4>1, <4>2, <4>4 DEF Guarded, InGuard, Beyond
    <3> QED BY <3>1, <3>2
  <2> QED BY <2>4, <2>5, <2>6, <2>7, <2>8 DEF Locks
<1>5. CASE Halts
  <2>1. PICK cs \in SUBSET Callers : Cancel(cs)
    BY <1>5, HaltsIs
  <2> DEFINE free == lock \in cs \cup {Nobody}
  <2>2. \A c \in cs : stage'[c] = Fled(stage[c]) /\ stage[c] \in Stages
    BY <2>1, CancelIs DEF RemTypeOK, PassTypes
  <2>3. \A c \in Callers \ cs : stage'[c] = stage[c] /\ write'[c] = write[c]
    BY <2>1, CancelIs
  <2>4. \A c \in cs : write'[c] # {} <=> stage'[c] \in Writing /\ (Shared(stage'[c]) => free)
    <3> SUFFICES ASSUME NEW c \in cs
                 PROVE  write'[c] # {} <=> stage'[c] \in Writing /\ (Shared(stage'[c]) => free)
      OBVIOUS
    <3>1. write'[c] = Handed(Fled(stage[c]), started[c], free)
      BY <2>1, CancelIs, Zenon
    <3>2. free \in BOOLEAN /\ stage'[c] = Fled(stage[c])
      BY <2>2
    <3> HIDE DEF free
    <3> QED BY <3>1, <3>2, HandedSome, Zenon
  <2>5. mode' # "up"
    BY <1>5, HaltsIs
  <2>6. \A c \in cs : stage'[c] \in {"off", "inner", "outer"}
                      /\ (stage'[c] # "off" => InGuard(c))
                      /\ (stage'[c] = "inner" => Beyond(c))
    BY <2>2, FledIs DEF InGuard, Beyond, Inside
  <2>7. /\ ~free => lock' = lock
        /\ free /\ (\A c \in cs : stage'[c] # "outer") => lock' = Nobody
        /\ free /\ (\E c \in cs : stage'[c] = "outer") => lock' \in cs /\ stage'[lock'] = "outer"
    BY <2>1, CancelIs
  <2>8. guard' <=> \E c \in Callers : InGuard(c)'
    BY <2>1, CancelIs DEF InGuard
  <2> HIDE DEF free
  <2>9. \A d \in Callers : lock' = d <=> Shared(stage'[d]) /\ write'[d] # {}
    <3>1. \A d \in cs : Shared(stage'[d]) /\ write'[d] # {} <=> free /\ stage'[d] = "outer"
      BY <1>a, <2>4, <2>6 DEF Shared
    <3>2. \A d \in cs : lock' = d <=> free /\ stage'[d] = "outer"
      <4>1. \A x, y \in cs : stage'[x] = "outer" /\ stage'[y] = "outer" => x = y
        BY <2>6 DEF Guarded
      <4>2. ~free => lock' \notin cs
        BY <2>7 DEF free
      <4> QED BY <1>b, <2>7, <4>1, <4>2
    <3>3. \A d \in Callers \ cs : lock' = d <=> lock = d
      BY <1>b, <2>7 DEF free
    <3> QED BY <2>3, <3>1, <3>2, <3>3 DEF Locks
  <2>10. \A d \in Callers : write'[d] # {} => stage'[d] \in Writing
    BY <2>3, <2>4 DEF Locks
  <2>11. \A d \in Callers : stage'[d] \in Writing /\ ~Shared(stage'[d]) => write'[d] # {}
    BY <2>3, <2>4 DEF Locks
  <2>12. \A x, y \in Callers : Beyond(x)' => stage'[y] # "outer"
    <3> SUFFICES ASSUME NEW x \in Callers, NEW y \in Callers, Beyond(x)', stage'[y] = "outer"
                 PROVE  FALSE
      OBVIOUS
    <3>1. Beyond(x)
      BY <2>3, <2>6 DEF Beyond
    <3>2. CASE y \in cs
      BY <2>6, <3>1, <3>2 DEF Guarded, InGuard, Beyond
    <3>3. CASE y \notin cs
      BY <2>3, <3>1, <3>3 DEF Locks
    <3> QED BY <3>2, <3>3
  <2>13. \A d \in Callers : stage'[d] = "outer" /\ write'[d] = {} => ~guard'
    <3> SUFFICES ASSUME NEW d \in Callers, stage'[d] = "outer", write'[d] = {}, guard'
                 PROVE  FALSE
      OBVIOUS
    <3>1. PICK x \in Callers : InGuard(x)'
      BY <2>8
    <3>2. InGuard(x) /\ x # d
      BY <2>3, <2>6, <3>1 DEF InGuard
    <3>3. CASE d \in cs
      BY <2>6, <3>2, <3>3 DEF Guarded
    <3>4. CASE d \notin cs
      BY <2>3, <3>2, <3>4 DEF Locks, Guarded
    <3> QED BY <3>3, <3>4
  <2> QED BY <2>5, <2>9, <2>10, <2>11, <2>12, <2>13 DEF Locks
<1>6. CASE UNCHANGED remVars \/ Exit \/ StrayLands \/ Restart
  <2>1. UNCHANGED <<stage, write, lock, guard>>
    BY <1>6, RestIs
  <2>2. CASE mode' = mode
    BY <2>1, <2>2 DEF Locks, Beyond
  <2>3. CASE Exit \/ Restart
    <3>1. \A c \in Callers : stage[c] = "off"
      BY <2>3 DEF Exit, Restart, Down
    <3> QED BY <2>1, <3>1 DEF Locks, Beyond
  <2> QED BY <1>6, <2>2, <2>3, RestIs
<1>7. CASE Crash
  BY <1>b, <1>7, CrashIs DEF Locks, Beyond, Writing, Shared
<1> QED BY <1>1, <1>2, <1>3, <1>4, <1>5, <1>6, <1>7, StepIs

(* Nothing runs in a process that is down.                                 *)
LEMMA DownStep ==
    ASSUME RemTypeOK, Locks, Down, [RemNext]_remVars
    PROVE  Down'
<1> SUFFICES ASSUME mode' = "down"
             PROVE  (\A c \in Callers : stage'[c] = "off") /\ saves' = << >> /\ stray' = {}
  BY DEF Down
<1>1. CASE Exit
  BY <1>1 DEF Exit, pass
<1>2. CASE Crash
  BY <1>2, CrashIs
<1>3. CASE mode = "down"
  <2>1. (\A c \in Callers : stage[c] = "off") /\ saves = << >> /\ stray = {}
    BY <1>3 DEF Down
  <2>2. CASE Elsewhere
    <3>1. UNCHANGED <<stage, stray>>
      BY <2>2, ElsewhereIs
    <3>2. saves' = saves
      BY <1>3, <2>1, <2>2 DEF Elsewhere, Said, Says, RecordUser, RecordAssistant, Recorded,
                              Debounced, SaveLands, SaveFails, Switch, FlushRing, ringVars
    <3> QED BY <2>1, <3>1, <3>2
  <2>3. ~ \E c \in Callers : Start(c) \/ Locked(c) \/ Passage(c)
    <3> SUFFICES ASSUME NEW c \in Callers, Start(c) \/ Locked(c) \/ Passage(c)
                 PROVE  FALSE
      OBVIOUS
    <3>1. CASE Start(c)
      BY <1>3, <3>1 DEF Start
    <3>2. CASE Locked(c)
      BY <2>1, <3>2 DEF Locked, Shared
    <3>3. CASE Passage(c)
      BY <2>1, <3>3, PassageIs DEF Leads
    <3> QED BY <3>1, <3>2, <3>3
  <2>4. ~Halts
    BY <1>3, HaltsIs
  <2>5. CASE UNCHANGED remVars \/ StrayLands \/ Restart
    BY <2>1, <2>5 DEF StrayLands, Restart, remVars, pass, ringVars
  <2> QED BY <1>1, <1>2, <2>2, <2>3, <2>4, <2>5, StepIs
<1>4. CASE mode # "down"
  <2>1. CASE Elsewhere
    BY <1>4, <2>1, ElsewhereIs
  <2>2. CASE \E c \in Callers : Start(c) \/ Locked(c) \/ Passage(c)
    BY <1>4, <2>2, StartIs, LockedIs, PassageTypes
  <2>3. ~Halts
    BY HaltsIs
  <2>4. ~(UNCHANGED remVars \/ StrayLands \/ Restart)
    BY <1>4 DEF StrayLands, Restart, remVars
  <2> QED BY <1>1, <1>2, <2>1, <2>2, <2>3, <2>4, StepIs
<1> QED BY <1>3, <1>4

(* What a passage leaves alone.                                             *)
LEMMA PassageKeeps ==
    ASSUME NEW c \in Callers, Passage(c)
    PROVE  /\ UNCHANGED <<born, ring, disk, saves, mode, kept, late, gone, stray, strayed, undone>>
           /\ UNCHANGED <<clock, drained, reread, started, slice>> \/ Drain(c)
           /\ heard' = heard \/ Apply(c)
           /\ state' = state \/ Landed(c)
           /\ (redone' = redone /\ unsure' = unsure) \/ WriteFails(c)
BY DEF Passage, Landed, WriteFails, Admitted, Refused, Drain, Snapshot, Replied, Apply, Logged,
       Quietly, others, ringVars, memory, marks

(* What was recorded is in the ring, or it was pushed out or lost.         *)
LEMMA RingsStep ==
    ASSUME RemTypeOK, Down, Rings, [RemNext]_remVars
    PROVE  Rings'
<1>a. MaxEvents \in Nat \ {0} /\ ring \in Seq(Events)
  BY RemAssumption DEF RemTypeOK, EventTypes
<1>1. CASE Elsewhere
  <2>1. ASSUME NEW e \in Events, NEW said, Recorded(e, said), mode # "down"
        PROVE  Rings'
    <3>1. e \in Members(ring')
      BY <1>a, <2>1, NewestHasLast DEF Recorded
    <3>2. kept' = kept \cup {e} /\ gone' = gone \cup (Members(ring) \ Members(ring'))
          /\ mode' # "down"
      BY <2>1 DEF Recorded
    <3>3. Members(ring') = Members(ring)'
      BY DEF Members
    <3> QED BY <3>1, <3>2, <3>3 DEF Rings
  <2>2. CASE \E e \in Events : RecordUser(e) \/ RecordAssistant(e)
    BY <2>1, <2>2 DEF RecordUser, RecordAssistant, Says
  <2>3. CASE SaveLands
    <3>1. mode' # "down" /\ UNCHANGED <<ring, kept, gone>>
      BY <2>3 DEF SaveLands, Down, memory
    <3> QED BY <3>1 DEF Rings, Members
  <2>4. CASE (\E e \in Events : Said(e)) \/ Debounced \/ SaveFails \/ Switch \/ FlushRing
    <3>1. UNCHANGED <<ring, disk, kept, gone>> /\ (mode' = "down" => mode = "down")
      BY <2>4 DEF Said, Debounced, SaveFails, Switch, FlushRing, ringVars, memory
    <3> QED BY <3>1 DEF Rings, Members
  <2> QED BY <1>1, <2>2, <2>3, <2>4 DEF Elsewhere
<1>2. CASE \E c \in Callers : Start(c) \/ Locked(c) \/ Passage(c)
  <2>1. UNCHANGED <<ring, disk, kept, gone, mode>>
    BY <1>2, StartIs, LockedIs, PassageKeeps
  <2> QED BY <2>1 DEF Rings, Members
<1>3. CASE Halts
  <2>1. UNCHANGED <<ring, kept, gone>> /\ mode' # "down"
    BY <1>3, HaltsIs, CancelIs
  <2> QED BY <2>1 DEF Rings, Members
<1>4. CASE Exit \/ Crash
  <2>1. UNCHANGED <<ring, kept>> /\ gone' = gone \cup (Members(ring) \ Members(disk'))
    <3>1. CASE Exit
      BY <3>1 DEF Exit, Members
    <3>2. CASE Crash
      BY <3>2, CrashIs
    <3> QED BY <1>4, <3>1, <3>2
  <2>2. Members(disk') = Members(disk)' /\ Members(ring)' = Members(ring)
    BY <2>1 DEF Members
  <2> QED BY <2>1, <2>2 DEF Rings
<1>5. CASE Restart
  <2>1. /\ mode = "down" /\ mode' = "up" /\ UNCHANGED kept
        /\ gone' = gone \cup (Members(disk) \ Members(ring'))
    BY <1>5 DEF Restart
  <2>2. Members(ring') = Members(ring)'
    BY DEF Members
  <2> QED BY <2>1, <2>2 DEF Rings
<1>6. CASE UNCHANGED remVars \/ StrayLands
  <2>1. UNCHANGED <<ring, disk, kept, gone, mode>>
    BY <1>6 DEF StrayLands, remVars, ringVars, memory
  <2> QED BY <2>1 DEF Rings, Members
<1> QED BY <1>1, <1>2, <1>3, <1>4, <1>5, <1>6, StepIs

(* Nothing is marked, read or heard before it is said.                     *)
LEMMA ClocksStep ==
    ASSUME RemTypeOK, Clocks, [RemNext]_remVars
    PROVE  Clocks'
<1>a. /\ clock \in Nat /\ drained \in Nat /\ born \in [Events -> Nat] /\ state.mark \in Nat
      /\ heard \in [Events -> Nat] /\ started \in [Callers -> Nat] /\ kept \subseteq Events
      /\ slice \in [Callers -> SUBSET Events]
  BY DEF RemTypeOK, PassTypes, EventTypes, Files
<1>1. CASE Elsewhere
  <2>1. UNCHANGED <<started, slice, heard, drained>>
    BY <1>1, ElsewhereIs
  <2>2. ASSUME NEW e \in Events, Says(e), kept' \subseteq kept \cup {e}
        PROVE  Clocks'
    <3>1. clock' = clock + 1 /\ born[e] = 0 /\ born'[e] = clock + 1
          /\ \A d \in Events \ {e} : born'[d] = born[d]
      BY <1>a, <2>2 DEF Says
    <3>2. drained' <= clock' /\ \A d \in Events : born'[d] <= clock'
      BY <1>a, <2>1, <3>1 DEF Clocks
    <3>3. \A d \in kept' : born'[d] # 0
      BY <1>a, <2>2, <3>1 DEF Clocks
    <3>4. \A c \in Callers : started'[c] <= drained'
      BY <2>1 DEF Clocks
    <3>5. \A c \in Callers : \A d \in slice'[c] : born'[d] # 0 /\ born'[d] <= started'[c]
      <4> SUFFICES ASSUME NEW c \in Callers, NEW d \in slice[c]
                   PROVE  born'[d] # 0 /\ born'[d] <= started[c]
        BY <2>1
      <4>1. d \in Events /\ d # e
        BY <1>a, <3>1 DEF Clocks
      <4> QED BY <3>1, <4>1 DEF Clocks
    <3>6. \A d \in Events : heard'[d] # 0 => born'[d] # 0
      BY <1>a, <2>1, <3>1 DEF Clocks
    <3> QED BY <3>2, <3>3, <3>4, <3>5, <3>6 DEF Clocks
  <2>3. ASSUME NEW e \in Events, Said(e)
        PROVE  Clocks'
    BY <2>2, <2>3 DEF Said, memory
  <2>4. ASSUME NEW e \in Events, RecordAssistant(e)
        PROVE  Clocks'
    BY <2>2, <2>4 DEF RecordAssistant, Recorded
  <2>5. ASSUME NEW e \in Events, RecordUser(e)
        PROVE  Clocks'
    <3>1. UNCHANGED <<clock, born>> /\ born[e] # 0 /\ kept' = kept \cup {e}
      BY <2>5 DEF RecordUser, Recorded
    <3> QED BY <2>1, <3>1 DEF Clocks
  <2>6. CASE Debounced \/ SaveLands \/ SaveFails \/ Switch \/ FlushRing
    <3>1. UNCHANGED <<clock, born, kept>>
      BY <2>6 DEF Debounced, SaveLands, SaveFails, Switch, FlushRing, memory
    <3> QED BY <2>1, <3>1 DEF Clocks
  <2> QED BY <1>1, <2>3, <2>4, <2>5, <2>6 DEF Elsewhere
<1>2. CASE \E c \in Callers : Start(c)
  <2>1. PICK c \in Callers : Start(c)
    BY <1>2
  <2>2. UNCHANGED <<clock, born, kept, heard, drained>>
    BY <2>1, StartIs
  <2>3. started'[c] = 0 /\ slice'[c] = {}
        /\ \A d \in Callers \ {c} : started'[d] = started[d] /\ slice'[d] = slice[d]
    BY <1>a, <2>1, StartIs
  <2> QED BY <1>a, <2>2, <2>3 DEF Clocks
<1>3. CASE \E c \in Callers : Locked(c)
  BY <1>3, LockedIs DEF Clocks
<1>4. CASE \E c \in Callers : Passage(c)
  <2>1. PICK c \in Callers : Passage(c)
    BY <1>4
  <2>2. UNCHANGED <<born, kept>>
    BY <2>1, PassageKeeps
  <2>3. CASE Drain(c)
    <3>1. /\ clock' = clock + 1 /\ drained' = clock + 1 /\ started'[c] = clock + 1
          /\ \A e \in slice'[c] : e \in Members(ring) /\ born[e] # 0
          /\ heard' = heard
          /\ \A d \in Callers \ {c} : started'[d] = started[d] /\ slice'[d] = slice[d]
      BY <1>a, <2>3, DrainIs
    <3>2. Members(ring) \subseteq Events
      BY MembersIs DEF RemTypeOK, EventTypes
    <3>3. drained' <= clock' /\ \A d \in Events : born'[d] <= clock'
      BY <1>a, <2>2, <3>1 DEF Clocks
    <3>4. \A d \in Callers : started'[d] <= drained'
      BY <1>a, <3>1 DEF Clocks
    <3>5. \A d \in Callers : \A e \in slice'[d] : born'[e] # 0 /\ born'[e] <= started'[d]
      BY <1>a, <2>2, <3>1, <3>2 DEF Clocks
    <3> QED BY <2>2, <3>1, <3>3, <3>4, <3>5 DEF Clocks
  <2>4. CASE UNCHANGED <<clock, drained, started, slice>>
    <3>1. CASE heard' = heard
      BY <2>2, <2>4, <3>1 DEF Clocks
    <3>2. CASE Apply(c)
      <4>1. \A e \in Events : heard'[e] # 0 => heard[e] # 0 \/ e \in slice[c]
        BY <1>a, <3>2 DEF Apply
      <4>2. \A e \in Events : heard'[e] # 0 => born'[e] # 0
        BY <2>2, <4>1 DEF Clocks
      <4> QED BY <2>2, <2>4, <4>2 DEF Clocks
    <3> QED BY <2>1, <3>1, <3>2, PassageKeeps
  <2> QED BY <2>1, <2>3, <2>4, PassageKeeps
<1>5. CASE Halts
  <2>1. UNCHANGED <<clock, born, kept, heard, drained, started, slice>>
    BY <1>5, HaltsIs, CancelIs
  <2> QED BY <2>1 DEF Clocks
<1>6. CASE UNCHANGED remVars \/ Exit \/ StrayLands \/ Restart
  BY <1>6, RestIs DEF Clocks
<1>7. CASE Crash
  <2>1. UNCHANGED <<clock, born, kept, heard, drained>>
        /\ \A d \in Callers : started'[d] = 0 /\ slice'[d] = {}
    BY <1>7, CrashIs
  <2> QED BY <1>a, <2>1 DEF Clocks
<1> QED BY <1>1, <1>2, <1>3, <1>4, <1>5, <1>6, <1>7, StepIs

(* HandedIs, with the flag of the lock as a truth value.                   *)
LEMMA HandedFile ==
    ASSUME NEW at, NEW since \in Nat, NEW free \in BOOLEAN, state' \in Files,
           NEW f \in Handed(at, since, free)
    PROVE  /\ f.mark = IF at \in {"empty", "close"} THEN since ELSE state'.mark
           /\ f.running <=> at \in {"flag", "open"}
BY HandedIs

(* Where a passage may come from.                                           *)
LEMMA PassageComes ==
    ASSUME RemTypeOK, Locks, NEW c \in Callers, Passage(c)
    PROVE  /\ stage'[c] = "empty" => Drain(c) /\ slice'[c] = {}
           /\ stage'[c] = "close" <=> Apply(c)
           /\ stage'[c] \in Looked => Drain(c) \/ stage[c] \in Looked
           /\ Drain(c) => stage'[c] \in {"empty", "snapshot"}
           /\ stage'[c] \in Raised =>
                stage[c] \in Raised \/ (stage[c] = "flag" /\ stage'[c] = "slot")
<1>a. stage \in [Callers -> Stages]
  BY DEF RemTypeOK, PassTypes
<1>b. \A at \in Stages : Goto(c, at) => stage'[c] = at
  BY <1>a DEF Goto
<1>1. CASE Landed(c) \/ WriteFails(c)
  <2>1. stage[c] \in Writing /\ ~Drain(c) /\ ~Apply(c)
    BY <1>1 DEF Landed, WriteFails, Locks, Drain, Apply, Writing
  <2>2. stage'[c] = After[stage[c]]
        \/ (stage[c] \in {"open", "empty", "close"} /\ stage'[c] \in {"inner", "outer"})
    <3>1. After[stage[c]] \in Stages
      BY <2>1, Ways
    <3>2. Goto(c, After[stage[c]])
          \/ (stage[c] \in {"open", "empty", "close"} /\ Goto(c, Unwound(stage[c])))
      BY <1>1 DEF Landed, WriteFails
    <3> QED BY <1>b, <3>1, <3>2, Ways
  <2> QED BY <2>1, <2>2, Ways DEF Writing, Looked, Raised
<1>2. CASE Refused(c) \/ Logged(c)
  <2>1. stage[c] \in {"slot", "ask", "log", "emptylog"} /\ Goto(c, Unwound(stage[c]))
    BY <1>2 DEF Refused, Logged
  <2>2. stage'[c] \in {"inner", "outer"} /\ ~Drain(c) /\ ~Apply(c)
    BY <1>b, <2>1, Ways DEF Drain, Apply
  <2> QED BY <2>2 DEF Looked, Raised
<1>3. CASE Admitted(c) \/ Snapshot(c) \/ Replied(c)
  <2>1. \/ stage[c] = "slot" /\ Goto(c, "begin")
        \/ stage[c] = "snapshot" /\ Goto(c, "open")
        \/ stage[c] = "ask" /\ Goto(c, "apply")
    BY <1>3 DEF Admitted, Snapshot, Replied
  <2>2. \/ stage[c] = "slot" /\ stage'[c] = "begin"
        \/ stage[c] = "snapshot" /\ stage'[c] = "open"
        \/ stage[c] = "ask" /\ stage'[c] = "apply"
    BY <1>b, <2>1 DEF Stages, Inside, Writing
  <2>3. ~Drain(c) /\ ~Apply(c)
    BY <2>2 DEF Drain, Apply
  <2> QED BY <2>2, <2>3 DEF Looked, Raised
<1>4. CASE Drain(c)
  <2>1. stage'[c] = IF slice'[c] = {} THEN "empty" ELSE "snapshot"
    BY <1>b, <1>4 DEF Drain, Stages, Writing
  <2>2. ~Apply(c) /\ stage[c] = "begin"
    BY <1>4 DEF Drain, Apply
  <2> QED BY <1>4, <2>1, <2>2 DEF Looked, Raised
<1>5. CASE Apply(c)
  <2>1. stage'[c] = "close" /\ stage[c] = "apply"
    BY <1>b, <1>5 DEF Apply, Stages, Inside
  <2> QED BY <1>5, <2>1 DEF Looked, Raised, Drain
<1> QED BY <1>1, <1>2, <1>3, <1>4, <1>5 DEF Passage
(* What a thread is given to write: what it had, or the file as it is now   *)
(* with the change that belongs to the place.                               *)
Given(c, f) == /\ f.mark = IF stage[c] \in {"empty", "close"} THEN started[c] ELSE state.mark
               /\ f.running <=> stage[c] \in {"flag", "open"}

(* What a thread writes after a step, it wrote before or was given now.    *)
LEMMA WritesAre ==
    ASSUME RemTypeOK, Locks, [RemNext]_remVars, NEW c \in Callers, NEW f \in write'[c]
    PROVE  \/ f \in write[c] /\ stage'[c] = stage[c] /\ started'[c] = started[c]
           \/ Given(c, f)' /\ (stage'[c] \in {"empty", "close"} => Drain(c) \/ Apply(c))
<1>a. stage \in [Callers -> Stages] /\ write \in [Callers -> SUBSET Files]
      /\ started \in [Callers -> Nat] /\ state \in Files
  BY DEF RemTypeOK, PassTypes
<1>1. ASSUME NEW at, NEW since \in Nat, NEW free \in BOOLEAN, state' \in Files,
             f \in Handed(at, since, free), stage'[c] = at,
             at \in {"empty", "close"} => since = started'[c] /\ (Drain(c) \/ Apply(c))
      PROVE  Given(c, f)' /\ (stage'[c] \in {"empty", "close"} => Drain(c) \/ Apply(c))
  <2>1. /\ f.mark = IF at \in {"empty", "close"} THEN since ELSE state'.mark
        /\ f.running <=> at \in {"flag", "open"}
    BY <1>1, HandedFile
  <2> QED BY <1>1, <2>1 DEF Given
<1>2. CASE Elsewhere
  BY <1>2, ElsewhereIs
<1>3. CASE \E d \in Callers : Start(d)
  <2>1. PICK d \in Callers : Start(d)
    BY <1>3
  <2>2. CASE d = c
    <3>1. stage'[c] = "flag" /\ state' \in Files
      BY <1>a, <2>1, <2>2, StartIs
    <3>2. f \in Handed("flag", 0, lock = Nobody)
      BY <1>a, <2>1, <2>2, StartIs
    <3>3. (lock = Nobody) \in BOOLEAN /\ 0 \in Nat /\ "flag" \notin {"empty", "close"}
      OBVIOUS
    <3> QED BY <1>1, <3>1, <3>2, <3>3, Zenon
  <2>3. CASE d # c
    BY <1>a, <2>1, <2>3, StartIs
  <2> QED BY <2>2, <2>3
<1>4. CASE \E d \in Callers : Locked(d)
  <2>1. PICK d \in Callers : Locked(d)
    BY <1>4
  <2>2. CASE d = c
    <3>1. stage'[c] = stage[c] /\ started'[c] = started[c] /\ state' \in Files
      BY <1>a, <2>1, <2>2, LockedIs
    <3>2. f \in Handed(stage[c], started[c], TRUE)
      BY <1>a, <2>1, <2>2, LockedIs
    <3>3. TRUE \in BOOLEAN /\ started[c] \in Nat /\ stage[c] \notin {"empty", "close"}
      BY <1>a, <2>1, <2>2, LockedIs DEF Shared
    <3> QED BY <1>1, <3>1, <3>2, <3>3, Zenon
  <2>3. CASE d # c
    BY <1>a, <2>1, <2>3, LockedIs
  <2> QED BY <2>2, <2>3
<1>5. CASE \E d \in Callers : Passage(d)
  <2>1. PICK d \in Callers : Passage(d)
    BY <1>5
  <2>2. PICK at \in Stages :
              /\ stage'[d] = at /\ write'[d] = Handed(at, started'[d], lock \in {d, Nobody})
              /\ \A x \in Callers \ {d} : stage'[x] = stage[x] /\ write'[x] = write[x]
    BY <2>1, PassageTo, Zenon
  <2>3. state' \in Files /\ started' \in [Callers -> Nat]
    BY <2>1, PassageTypes
  <2>4. CASE d = c
    <3>1. (lock \in {c, Nobody}) \in BOOLEAN
      OBVIOUS
    <3>2. started'[c] \in Nat /\ (at \in {"empty", "close"} => Drain(c) \/ Apply(c))
      BY <2>1, <2>2, <2>3, <2>4, PassageComes
    <3>3. f \in Handed(at, started'[c], lock \in {c, Nobody})
      BY <2>2, <2>4, Zenon
    <3> QED BY <1>1, <2>2, <2>3, <2>4, <3>1, <3>2, <3>3, Zenon
  <2>5. CASE d # c
    <3>1. started'[c] = started[c]
      BY <1>a, <2>1, <2>5, PassageKeeps DEF Drain
    <3> QED BY <2>2, <2>5, <3>1
  <2> QED BY <2>4, <2>5
<1>6. CASE Halts
  <2>1. PICK cs \in SUBSET Callers : Cancel(cs)
    BY <1>6, HaltsIs
  <2>2. CASE c \in cs
    <3>1. stage'[c] = Fled(stage[c]) /\ state' \in Files /\ started'[c] = started[c]
      BY <1>a, <2>1, <2>2, CancelIs
    <3>2. f \in Handed(Fled(stage[c]), started[c], lock \in cs \cup {Nobody})
      <4>1. write'[c] = Handed(Fled(stage[c]), started[c], lock \in cs \cup {Nobody})
        BY <2>1, <2>2, CancelIs, Zenon
      <4> QED BY <4>1, Zenon
    <3>3. (lock \in cs \cup {Nobody}) \in BOOLEAN /\ started[c] \in Nat
          /\ Fled(stage[c]) \notin {"empty", "close"}
      BY <1>a, FledIs
    <3> QED BY <1>1, <3>1, <3>2, <3>3, Zenon
  <2>3. CASE c \notin cs
    BY <2>1, <2>3, CancelIs
  <2> QED BY <2>2, <2>3
<1>7. CASE UNCHANGED remVars \/ Exit \/ StrayLands \/ Restart
  BY <1>7, RestIs
<1>8. CASE Crash
  BY <1>8, CrashIs
<1> QED BY <1>2, <1>3, <1>4, <1>5, <1>6, <1>7, <1>8, StepIs

(* What a mark passes by, but for the events of a slice.                    *)
PassesBut(m, X) == /\ m <= drained
                   /\ \A e \in kept : heard[e] = 0 /\ born[e] <= m => e \in late \cup gone \cup X

(* A mark that passed nothing by goes on doing so: what is recorded later   *)
(* was said later, or it is late.                                           *)
LEMMA PassedStays ==
    ASSUME RemTypeOK, Clocks, [RemNext]_remVars, NEW m \in Nat, NEW X, PassesBut(m, X)
    PROVE  PassesBut(m, X)'
<1>a. /\ clock \in Nat /\ drained \in Nat /\ born \in [Events -> Nat]
      /\ heard \in [Events -> Nat] /\ kept \subseteq Events /\ drained <= clock
      /\ \A e \in kept : born[e] # 0
  BY DEF RemTypeOK, EventTypes, Clocks
<1>1. CASE UNCHANGED <<born, kept, late, heard, drained>> /\ gone \subseteq gone'
  BY <1>1 DEF PassesBut
<1>2. CASE Elsewhere
  <2>1. UNCHANGED <<heard, drained>>
    BY <1>2, ElsewhereIs
  <2>2. ASSUME NEW e \in Events, NEW said, Recorded(e, said), said = born'[e], said \in Nat,
               \A d \in kept : d = e \/ born'[d] = born[d],
               e \in kept => said > drained
        PROVE  PassesBut(m, X)'
    <3>1. /\ kept' = kept \cup {e} /\ gone \subseteq gone'
          /\ late' = IF said <= drained THEN late \cup {e} ELSE late
      BY <2>2 DEF Recorded
    <3> QED BY <1>a, <2>1, <2>2, <3>1 DEF PassesBut
  <2>3. ASSUME NEW e \in Events, RecordUser(e)
        PROVE  PassesBut(m, X)'
    <3>1. Recorded(e, born[e]) /\ born' = born /\ e \notin kept
      BY <2>3 DEF RecordUser
    <3> QED BY <1>a, <2>2, <3>1
  <2>4. ASSUME NEW e \in Events, RecordAssistant(e)
        PROVE  PassesBut(m, X)'
    <3>1. Recorded(e, clock + 1) /\ born[e] = 0 /\ born' = [born EXCEPT ![e] = clock + 1]
      BY <2>4 DEF RecordAssistant, Says
    <3>2. born'[e] = clock + 1 /\ clock + 1 \in Nat
          /\ (\A d \in kept : d = e \/ born'[d] = born[d]) /\ clock + 1 > drained
      BY <1>a, <3>1
    <3> QED BY <2>2, <3>1, <3>2
  <2>5. ASSUME NEW e \in Events, Said(e)
        PROVE  PassesBut(m, X)'
    <3>1. UNCHANGED <<kept, late, gone>> /\ born[e] = 0
          /\ born' = [born EXCEPT ![e] = clock + 1]
      BY <2>5 DEF Said, Says, memory
    <3>2. \A d \in kept : born'[d] = born[d]
      BY <1>a, <3>1
    <3> QED BY <2>1, <3>1, <3>2 DEF PassesBut
  <2>6. CASE Debounced \/ SaveLands \/ SaveFails \/ Switch \/ FlushRing
    BY <1>1, <2>6 DEF Debounced, SaveLands, SaveFails, Switch, FlushRing, memory
  <2> QED BY <1>2, <2>3, <2>4, <2>5, <2>6 DEF Elsewhere
<1>3. CASE \E c \in Callers : Start(c) \/ Locked(c)
  BY <1>1, <1>3, StartIs, LockedIs
<1>4. CASE \E c \in Callers : Passage(c)
  <2>1. PICK c \in Callers : Passage(c)
    BY <1>4
  <2>2. UNCHANGED <<born, kept, late, gone>>
    BY <2>1, PassageKeeps
  <2>3. drained' >= drained /\ drained' \in Nat
    <3>1. CASE Drain(c)
      BY <1>a, <3>1 DEF Drain
    <3>2. CASE drained' = drained
      BY <1>a, <3>2
    <3> QED BY <2>1, <3>1, <3>2, PassageKeeps
  <2>4. \A e \in Events : heard'[e] = 0 => heard[e] = 0
    <3>1. CASE Apply(c)
      BY <1>a, <3>1 DEF Apply
    <3> QED BY <2>1, <3>1, PassageKeeps
  <2> QED BY <1>a, <2>2, <2>3, <2>4 DEF PassesBut
<1>5. CASE Halts
  BY <1>1, <1>5, HaltsIs, CancelIs
<1>6. CASE UNCHANGED remVars \/ Exit \/ StrayLands \/ Restart
  <2>1. gone \subseteq gone'
    BY <1>6 DEF Exit, StrayLands, Restart, remVars, memory
  <2> QED BY <1>1, <1>6, <2>1, RestIs
<1>7. CASE Crash
  BY <1>1, <1>7, CrashIs
<1> QED BY <1>2, <1>3, <1>4, <1>5, <1>6, <1>7, StepIs

(* Nothing is passed by but for an empty slice.                            *)
LEMMA PassesNone ==
    \A m : Passes(m) <=> PassesBut(m, {})
BY DEF Passes, PassesBut

(* What is on disk was there, or a thread wrote it.                         *)
LEMMA StateIs ==
    ASSUME RemTypeOK, [RemNext]_remVars
    PROVE  \/ state' = state \/ state' \in stray
           \/ \E c \in Callers : state' \in write[c]
<1>1. CASE Elsewhere
  BY <1>1, ElsewhereIs
<1>2. CASE \E c \in Callers : Start(c) \/ Locked(c)
  BY <1>2, StartIs, LockedIs
<1>3. CASE \E c \in Callers : Passage(c)
  BY <1>3, PassageTypes
<1>4. CASE Halts
  BY <1>4, HaltsIs, CancelIs
<1>5. CASE UNCHANGED remVars \/ Exit \/ StrayLands \/ Restart
  <2>1. CASE StrayLands
    BY <2>1 DEF StrayLands
  <2> QED BY <1>5, <2>1, RestIs
<1>6. CASE Crash
  BY <1>6, CrashIs
<1> QED BY <1>1, <1>2, <1>3, <1>4, <1>5, <1>6, StepIs

(* What outlives its task was being written.                               *)
LEMMA StrayIs ==
    ASSUME RemTypeOK, [RemNext]_remVars, NEW f \in stray'
    PROVE  f \in stray \/ \E c \in Callers : f \in write[c]
<1>1. CASE Elsewhere
  BY <1>1, ElsewhereIs
<1>2. CASE \E c \in Callers : Start(c) \/ Locked(c) \/ Passage(c)
  BY <1>2, StartIs, LockedIs, PassageKeeps
<1>3. CASE Halts
  <2>1. PICK cs \in SUBSET Callers : Cancel(cs)
    BY <1>3, HaltsIs
  <2>2. stray' = stray \cup UNION {write[c] : c \in cs}
    BY <2>1, CancelIs
  <2> QED BY <2>2
<1>4. CASE UNCHANGED remVars \/ Exit \/ StrayLands \/ Restart
  <2>1. CASE StrayLands
    BY <2>1 DEF StrayLands
  <2> QED BY <1>4, <2>1, RestIs
<1>5. CASE Crash
  BY <1>5, CrashIs
<1> QED BY <1>1, <1>2, <1>3, <1>4, <1>5, StepIs

(* A pass that looks, or has looked, at the ring.                           *)
LEMMA LookedIs ==
    ASSUME RemTypeOK, Locks, [RemNext]_remVars, NEW c \in Callers,
           stage'[c] \in Looked \cup {"empty", "close"}
    PROVE  \/ Drain(c) /\ stage'[c] \in {"empty", "snapshot"}
              /\ (stage'[c] = "empty" => slice'[c] = {})
           \/ Apply(c) /\ stage'[c] = "close" /\ started'[c] = started[c] /\ slice'[c] = slice[c]
           \/ /\ stage[c] \in Looked \/ stage'[c] = stage[c]
              /\ stage'[c] \in Looked \/ stage'[c] = stage[c]
              /\ started'[c] = started[c] /\ slice'[c] = slice[c]
<1>a. stage \in [Callers -> Stages] /\ started \in [Callers -> Nat]
      /\ slice \in [Callers -> SUBSET Events]
  BY DEF RemTypeOK, PassTypes
<1>1. CASE Elsewhere
  BY <1>1, ElsewhereIs
<1>2. CASE \E d \in Callers : Start(d)
  <2>1. PICK d \in Callers : Start(d)
    BY <1>2
  <2>2. d # c
    BY <1>a, <2>1, StartIs DEF Looked
  <2> QED BY <1>a, <2>1, <2>2, StartIs
<1>3. CASE \E d \in Callers : Locked(d)
  BY <1>3, LockedIs
<1>4. CASE \E d \in Callers : Passage(d)
  <2>1. PICK d \in Callers : Passage(d)
    BY <1>4
  <2>2. CASE d # c
    <3>1. stage'[c] = stage[c]
      BY <2>1, <2>2, PassageTo
    <3>2. started'[c] = started[c] /\ slice'[c] = slice[c]
      BY <1>a, <2>1, <2>2, PassageKeeps, DrainIs
    <3> QED BY <3>1, <3>2
  <2>3. CASE d = c
    <3>1. CASE Drain(c)
      BY <2>1, <2>3, <3>1, PassageComes
    <3>2. CASE UNCHANGED <<started, slice>>
      BY <2>1, <2>3, <3>2, PassageComes DEF Looked
    <3> QED BY <2>1, <2>3, <3>1, <3>2, PassageKeeps
  <2> QED BY <2>2, <2>3
<1>5. CASE Halts
  <2>1. PICK cs \in SUBSET Callers : Cancel(cs)
    BY <1>5, HaltsIs
  <2>2. c \notin cs
    <3>1. c \in cs => stage'[c] \in {"off", "inner", "outer"}
      <4>1. c \in cs => stage'[c] = Fled(stage[c])
        BY <2>1, CancelIs
      <4>2. Fled(stage[c]) \in {"off", "inner", "outer"}
        BY <1>a, FledIs
      <4> QED BY <4>1, <4>2
    <3> QED BY <3>1 DEF Looked
  <2> QED BY <2>1, <2>2, CancelIs
<1>6. CASE UNCHANGED remVars \/ Exit \/ StrayLands \/ Restart
  BY <1>6, RestIs
<1>7. CASE Crash
  BY <1>7, CrashIs DEF Looked
<1> QED BY <1>1, <1>2, <1>3, <1>4, <1>5, <1>6, <1>7, StepIs

(* No mark, on disk or about to be written, passes an event by.            *)
LEMMA MarksStep ==
    ASSUME RemTypeOK, PassTypes', Locks, Rings, Clocks, Marks, [RemNext]_remVars
    PROVE  Marks'
<1>a. /\ clock \in Nat /\ drained \in Nat /\ born \in [Events -> Nat]
      /\ kept \subseteq Events /\ state.mark \in Nat /\ started \in [Callers -> Nat]
      /\ slice \in [Callers -> SUBSET Events] /\ heard \in [Events -> Nat]
  BY DEF RemTypeOK, PassTypes, EventTypes, Files
<1>b. \A f \in stray : f.mark \in Nat
  BY DEF RemTypeOK, PassTypes, Files
<1>c. \A c \in Callers : \A f \in write[c] : f.mark \in Nat
  BY DEF RemTypeOK, PassTypes, Files
<1>1. ASSUME NEW m \in Nat, Passes(m)
      PROVE  PassesBut(m, {})'
  BY <1>1, PassedStays, PassesNone
<1>2. Passes(state.mark)'
  <2>1. \E m \in Nat : Passes(m) /\ m = state'.mark
    BY <1>a, <1>b, <1>c, StateIs DEF Marks
  <2> QED BY <1>1, <2>1 DEF PassesBut, Passes
<1>3. \A f \in stray' : Passes(f.mark)'
  <2> SUFFICES ASSUME NEW f \in stray'
               PROVE  Passes(f.mark)'
    OBVIOUS
  <2>1. f.mark \in Nat /\ Passes(f.mark)
    BY <1>b, <1>c, StrayIs DEF Marks
  <2> QED BY <1>1, <2>1 DEF PassesBut, Passes
<1>4. ASSUME NEW c \in Callers, Drain(c)
      PROVE  PassesBut(started[c], slice[c])'
  <2>1. UNCHANGED <<born, kept, late, gone, heard>>
    BY <1>4 DEF Drain, others
  <2>2. /\ drained' = clock + 1 /\ started'[c] = clock + 1
        /\ \A e \in Members(ring) : born[e] > state.mark => e \in slice'[c]
    BY <1>a, <1>4, DrainIs
  <2>3. \A e \in kept : e \in gone \/ e \in Members(ring)
    BY DEF Rings
  <2>4. \A e \in kept : heard[e] = 0 => e \in late \cup gone \cup slice'[c]
    BY <1>a, <2>2, <2>3 DEF Marks, Passes
  <2> QED BY <1>a, <2>1, <2>2, <2>4 DEF PassesBut
<1>5. ASSUME NEW c \in Callers, stage[c] \in Looked
      PROVE  PassesBut(started[c], slice[c])
  BY <1>5 DEF Marks, Clocks, PassesBut
<1>6. ASSUME NEW c \in Callers, Apply(c)
      PROVE  Passes(started[c])'
  <2>1. stage[c] \in Looked /\ UNCHANGED <<started, slice, kept, late, gone, drained, born>>
    BY <1>6 DEF Apply, Looked, others
  <2>2. \A e \in kept : heard'[e] = 0 => heard[e] = 0 /\ e \notin slice[c]
    BY <1>a, <1>6 DEF Apply
  <2> QED BY <1>5, <2>1, <2>2 DEF Passes, PassesBut
<1>7. ASSUME NEW c \in Callers, stage'[c] \in Looked
      PROVE  PassesBut(started[c], slice[c])'
  <2>1. CASE Drain(c)
    BY <1>4, <2>1
  <2>2. CASE stage[c] \in Looked /\ started'[c] = started[c] /\ slice'[c] = slice[c]
    <3>1. PassesBut(started[c], slice[c]) /\ started[c] \in Nat
      BY <1>a, <1>5, <2>2
    <3> QED BY <2>2, <3>1, PassedStays DEF PassesBut
  <2>3. "close" \notin Looked
    BY DEF Looked
  <2> QED BY <1>7, <2>1, <2>2, <2>3, LookedIs
<1>8. ASSUME NEW c \in Callers, NEW f \in write'[c]
      PROVE  Passes(f.mark)'
  <2>1. CASE f \in write[c]
    <3>1. f.mark \in Nat /\ Passes(f.mark)
      BY <1>c, <2>1 DEF Marks
    <3> QED BY <1>1, <3>1 DEF PassesBut, Passes
  <2>2. CASE Given(c, f)' /\ stage'[c] \notin {"empty", "close"}
    <3>1. f.mark = state'.mark
      BY <2>2 DEF Given
    <3> QED BY <1>2, <3>1 DEF Passes
  <2>3. CASE Given(c, f)' /\ stage'[c] \in {"empty", "close"} /\ Drain(c)
    <3>1. f.mark = started'[c] /\ slice'[c] = {}
      BY <2>3, PassageComes DEF Given, Passage
    <3>2. PassesBut(started[c], slice[c])'
      BY <1>4, <2>3
    <3> QED BY <3>1, <3>2 DEF Passes, PassesBut
  <2>4. CASE Given(c, f)' /\ stage'[c] \in {"empty", "close"} /\ Apply(c)
    <3>1. f.mark = started'[c]
      BY <2>4 DEF Given
    <3>2. Passes(started[c])'
      BY <1>6, <2>4
    <3> QED BY <3>1, <3>2 DEF Passes
  <2> QED BY <2>1, <2>2, <2>3, <2>4, WritesAre
<1> QED BY <1>2, <1>3, <1>7, <1>8 DEF Marks, PassesBut

(* A pass that has the flag is alone.                                       *)
LEMMA Alone ==
    ASSUME RemTypeOK, Guarded, Locks, NEW c \in Callers, Beyond(c), NEW d \in Callers \ {c}
    PROVE  stage[d] = "off" /\ write[d] = {}
<1>1. InGuard(c) /\ stage[d] # "outer"
  BY DEF Beyond, InGuard, Locks
<1>2. stage[d] = "off"
  BY <1>1 DEF Guarded, InGuard
<1> QED BY <1>2 DEF Locks, Writing

(* How the history moves.                                                  *)
LEMMA HistoryIs ==
    ASSUME RemTypeOK, Clocks, [RemNext]_remVars
    PROVE  /\ heard' = heard \/ \E c \in Callers : Apply(c)
           /\ drained' = drained \/ \E c \in Callers : Drain(c)
           /\ reread \subseteq reread'
           /\ \A e \in Events : born[e] # 0 => born'[e] = born[e]
           /\ redone => redone'
           /\ undone => undone'
<1>1. CASE Elsewhere
  <2>1. UNCHANGED <<heard, drained, reread, redone, undone>>
    BY <1>1, ElsewhereIs
  <2>2. \A e \in Events : born[e] # 0 => born'[e] = born[e]
    BY <1>1 DEF Elsewhere, Said, Says, RecordUser, RecordAssistant, Debounced, SaveLands, SaveFails,
                Switch, FlushRing, RemTypeOK, EventTypes
  <2> QED BY <2>1, <2>2
<1>2. CASE \E c \in Callers : Start(c) \/ Locked(c)
  BY <1>2, StartIs, LockedIs
<1>3. CASE \E c \in Callers : Passage(c)
  <2>1. PICK c \in Callers : Passage(c)
    BY <1>3
  <2>2. redone => redone'
    BY <2>1, PassageKeeps DEF WriteFails
  <2>3. reread \subseteq reread'
    BY <2>1, PassageKeeps, DrainIs
  <2> QED BY <2>1, <2>2, <2>3, PassageKeeps
<1>4. CASE Halts
  BY <1>4, HaltsIs, CancelIs
<1>5. CASE UNCHANGED remVars \/ Exit \/ StrayLands \/ Restart
  <2>1. undone => undone'
    BY <1>5, RestIs DEF StrayLands
  <2> QED BY <1>5, <2>1, RestIs
<1>6. CASE Crash
  BY <1>6, CrashIs
<1> QED BY <1>1, <1>2, <1>3, <1>4, <1>5, <1>6, StepIs

(* A pass is about to move the mark until its write lands; otherwise it has *)
(* lost the mark.                                                           *)
LEMMA CloseStays ==
    ASSUME RemTypeOK, Locks, [RemNext]_remVars, ~redone', NEW c \in Callers,
           stage[c] = "close", ~Landed(c)
    PROVE  stage'[c] = "close" /\ slice'[c] = slice[c]
<1>a. stage \in [Callers -> Stages] /\ slice \in [Callers -> SUBSET Events] /\ Redo(c)
  BY DEF RemTypeOK, PassTypes, Redo
<1>1. CASE Elsewhere
  BY <1>1, ElsewhereIs
<1>2. CASE \E d \in Callers : Start(d)
  <2>1. PICK d \in Callers : Start(d)
    BY <1>2
  <2>2. d # c
    BY <2>1, StartIs
  <2> QED BY <1>a, <2>1, <2>2, StartIs
<1>3. CASE \E d \in Callers : Locked(d)
  BY <1>3, LockedIs
<1>4. CASE \E d \in Callers : Passage(d)
  <2>1. PICK d \in Callers : Passage(d)
    BY <1>4
  <2>2. CASE d # c
    <3>1. stage'[c] = stage[c]
      BY <2>1, <2>2, PassageTo
    <3>2. slice'[c] = slice[c]
      BY <1>a, <2>1, <2>2, PassageKeeps, DrainIs
    <3> QED BY <3>1, <3>2
  <2>3. CASE d = c
    <3>1. ~WriteFails(c)
      BY <1>a DEF WriteFails
    <3> QED BY <2>1, <2>3, <3>1 DEF Passage, Admitted, Refused, Drain, Snapshot, Replied, Apply,
                                    Logged
  <2> QED BY <2>2, <2>3
<1>5. CASE Halts
  <2>1. PICK cs \in SUBSET Callers : Cancel(cs)
    BY <1>5, HaltsIs
  <2>2. c \notin cs
    BY <1>a, <2>1, CancelIs
  <2> QED BY <2>1, <2>2, CancelIs
<1>6. CASE UNCHANGED remVars \/ Exit \/ StrayLands \/ Restart
  BY <1>6, RestIs
<1>7. CASE Crash
  BY <1>a, <1>7, CrashIs
<1> QED BY <1>1, <1>2, <1>3, <1>4, <1>5, <1>6, <1>7, StepIs

(* A mark that covers what was heard goes on doing so.                     *)
LEMMA CoversStays ==
    ASSUME RemTypeOK, Locks, Clocks, [RemNext]_remVars, ~redone', NEW m \in Nat, Covers(m),
           \A c \in Callers : stage[c] = "close" => ~Landed(c)
    PROVE  Covers(m)'
<1> SUFFICES ASSUME NEW e \in Events, heard'[e] # 0
             PROVE  born'[e] <= m \/ \E c \in Callers : stage'[c] = "close" /\ e \in slice'[c]
  BY DEF Covers
<1>1. CASE heard[e] # 0
  <2>1. born'[e] = born[e]
    BY <1>1, HistoryIs DEF Clocks
  <2>2. CASE born[e] <= m
    BY <2>1, <2>2
  <2>3. CASE \E c \in Callers : stage[c] = "close" /\ e \in slice[c]
    BY <2>3, CloseStays
  <2> QED BY <1>1, <2>2, <2>3 DEF Covers
<1>2. CASE heard[e] = 0
  <2>1. PICK c \in Callers : Apply(c)
    BY <1>2, HistoryIs
  <2>2. e \in slice[c]
    BY <1>2, <2>1 DEF Apply, RemTypeOK, EventTypes
  <2>3. stage'[c] = "close" /\ slice'[c] = slice[c]
    BY <2>1, PassageComes DEF Apply, Passage
  <2> QED BY <2>2, <2>3
<1> QED BY <1>1, <1>2 DEF RemTypeOK, EventTypes

(* Unless a stray write undoes it, the mark moves back only when a pass    *)
(* writes what it was given.                                               *)
LEMMA StateMoves ==
    ASSUME RemTypeOK, [RemNext]_remVars, ~undone'
    PROVE  \/ state'.mark >= state.mark
           \/ \E c \in Callers : Landed(c) /\ state' \in write[c]
<1>a. state.mark \in Nat
  BY DEF RemTypeOK, PassTypes, Files
<1>b. \A f \in stray : f.mark \in Nat
  BY DEF RemTypeOK, PassTypes, Files
<1>c. \A c \in Callers : \A f \in write[c] : f.mark \in Nat
  BY DEF RemTypeOK, PassTypes, Files
<1>d. state' = state => state'.mark >= state.mark
  BY <1>a
<1>1. CASE Elsewhere
  BY <1>d, <1>1, ElsewhereIs
<1>2. CASE \E c \in Callers : Start(c) \/ Locked(c)
  BY <1>d, <1>2, StartIs, LockedIs
<1>3. CASE \E c \in Callers : Passage(c)
  BY <1>d, <1>3, PassageTypes
<1>4. CASE Halts
  BY <1>d, <1>4, HaltsIs, CancelIs
<1>5. CASE UNCHANGED remVars \/ Exit \/ StrayLands \/ Restart
  <2>1. CASE StrayLands
    <3>1. state' \in stray /\ undone' = (undone \/ state'.mark < state.mark)
      BY <2>1 DEF StrayLands
    <3>2. ~(state'.mark < state.mark)
      BY <3>1
    <3>3. state'.mark \in Nat
      BY <1>b, <3>1
    <3> QED BY <1>a, <3>2, <3>3
  <2> QED BY <1>d, <1>5, <2>1, RestIs
<1>6. CASE Crash
  <2>1. undone' = (undone \/ state'.mark < state.mark)
    BY <1>6, CrashIs
  <2>2. ~(state'.mark < state.mark)
    BY <2>1
  <2>3. state'.mark \in Nat
    BY <1>a, <1>b, <1>c, <1>6, CrashIs
  <2> QED BY <1>a, <2>2, <2>3
<1> QED BY <1>1, <1>2, <1>3, <1>4, <1>5, <1>6, StepIs

(* What was heard once is below every mark that may be read, or in the     *)
(* slice of the pass that is about to move the mark.                       *)
LEMMA HearsStep ==
    ASSUME RemTypeOK, RemTypeOK', Guarded, Locks, Clocks, Marks, Hears,
           [RemNext]_remVars
    PROVE  Hears'
<1>a. /\ clock \in Nat /\ drained \in Nat /\ born \in [Events -> Nat]
      /\ state.mark \in Nat /\ started \in [Callers -> Nat]
      /\ slice \in [Callers -> SUBSET Events] /\ heard \in [Events -> Nat]
  BY DEF RemTypeOK, PassTypes, EventTypes, Files
<1>b. \A c \in Callers : \A f \in write[c] : f.mark \in Nat
  BY DEF RemTypeOK, PassTypes, Files
<1>c. state'.mark \in Nat
  BY DEF RemTypeOK, PassTypes, Files
<1>h. \A e \in Events : born'[e] \in Int
  BY DEF RemTypeOK, EventTypes
<1>d. ASSUME NEW c \in Callers, Drain(c) \/ Apply(c)
      PROVE  Beyond(c)
  BY <1>d DEF Drain, Apply, Beyond
<1>e. ASSUME NEW c \in Callers, NEW d \in Callers, Beyond(c), Beyond(d)
      PROVE  c = d
  BY <1>e DEF Guarded, Beyond, InGuard
<1>f. \A c \in Callers : stage[c] \in Looked \cup {"close"} => Beyond(c)
  BY DEF Looked, Beyond
<1>1. ASSUME NEW c \in Callers, stage'[c] \in Looked
      PROVE  started'[c] = drained'
  <2>1. CASE Drain(c)
    BY <1>a, <2>1 DEF Drain
  <2>2. CASE ~Drain(c)
    <3>1. stage[c] \in Looked /\ started'[c] = started[c]
      BY <1>1, <2>2, LookedIs DEF Looked
    <3>2. drained' = drained
      BY <1>d, <1>e, <1>f, <2>2, <3>1, HistoryIs
    <3> QED BY <3>1, <3>2 DEF Hears
  <2> QED BY <2>1, <2>2
<1>2. ASSUME NEW c \in Callers, NEW f \in write'[c], stage'[c] = "close"
      PROVE  f.mark = started'[c]
  BY <1>2, WritesAre DEF Hears, Given
<1>3. ASSUME ~(redone' \/ undone')
      PROVE  /\ \A e \in Events : heard'[e] <= 1 \/ e \in reread'
             /\ Covers(state.mark)'
             /\ \A c \in Callers : \A f \in write'[c] : Covers(f.mark)'
             /\ \A c \in Callers : stage'[c] \in Looked =>
                  \A e \in slice'[c] : heard'[e] = 0 \/ e \in reread'
  <2>a. ~redone' /\ ~undone' /\ ~(redone \/ undone)
    BY <1>3, HistoryIs
  <2>b. /\ \A e \in Events : heard[e] <= 1 \/ e \in reread
        /\ Covers(state.mark)
        /\ \A c \in Callers : \A f \in write[c] : Covers(f.mark)
        /\ \A c \in Callers : stage[c] \in Looked =>
             \A e \in slice[c] : heard[e] = 0 \/ e \in reread
    BY <2>a DEF Hears
  <2>c. reread \subseteq reread'
    BY HistoryIs
  <2>1. ASSUME NEW e \in Events
        PROVE  heard'[e] <= 1 \/ e \in reread'
    <3>1. CASE \E c \in Callers : Apply(c)
      <4>1. PICK c \in Callers : Apply(c)
        BY <3>1
      <4>2. e \in slice[c] => heard[e] = 0 \/ e \in reread
        BY <2>b, <4>1 DEF Apply, Looked
      <4>3. heard'[e] = IF e \in slice[c] THEN heard[e] + 1 ELSE heard[e]
        BY <4>1 DEF Apply
      <4> QED BY <1>a, <2>b, <2>c, <4>2, <4>3
    <3> QED BY <2>b, <2>c, <3>1, HistoryIs
  <2>2. Covers(state.mark)'
    <3>1. CASE \E c \in Callers : stage[c] = "close" /\ Landed(c)
      <4>1. PICK c \in Callers : stage[c] = "close" /\ Landed(c)
        BY <3>1
      <4>2. state' \in write[c] /\ UNCHANGED <<heard, born, slice>>
        BY <4>1 DEF Landed, others, memory
      <4>3. Covers(state'.mark) /\ state'.mark = started[c]
        BY <2>b, <4>1, <4>2 DEF Hears
      <4> SUFFICES ASSUME NEW e \in Events, heard'[e] # 0
                   PROVE  born'[e] <= state'.mark
        BY DEF Covers
      <4>4. \A d \in Callers : stage[d] = "close" => d = c
        BY <1>e, <1>f, <4>1
      <4>5. born[e] <= state'.mark \/ e \in slice[c]
        BY <4>2, <4>3, <4>4 DEF Covers
      <4> QED BY <4>2, <4>3, <4>5 DEF Clocks
    <3>2. CASE \A c \in Callers : stage[c] = "close" => ~Landed(c)
      <4>1. CASE state'.mark >= state.mark
        <5>1. Covers(state.mark) => \E m \in Nat : Covers(m) /\ m <= state'.mark
          BY <1>a, <4>1
        <5>2. PICK m \in Nat : Covers(m) /\ m <= state'.mark
          BY <2>b, <5>1
        <5>3. Covers(m)'
          BY <2>a, <3>2, <5>2, CoversStays
        <5>4. \A e \in Events : born'[e] \in Int
          BY <1>h
        <5> QED BY <1>c, <5>2, <5>3, <5>4 DEF Covers
      <4>2. CASE \E c \in Callers : Landed(c) /\ state' \in write[c]
        <5>1. \E m \in Nat : Covers(m) /\ m = state'.mark
          BY <1>b, <2>b, <4>2
        <5>2. PICK m \in Nat : Covers(m) /\ m = state'.mark
          BY <5>1
        <5>3. Covers(m)'
          BY <2>a, <3>2, <5>2, CoversStays
        <5> QED BY <5>2, <5>3 DEF Covers
      <4> QED BY <2>a, <4>1, <4>2, StateMoves
    <3> QED BY <3>1, <3>2
  <2>3. ASSUME NEW c \in Callers, NEW f \in write'[c]
        PROVE  Covers(f.mark)'
    <3>1. CASE f \in write[c] /\ stage'[c] = stage[c]
      <4>1. f.mark \in Nat /\ Covers(f.mark)
        BY <1>b, <2>b, <3>1
      <4>2. ASSUME NEW d \in Callers, stage[d] = "close", Landed(d)
            PROVE  FALSE
        <5>1. d # c
          <6>1. stage'[d] = "log"
            BY <4>2 DEF Landed, Goto, After, RemTypeOK, PassTypes
          <6> QED BY <3>1, <4>2, <6>1
        <5>2. write[c] = {}
          BY <1>f, <4>2, <5>1, Alone
        <5> QED BY <3>1, <5>2
      <4>3. \A d \in Callers : stage[d] = "close" => ~Landed(d)
        BY <4>2
      <4> QED BY <2>a, <4>1, <4>3, CoversStays DEF Covers
    <3>2. CASE Given(c, f)' /\ stage'[c] \notin {"empty", "close"}
      BY <2>2, <3>2 DEF Given, Covers
    <3>3. CASE Given(c, f)' /\ stage'[c] \in {"empty", "close"} /\ Drain(c)
      <4>1. f.mark = clock + 1 /\ UNCHANGED born
        BY <1>a, <3>3 DEF Given, Drain, others
      <4>2. \A e \in Events : born'[e] <= f.mark
        BY <1>a, <4>1 DEF Clocks
      <4> QED BY <4>2 DEF Covers
    <3>4. CASE Given(c, f)' /\ stage'[c] \in {"empty", "close"} /\ Apply(c)
      <4>1. f.mark = started[c] /\ stage[c] = "apply" /\ UNCHANGED <<born, slice>>
            /\ \A e \in Events : heard'[e] # 0 => heard[e] # 0 \/ e \in slice[c]
        BY <1>a, <3>4 DEF Given, Apply, others
      <4>2. state.mark <= started[c]
        BY <4>1 DEF Marks, Passes, Hears, Looked
      <4>3. \A e \in Events : heard[e] # 0 => born[e] <= state.mark
        <5>1. \A d \in Callers : stage[d] # "close"
          BY <1>e, <1>f, <4>1 DEF Looked
        <5> QED BY <2>b, <5>1 DEF Covers
      <4>4. \A e \in Events : heard'[e] # 0 => born[e] <= f.mark
        BY <1>a, <4>1, <4>2, <4>3 DEF Clocks
      <4> QED BY <4>1, <4>4 DEF Covers
    <3> QED BY <3>1, <3>2, <3>3, <3>4, WritesAre
  <2>4. ASSUME NEW c \in Callers, stage'[c] \in Looked, NEW e \in slice'[c]
        PROVE  heard'[e] = 0 \/ e \in reread'
    <3>1. CASE Drain(c)
      <4>1. /\ stage[c] = "begin" /\ heard' = heard
            /\ e \in Members(ring) /\ (born[e] > state.mark \/ e \in reread')
        BY <1>a, <2>4, <3>1, DrainIs
      <4>2. e \in Events
        BY <4>1, MembersIs DEF RemTypeOK, EventTypes
      <4>3. \A d \in Callers : stage[d] # "close"
        BY <1>e, <1>f, <4>1 DEF Beyond
      <4> QED BY <1>a, <2>b, <4>1, <4>2, <4>3 DEF Covers
    <3>2. CASE ~Drain(c)
      <4>1. stage[c] \in Looked /\ slice'[c] = slice[c]
        BY <2>4, <3>2, LookedIs DEF Looked
      <4>2. ~Apply(c)
        BY <2>4, PassageComes DEF Passage, Looked
      <4>3. heard' = heard
        BY <1>d, <1>e, <1>f, <4>1, <4>2, HistoryIs
      <4> QED BY <2>b, <2>c, <2>4, <4>1, <4>3
    <3> QED BY <3>1, <3>2
  <2> QED BY <2>1, <2>2, <2>3, <2>4
<1> QED BY <1>1, <1>2, <1>3 DEF Hears

(* A fault is not forgotten, and without one nothing strays.                *)
LEMMA FaultsAre ==
    ASSUME RemTypeOK, Flags, [RemNext]_remVars, ~(unsure' \/ strayed')
    PROVE  /\ ~unsure /\ ~strayed /\ stray' = {}
           /\ state' = state \/ \E c \in Callers : Landed(c) /\ state' \in write[c]
           /\ ~Crash /\ \A c \in Callers : ~WriteFails(c)
<1>a. ~Crash /\ \A c \in Callers : ~WriteFails(c)
  BY DEF Crash, WriteFails
<1>b. ~(unsure \/ strayed) => stray = {}
  BY DEF Flags
<1>1. CASE Elsewhere
  BY <1>a, <1>b, <1>1, ElsewhereIs
<1>2. CASE \E c \in Callers : Start(c) \/ Locked(c)
  BY <1>a, <1>b, <1>2, StartIs, LockedIs
<1>3. CASE \E c \in Callers : Passage(c)
  BY <1>a, <1>b, <1>3, PassageKeeps, PassageTypes
<1>4. CASE Halts
  <2>1. PICK cs \in SUBSET Callers : Cancel(cs)
    BY <1>4, HaltsIs
  <2>2. /\ strayed' = (strayed \/ \E c \in cs : write[c] # {})
        /\ stray' = stray \cup UNION {write[c] : c \in cs} /\ unsure' = unsure /\ state' = state
    BY <2>1, CancelIs
  <2> QED BY <1>a, <1>b, <2>2
<1>5. CASE UNCHANGED remVars \/ Exit \/ StrayLands \/ Restart
  <2>1. ~StrayLands
    BY <1>b, <1>5, RestIs DEF StrayLands, marks
  <2> QED BY <1>a, <1>b, <1>5, <2>1, RestIs
<1> QED BY <1>a, <1>1, <1>2, <1>3, <1>4, <1>5, StepIs

(* A pass whose last write is due finds the lock free.                      *)
LEMMA LastWriteIs ==
    ASSUME RemTypeOK, Guarded, Locks, NEW c \in Callers, Beyond(c)
    PROVE  lock \in {c, Nobody}
<1> SUFFICES ASSUME lock \notin {c, Nobody}
             PROVE  FALSE
  OBVIOUS
<1>1. lock \in Callers \ {c}
  BY DEF RemTypeOK, PassTypes
<1>2. stage[lock] = "off"
  BY <1>1, Alone
<1> QED BY <1>1, <1>2 DEF Locks, Shared

(* The flag is up from the first write of a pass to its last.              *)
LEMMA FlagsStep ==
    ASSUME RemTypeOK, Guarded, Locks, Flags, [RemNext]_remVars
    PROVE  Flags'
<1>a. stage \in [Callers -> Stages] /\ write \in [Callers -> SUBSET Files]
  BY DEF RemTypeOK, PassTypes
<1>b. \A c \in Callers : stage[c] \in Raised => Beyond(c)
  BY DEF Raised, Beyond
<1>1. ASSUME NEW c \in Callers, NEW f \in write'[c]
      PROVE  f.running <=> stage'[c] \in {"flag", "open"}
  BY WritesAre DEF Flags, Given
<1>2. ASSUME ~(unsure' \/ strayed')
      PROVE  /\ stray' = {}
             /\ \A c \in Callers : stage'[c] \in Raised => state'.running
             /\ state'.running => \E c \in Callers : Lowers(c)'
  <2>a. stray' = {} /\ ~Crash /\ \A c \in Callers : ~WriteFails(c)
    BY <1>2, FaultsAre
  <2>b. /\ \A c \in Callers : stage[c] \in Raised => state.running
        /\ state.running => \E c \in Callers : Lowers(c)
    BY <1>2, FaultsAre DEF Flags
  <2>1. CASE \E c \in Callers : Landed(c)
    <3>1. PICK c \in Callers : Landed(c)
      BY <2>1
    <3>2. /\ write[c] # {} /\ stage[c] \in Writing
          /\ state'.running <=> stage[c] \in {"flag", "open"}
      BY <3>1 DEF Landed, Locks, Flags
    <3>3. stage'[c] = After[stage[c]] /\ \A d \in Callers \ {c} : stage'[d] = stage[d]
      BY <1>a, <3>1 DEF Landed, Goto
    <3>4. stage'[c] \in Raised <=> stage[c] \in {"flag", "open"}
      BY <3>2, <3>3, Ways DEF Writing, Raised
    <3>5. ASSUME NEW d \in Callers \ {c}
          PROVE  stage'[d] \notin Raised
      <4>1. CASE Beyond(c)
        BY <3>3, <4>1, Alone DEF Raised
      <4>2. CASE stage[c] = "flag"
        BY <1>b, <3>3, <4>2 DEF Guarded, InGuard, Beyond
      <4>3. CASE stage[c] = "outer"
        BY <1>b, <3>3, <4>3 DEF Locks
      <4> QED BY <3>2, <4>1, <4>2, <4>3 DEF Beyond, Writing
    <3>6. state'.running => Lowers(c)'
      BY <3>2, <3>3, Ways DEF Lowers, Beyond
    <3> QED BY <2>a, <3>2, <3>4, <3>5, <3>6
  <2>2. CASE \A c \in Callers : ~Landed(c)
    <3>1. state' = state
      BY <1>2, <2>2, FaultsAre
    <3>2. ASSUME NEW c \in Callers, stage'[c] \in Raised
          PROVE  stage[c] \in Raised
      <4>1. CASE Elsewhere
        BY <3>2, <4>1, ElsewhereIs
      <4>2. CASE \E d \in Callers : Start(d) \/ Locked(d)
        BY <1>a, <3>2, <4>2, StartIs, LockedIs DEF Raised
      <4>3. CASE \E d \in Callers : Passage(d)
        <5>1. PICK d \in Callers : Passage(d)
          BY <4>3
        <5>2. CASE d # c
          BY <3>2, <5>1, <5>2, PassageTo
        <5>3. CASE d = c
          <6>1. stage[c] # "flag"
            BY <2>a, <2>2, <5>1, <5>3 DEF Passage, Admitted, Refused, Drain, Snapshot, Replied,
                                          Apply, Logged
          <6> QED BY <3>2, <5>1, <5>3, <6>1, PassageComes
        <5> QED BY <5>2, <5>3
      <4>4. CASE Halts
        <5>1. PICK cs \in SUBSET Callers : Cancel(cs)
          BY <4>4, HaltsIs
        <5>2. c \notin cs
          <6>1. c \in cs => stage'[c] = Fled(stage[c])
            BY <5>1, CancelIs
          <6>2. Fled(stage[c]) \in {"off", "inner", "outer"}
            BY <1>a, FledIs
          <6> QED BY <3>2, <6>1, <6>2 DEF Raised
        <5> QED BY <3>2, <5>1, <5>2, CancelIs
      <4>5. CASE UNCHANGED remVars \/ Exit \/ StrayLands \/ Restart
        BY <3>2, <4>5, RestIs
      <4> QED BY <2>a, <4>1, <4>2, <4>3, <4>4, <4>5, StepIs
    <3>3. ASSUME NEW c \in Callers, Lowers(c)
          PROVE  Lowers(c)'
      <4>1. CASE Elsewhere
        BY <3>3, <4>1, ElsewhereIs DEF Lowers, Beyond
      <4>2. CASE \E d \in Callers : Start(d)
        <5>1. PICK d \in Callers : Start(d)
          BY <4>2
        <5>2. d # c
          BY <3>3, <5>1, StartIs DEF Lowers, Beyond
        <5> QED BY <1>a, <3>3, <5>1, <5>2, StartIs DEF Lowers, Beyond
      <4>3. CASE \E d \in Callers : Locked(d)
        <5>1. PICK d \in Callers : Locked(d)
          BY <4>3
        <5>2. CASE d # c
          BY <1>a, <3>3, <5>1, <5>2, LockedIs DEF Lowers, Beyond
        <5>3. CASE d = c
          BY <3>3, <5>1, <5>3, LockedIs DEF Lowers, Beyond
        <5> QED BY <5>2, <5>3
      <4>4. CASE \E d \in Callers : Passage(d)
        <5>1. PICK d \in Callers : Passage(d)
          BY <4>4
        <5>2. CASE d # c
          BY <3>3, <5>1, <5>2, PassageTo DEF Lowers, Beyond
        <5>3. CASE d = c
          <6>1. Beyond(c)
            BY <2>a, <2>2, <3>3, <5>1, <5>3 DEF Passage, Admitted, Refused, Drain, Snapshot,
                                                Replied, Apply, Logged, Lowers, Beyond
          <6>2. PICK at \in Stages :
                  /\ Leads(stage[c], at) /\ stage'[c] = at
                  /\ write'[c] # {} <=> at \in Writing /\ (Shared(at) => lock \in {c, Nobody})
            BY <5>1, <5>3, PassageTo
          <6>3. at \notin {"off", "flag"}
            BY <6>1, <6>2 DEF Leads, Beyond
          <6>4. lock \in {c, Nobody} /\ "outer" \in Writing
            BY <6>1, LastWriteIs DEF Writing
          <6> QED BY <6>2, <6>3, <6>4 DEF Lowers, Beyond
        <5> QED BY <5>2, <5>3
      <4>5. CASE Halts
        <5>1. PICK cs \in SUBSET Callers : Cancel(cs)
          BY <4>5, HaltsIs
        <5>2. CASE c \notin cs
          BY <3>3, <5>1, <5>2, CancelIs DEF Lowers, Beyond
        <5>3. CASE c \in cs
          <6>1. stage'[c] = Fled(stage[c]) /\ write[c] = {}
            BY <1>2, <5>1, <5>3, CancelIs
          <6>2. Beyond(c)
            BY <3>3, <6>1 DEF Lowers
          <6>3. stage'[c] \in {"inner", "outer"}
            BY <1>a, <6>1, <6>2, FledIs DEF Beyond
          <6>4. (lock \in cs \cup {Nobody}) = TRUE
            BY <5>3, <6>2, LastWriteIs
          <6>5. write'[c] = Handed(stage'[c], started[c], TRUE)
            <7>1. write'[c] = Handed(Fled(stage[c]), started[c], lock \in cs \cup {Nobody})
              BY <5>1, <5>3, CancelIs, Zenon
            <7> QED BY <6>1, <6>4, <7>1, Zenon
          <6>6. write'[c] # {}
            BY <6>3, <6>5, HandedSome DEF Writing
          <6> QED BY <6>3, <6>6 DEF Lowers, Beyond
        <5> QED BY <5>2, <5>3
      <4>6. CASE UNCHANGED remVars \/ Exit \/ StrayLands \/ Restart
        BY <3>3, <4>6, RestIs DEF Lowers, Beyond
      <4> QED BY <2>a, <4>1, <4>2, <4>3, <4>4, <4>5, <4>6, StepIs
    <3> QED BY <2>a, <2>b, <3>1, <3>2, <3>3
  <2> QED BY <2>1, <2>2
<1> QED BY <1>1, <1>2 DEF Flags
-----------------------------------------------------------------------------
(* The invariant holds at the start.                                       *)
LEMMA RemStarts ==
    RemInit => RemInv
<1> SUFFICES ASSUME RemInit
             PROVE  RemInv
  OBVIOUS
<1> USE DEF RemInit
<1>1. \A c \in Callers : stage[c] = "off" /\ started[c] = 0 /\ slice[c] = {} /\ write[c] = {}
  OBVIOUS
<1>2. /\ state = [mark |-> 0, running |-> FALSE] /\ state.mark = 0 /\ ~state.running
      /\ stray = {} /\ Nobody \notin Callers
  BY RemAssumption DEF File
<1>3. EventTypes
  <2>1. clock \in Nat /\ drained \in Nat /\ born \in [Events -> Nat] /\ heard \in [Events -> Nat]
    OBVIOUS
  <2>2. << >> \in Seq(Events) /\ << >> \in Seq(Seq(Events))
    OBVIOUS
  <2>3. ring \in Seq(Events) /\ disk \in Seq(Events) /\ saves \in Seq(Seq(Events))
    BY <2>2
  <2> QED BY <2>1, <2>3 DEF EventTypes
<1>4. PassTypes
  <2>1. state \in Files
    BY DEF File, Files
  <2>2. "off" \in Stages
    BY DEF Stages
  <2> QED BY <1>2, <2>1, <2>2 DEF PassTypes
<1>5. Guarded
  BY <1>1 DEF Guarded, InGuard
<1>6. Locks
  BY <1>1, <1>2 DEF Locks, Beyond, Writing, Shared
<1>7. Down /\ Rings
  BY <1>1 DEF Down, Rings
<1>8. Clocks
  BY <1>1 DEF Clocks
<1>9. Marks
  <2>1. kept = {} /\ drained = 0
    OBVIOUS
  <2>2. Passes(state.mark)
    <3> HIDE DEF RemInit
    <3>1. state.mark <= drained
      BY <1>2, <2>1
    <3> QED BY <2>1, <3>1 DEF Passes
  <2> QED BY <1>1, <1>2, <2>1, <2>2 DEF Marks, Looked
<1>10. Hears
  BY <1>1, <1>2 DEF Hears, Covers, Looked
<1>11. Flags
  BY <1>1, <1>2 DEF Flags, Raised
<1> HIDE DEF RemInit
<1> QED BY <1>3, <1>4, <1>5, <1>6, <1>7, <1>8, <1>9, <1>10, <1>11 DEF RemInv, RemTypeOK

(* Every step keeps the invariant.                                         *)
LEMMA RemGoesOn ==
    RemInv /\ [RemNext]_remVars => RemInv'
<1> SUFFICES ASSUME RemInv, [RemNext]_remVars
             PROVE  RemInv'
  OBVIOUS
<1>1. RemTypeOK /\ Guarded /\ Locks /\ Down /\ Rings /\ Clocks /\ Marks /\ Hears /\ Flags
  BY DEF RemInv
<1>2. RemTypeOK'
  BY <1>1, EventTypesStep, PassTypesStep DEF RemTypeOK
<1>3. Guarded' /\ Locks' /\ Down'
  BY <1>1, GuardedStep, LocksStep, DownStep
<1>4. Rings' /\ Clocks'
  BY <1>1, RingsStep, ClocksStep
<1>5. Marks' /\ Hears' /\ Flags'
  BY <1>1, <1>2, MarksStep, HearsStep, FlagsStep DEF RemTypeOK
<1> QED BY <1>2, <1>3, <1>4, <1>5 DEF RemInv

(* REM keeps its inductive invariant.                                       *)
THEOREM RemInvariant ==
    RemSpec => []RemInv
BY RemStarts, RemGoesOn, PTL DEF RemSpec

(* Every variable has its type.                                             *)
THEOREM RemTypeCorrect ==
    RemSpec => []RemTypeOK
<1>1. RemInv => RemTypeOK
  BY DEF RemInv
<1> QED BY <1>1, RemInvariant, PTL

(* No event is assimilated by two passes.                                   *)
THEOREM EventsAreHeardOnce ==
    RemSpec => []HeardOnce
<1>1. RemInv => HeardOnce
  BY DEF RemInv, Hears, HeardOnce
<1> QED BY <1>1, RemInvariant, PTL

(* The watermark passes by only what came too late or was lost.             *)
THEOREM OnlyLateArePassedBy ==
    RemSpec => []OnlyLateAreSkipped
<1>1. RemInv => OnlyLateAreSkipped
  BY DEF RemInv, Marks, Passes, OnlyLateAreSkipped
<1> QED BY <1>1, RemInvariant, PTL

(* The flag on disk is true.                                                *)
THEOREM FlagIsTrue ==
    RemSpec => []FlagTells
<1>1. RemInv => FlagTells
  <2> SUFFICES ASSUME RemInv, ~(unsure \/ strayed)
               PROVE  /\ \A c \in Callers : stage[c] \in {"ask", "apply"} => state.running
                      /\ (\A c \in Callers : stage[c] = "off") => ~state.running
    BY DEF FlagTells
  <2> QED BY DEF RemInv, Flags, Raised, Lowers, Beyond
<1> QED BY <1>1, RemInvariant, PTL

(* Two locks stand for one file, the guard is given up before the last      *)
(* write, and yet at most one pass is inside the guard and a thread writes  *)
(* the file for at most one pass that has not been cancelled.               *)
THEOREM OneWritesAtATime ==
    RemSpec => [] \A c, d \in Callers : /\ InGuard(c) /\ InGuard(d) => c = d
                                        /\ write[c] # {} /\ write[d] # {} => c = d
<1>1. RemInv => \A c, d \in Callers : /\ InGuard(c) /\ InGuard(d) => c = d
                                      /\ write[c] # {} /\ write[d] # {} => c = d
  <2> SUFFICES ASSUME RemInv, NEW c \in Callers, NEW d \in Callers
               PROVE  /\ InGuard(c) /\ InGuard(d) => c = d
                      /\ write[c] # {} /\ write[d] # {} => c = d
    OBVIOUS
  <2>1. RemTypeOK /\ Guarded /\ Locks
    BY DEF RemInv
  <2>2. InGuard(c) /\ InGuard(d) => c = d
    BY <2>1 DEF Guarded
  <2>3. ASSUME write[c] # {}, write[d] # {}
        PROVE  c = d
    <3>1. CASE Beyond(c) \/ Beyond(d)
      BY <2>1, <2>3, <3>1, Alone
    <3>2. CASE ~Beyond(c) /\ ~Beyond(d)
      <4>1. stage[c] \in {"flag", "outer"} /\ stage[d] \in {"flag", "outer"}
        BY <2>1, <2>3, <3>2 DEF Locks, Beyond, Writing
      <4> QED BY <2>1, <2>3, <4>1 DEF Locks, Shared
    <3> QED BY <3>1, <3>2
  <2> QED BY <2>2, <2>3
<1> QED BY <1>1, RemInvariant, PTL
==============================================================================
