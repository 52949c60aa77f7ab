---------------------------- MODULE SlotPool ----------------------------
(***************************************************************************)
(* What the pool of model slots promises to the reply paths and to the     *)
(* background work, without its queue, its condition variable and its two  *)
(* counters: a set of calls that hold a slot, and the rule a call must     *)
(* satisfy at the moment it takes one.  FairSemaphore implements it.       *)
(***************************************************************************)
EXTENDS Naturals, FiniteSets

CONSTANTS Calls,          \* concurrent callers of acquire()
          Lower,          \* those below the top priority
          InitialCapacity

VARIABLES pool,      \* the current capacity
          holders,   \* calls that hold a slot
          queued     \* calls that asked for one and have not left

vars == <<pool, holders, queued>>

Init == /\ pool = InitialCapacity
        /\ holders = {}
        /\ queued = {}

(* A slot is free for c: lower priorities leave one slot to the top one.   *)
FreeFor(c) ==
    /\ Cardinality(holders) < pool
    /\ c \in Lower /\ pool > 1 => Cardinality(holders \cap Lower) < pool - 1

(* A background call is never served while a person waits.                 *)
MayTake(c) == FreeFor(c) /\ (c \in Lower => queued \ {c} \subseteq Lower)

Ask(c) == /\ c \notin holders \cup queued
          /\ queued' = queued \cup {c}
          /\ UNCHANGED <<pool, holders>>

Take(c) == /\ c \notin holders
           /\ MayTake(c)
           /\ holders' = holders \cup {c}
           /\ queued' = queued \ {c}
           /\ UNCHANGED pool

GiveBack(c) == /\ c \in holders
               /\ holders' = holders \ {c}
               /\ UNCHANGED <<pool, queued>>

Abandon(c) == /\ c \in queued
              /\ queued' = queued \ {c}
              /\ UNCHANGED <<pool, holders>>

(* Shrinking below the number of holders revokes nothing.                  *)
Resize == pool' \in Nat \ {0} /\ UNCHANGED <<holders, queued>>

Next == \/ \E c \in Calls : Ask(c) \/ Take(c) \/ GiveBack(c) \/ Abandon(c)
        \/ Resize

Spec == Init /\ [][Next]_vars
=========================================================================
