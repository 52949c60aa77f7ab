----------------------- MODULE FairSemaphoreTurns -----------------------
(***************************************************************************)
(* FairSemaphore with a history variable that no code reads: passed[c] is  *)
(* the set of rooms that were given a slot, at c's priority, since c began *)
(* to wait or c's own room was last given one.                             *)
(***************************************************************************)
EXTENDS FairSemaphore

VARIABLE passed

turnVars == <<vars, passed>>

SamePriority(c, d) == (c \in Lower) = (d \in Lower)

Admitted(d) == status[d] # "holding" /\ status'[d] = "holding"

TurnsInit == Init /\ passed = [c \in Calls |-> {}]

TurnsNext ==
    /\ Next
    /\ passed' =
         [c \in Calls |->
            IF c \notin Waiting' \/ c \notin Waiting THEN {}
            ELSE IF \E d \in Calls : Admitted(d) /\ RoomOf[d] = RoomOf[c] THEN {}
            ELSE passed[c] \cup {RoomOf[d] : d \in {e \in Calls :
                                       Admitted(e) /\ SamePriority(c, e)}}]

TurnsSpec == TurnsInit /\ [][TurnsNext]_turnVars
FairTurnsSpec == TurnsSpec /\ Fairness

(* FairSemaphore's docstring: "one turn per room before any room gets a    *)
(* second".  While a call waits, no other room is served twice before it.  *)
(* It holds while _last_served has room: a room that _mark_served drops    *)
(* looks new again, and may have a second turn before another has its first.*)
OneTurnEach ==
    [][\A c, d \in Calls :
          c \in Waiting /\ Admitted(d) /\ SamePriority(c, d)
             => RoomOf[d] \notin passed[c]]_turnVars
=========================================================================
