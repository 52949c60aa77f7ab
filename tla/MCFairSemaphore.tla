------------------------ MODULE MCFairSemaphore ------------------------
(* Three people, two of them in one room, and a background caller, each of *)
(* whom comes back as often as it likes, and room for only two of their    *)
(* three rooms in _last_served, so that rooms are forgotten.               *)
EXTENDS FairSemaphoreTurns, TLC

CONSTANTS u1, u2, u3, b1, r1, r2, r3

MCRoomOf == (u1 :> r1) @@ (u2 :> r2) @@ (u3 :> r2) @@ (b1 :> r3)
MCPriorityOf == (b1 :> "background") @@ [c \in {u1, u2, u3} |-> "user"]
=========================================================================
