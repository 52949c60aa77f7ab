-------------------------- MODULE MCReplyQueue --------------------------
(* A busy room with three messages and a second room with one: the line of *)
(* two overflows, and close() finds one room while it awaits the other.    *)
EXTENDS ReplyQueue, TLC

CONSTANTS m1, m2, m3, m4, a, b

MCRoomOf == (m1 :> a) @@ (m2 :> a) @@ (m3 :> a) @@ (m4 :> b)
=========================================================================
