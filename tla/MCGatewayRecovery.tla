------------------------- MODULE MCGatewayRecovery -------------------------
(* Three rooms of which two keep a watermark, five messages. The recovery  *)
(* tasks are interchangeable: Next only ever quantifies over them.         *)
EXTENDS GatewayRecovery, TLC

CONSTANTS r1, r2, r3, t1, t2
MCRooms == {r1, r2, r3}
MCRoomOf == <<r1, r2, r3, r1, r1>>
MCTasks == {t1, t2}
TaskSymmetry == Permutations(MCTasks)
=============================================================================
