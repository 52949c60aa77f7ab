--------------------------- MODULE MCToolProgress ---------------------------
(***************************************************************************)
(* One progress message with two ticks at a time, the update of the turn   *)
(* and the deferred flush, in a turn that may be cancelled anywhere, under *)
(* two failing requests.                                                   *)
(***************************************************************************)
EXTENDS ToolProgress, TLC

CONSTANTS one, two

TickSymmetry == Permutations(Ticks)
=============================================================================
