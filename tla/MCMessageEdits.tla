------------------------- MODULE MCMessageEdits -------------------------
(***************************************************************************)
(* A message whose link gets a preview after its creation and whose text   *)
(* is edited after that, and the message it replies to, which the library  *)
(* does not hold and which is edited twice.                                *)
(***************************************************************************)
EXTENDS MessageEdits, TLC

CONSTANTS asked, parent, preview

MCEdits == (asked :> 2) @@ (parent :> 2)
MCPictureOf == 0 :> NoPicture @@ 1 :> preview @@ 2 :> preview
=========================================================================
