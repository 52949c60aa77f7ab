-------------------------- MODULE MCBackgroundJobs --------------------------
(* Three jobs of two users, of whom one asks twice; the server of the first*)
(* job shows progress messages.                                            *)
EXTENDS BackgroundJobs

CONSTANTS ann, bob
MCJobs == 1..3
MCUsers == {ann, bob}
MCOwnerOf == <<ann, bob, ann>>
MCShown == {1}
=============================================================================
