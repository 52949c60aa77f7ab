------------------------------ MODULE MCInbox ------------------------------
EXTENDS Inbox, TLC
Symmetry == Permutations(Handlers) \cup Permutations(Turns) \cup Permutations(Notices)
=============================================================================
