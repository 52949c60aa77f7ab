--------------------------- MODULE ReplyLine ---------------------------
(***************************************************************************)
(* What message_pipeline.ReplyQueue promises the rooms of the bot, without *)
(* its pump tasks: every room has a line of waiting messages and answers   *)
(* at most one of them at a time, only a waiting message is ever answered, *)
(* and once the queue is closed nothing waits and nothing is answered.     *)
(***************************************************************************)
CONSTANTS Rooms, Messages

VARIABLES waiting,     \* room -> the messages in its line
          answering,   \* room -> the messages being answered
          isOpen

vars == <<waiting, answering, isOpen>>

Init == /\ waiting = [r \in Rooms |-> {}]
        /\ answering = [r \in Rooms |-> {}]
        /\ isOpen = TRUE

(* m joins the line of room r, possibly in the place of others.            *)
Join(r, m) == /\ isOpen
              /\ \E gone \in SUBSET waiting[r] :
                    waiting' = [waiting EXCEPT ![r] = (@ \ gone) \cup {m}]
              /\ UNCHANGED <<answering, isOpen>>

(* Messages leave the line of r unanswered: too old, stopped, expired.     *)
Leave(r) == /\ \E gone \in SUBSET waiting[r] :
                  waiting' = [waiting EXCEPT ![r] = @ \ gone]
            /\ UNCHANGED <<answering, isOpen>>

Begin(r, m) == /\ answering[r] = {}
               /\ m \in waiting[r]
               /\ waiting' = [waiting EXCEPT ![r] = @ \ {m}]
               /\ answering' = [answering EXCEPT ![r] = {m}]
               /\ UNCHANGED isOpen

End(r) == /\ answering' = [answering EXCEPT ![r] = {}]
          /\ UNCHANGED <<waiting, isOpen>>

Close == /\ \A r \in Rooms : waiting[r] = {} /\ answering[r] = {}
         /\ isOpen' = FALSE
         /\ UNCHANGED <<waiting, answering>>

Next == \/ \E r \in Rooms : Leave(r) \/ End(r)
        \/ \E r \in Rooms, m \in Messages : Join(r, m) \/ Begin(r, m)
        \/ Close

Spec == Init /\ [][Next]_vars
=========================================================================
