--------------------------- MODULE RoomIntake ---------------------------
(***************************************************************************)
(* The way of a message from the gateway to its turn: on_message with its  *)
(* gates, the interrupt of the same person's older question, the lock of   *)
(* the room around the memory write, the debounce bucket in which ordinary *)
(* talk waits for the room to fall quiet, the line of the room, the turn's *)
(* marks, and "!stop".                                                     *)
(*                                                                         *)
(* The line is the one ReplyLine promises and ReplyQueue implements.  A    *)
(* message is direct (it addresses the bot) or ordinary.  What is decided  *)
(* by things outside of this module is a free choice whenever the code asks*)
(* for it: the switches bot_enabled and reply_mentions, and whether an     *)
(* ordinary line is worth an answer (the watch of its room, the pressure of*)
(* the line, the cool-down of its author, sleep, REM).  The clock is left  *)
(* out: a timer may expire at any time.  A turn is only what the other     *)
(* parts see of it.                                                        *)
(***************************************************************************)
EXTENDS FiniteSets

CONSTANTS Rooms, Messages,
          RoomOf, AuthorOf,
          Direct,            \* the messages that address the bot
          None

ASSUME IntakeAssumption ==
    /\ RoomOf \in [Messages -> Rooms]
    /\ DOMAIN AuthorOf = Messages
    /\ Direct \subseteq Messages
    /\ None \notin Messages

VARIABLES waiting, answering, isOpen,   \* the lines: see ReplyLine
          at,         \* message -> where on_message has it
          lock,       \* room -> the message whose memory write holds it
          bucket,     \* room -> its debounce bucket
          working,    \* room -> the message in _active_requests, or None
          replying,   \* _replying_channels
          hushed,     \* rooms in which "!stop" has been given
          begun,      \* messages whose turn has begun
          stopped,    \* messages "!stop" found waiting or being answered
          halts       \* message -> the one whose turn it interrupts, or None

lineVars == <<waiting, answering, isOpen>>
turnVars == <<working, replying, begun>>
stopVars == <<hushed, stopped, halts>>
vars == <<lineVars, turnVars, stopVars, at, lock, bucket>>

Line == INSTANCE ReplyLine

(* "storing" holds the lock, "unlocked" gave up waiting for it; "stuck" is *)
(* a memory write that never returns, with the lock or without it.         *)
Places == {"new", "reading", "interrupting", "locking", "storing", "unlocked",
           "stuck", "leaving", "handed", "ignored", "off"}
Inside(m) == at[m] \notin {"new", "handed", "ignored", "off"}

(* latest is the newest line of the burst, earned the newest that earned   *)
(* an answer (latest_directed).                                            *)
NoBucket == [latest |-> None, earned |-> None]

Init == /\ Line!Init
        /\ at = [m \in Messages |-> "new"]
        /\ lock = [r \in Rooms |-> None]
        /\ bucket = [r \in Rooms |-> NoBucket]
        /\ working = [r \in Rooms |-> None]
        /\ replying = {}
        /\ hushed = {}
        /\ begun = {}
        /\ stopped = {}
        /\ halts = [m \in Messages |-> None]
-----------------------------------------------------------------------------
(* Plausible wrong forms of the definitions below: each breaks a property. *)
FlushKeeps(r) == bucket                  \* forgets to pop the bucket
BucketSurvives(r) == bucket              \* "!stop" forgets the bucket
WaitForEver(m) == FALSE                  \* no time limit on the lock
-----------------------------------------------------------------------------
Move(m, place) == at' = [at EXCEPT ![m] = place]

(* The gates of on_message before its first await.  A room is deaf for the *)
(* second after "!stop".                                                   *)
Receive(m) ==
    /\ at[m] = "new"
    /\ \/ Move(m, "reading")
       \/ Move(m, "off")
       \/ RoomOf[m] \in hushed /\ Move(m, "ignored")
    /\ UNCHANGED <<lineVars, turnVars, stopVars, lock, bucket>>

(* _should_interrupt_inflight: the same person addresses the bot again     *)
(* while the request of an older message of theirs is running.             *)
Interrupts(m) == /\ m \in Direct
                 /\ working[RoomOf[m]] # None
                 /\ AuthorOf[working[RoomOf[m]]] = AuthorOf[m]

(* The referenced message has been fetched; the older turn is cancelled: it*)
(* may end at any time, now, after its cleaning up, or never.              *)
HaveRead(m) ==
    /\ at[m] = "reading"
    /\ IF Interrupts(m)
       THEN /\ Move(m, "interrupting")
            /\ halts' = [halts EXCEPT ![m] = working[RoomOf[m]]]
       ELSE Move(m, "locking") /\ UNCHANGED halts
    /\ UNCHANGED <<lineVars, turnVars, hushed, stopped, lock, bucket>>

(* The limit of two and a half seconds cancels the turn once more, but     *)
(* wait_for returns only when the turn has ended.                          *)
AwaitsEnd(m) == at[m] = "interrupting" /\ halts[m] \in answering[RoomOf[m]]
AfterInterrupt(m) ==
    /\ at[m] = "interrupting"
    /\ ~AwaitsEnd(m)
    /\ Move(m, "locking")
    /\ UNCHANGED <<lineVars, turnVars, stopVars, lock, bucket>>

Acquire(m) == /\ at[m] = "locking"
              /\ lock[RoomOf[m]] = None
              /\ lock' = [lock EXCEPT ![RoomOf[m]] = m]
              /\ Move(m, "storing")
              /\ UNCHANGED <<lineVars, turnVars, stopVars, bucket>>

(* _channel_lock_timeout: the message is stored without the lock.          *)
MayGiveUp(m) == lock[RoomOf[m]] # None
GiveUp(m) == /\ at[m] = "locking"
             /\ MayGiveUp(m)
             /\ Move(m, "unlocked")
             /\ UNCHANGED <<lineVars, turnVars, stopVars, lock, bucket>>

(* The memory write returns, or never does.                                *)
HaveStored(m) == /\ at[m] \in {"storing", "unlocked"}
                 /\ lock' = [lock EXCEPT ![RoomOf[m]] = IF @ = m THEN None ELSE @]
                 /\ Move(m, "leaving")
                 /\ UNCHANGED <<lineVars, turnVars, stopVars, bucket>>

Hang(m) == /\ at[m] \in {"storing", "unlocked"}
           /\ Move(m, "stuck")
           /\ UNCHANGED <<lineVars, turnVars, stopVars, lock, bucket>>
-----------------------------------------------------------------------------
(* _busy_reason: a line waits in the room, or a turn runs anywhere.        *)
Busy(r) == \/ waiting[r] # {}
           \/ replying # {}
           \/ \E s \in Rooms : answering[s] # {} \/ working[s] # None

(* _queue_watch_reply: a line that has not earned an answer only prolongs  *)
(* the wait of a bucket that is there.                                     *)
Bucketed(r, m, earned) ==
    IF earned THEN [bucket EXCEPT ![r] = [latest |-> m, earned |-> m]]
    ELSE IF bucket[r] = NoBucket THEN bucket
    ELSE [bucket EXCEPT ![r].latest = m]

Emptied(r) == [bucket EXCEPT ![r] = NoBucket]

(* The end of on_message: what addresses the bot goes into the line at once*)
(* and ends the wait of the bucket; other lines join the bucket.           *)
HandDirect(m) == /\ Move(m, "handed")
                 /\ bucket' = Emptied(RoomOf[m])
                 /\ Line!Join(RoomOf[m], m)

HandTalk(m) == /\ ~Busy(RoomOf[m])
               /\ Move(m, "handed")
               /\ bucket' = Bucketed(RoomOf[m], m, TRUE)
               /\ UNCHANGED lineVars

IgnoreTalk(m) == /\ Move(m, "ignored")
                 /\ bucket' \in {bucket,                 \* in its cool-down
                                 Bucketed(RoomOf[m], m, FALSE)}
                 /\ UNCHANGED lineVars

SwitchedOff(m) == /\ Move(m, "off")
                  /\ bucket' = Bucketed(RoomOf[m], m, FALSE)
                  /\ UNCHANGED lineVars

Leave(m) == /\ at[m] = "leaving"
            /\ \/ m \in Direct /\ HandDirect(m)
               \/ m \notin Direct /\ (HandTalk(m) \/ IgnoreTalk(m))
               \/ SwitchedOff(m)
            /\ UNCHANGED <<turnVars, stopVars, lock>>

(* _flush_watch_reply: the room fell quiet.  The bucket is popped; talk is *)
(* dropped if the bot has become busy meanwhile, or the watch was ended.   *)
MustYield(r) == Busy(r)
Popped(r) == Emptied(r)
Flush(r) == /\ bucket[r] # NoBucket
            /\ bucket' = Popped(r)
            /\ \/ ~MustYield(r) /\ Line!Join(r, bucket[r].earned)
               \/ UNCHANGED lineVars
            /\ UNCHANGED <<turnVars, stopVars, at, lock>>
-----------------------------------------------------------------------------
(* A turn: the pump takes a message; past the sleep gate the room is marked*)
(* as being answered, and from the model's request on the turn can be      *)
(* interrupted.  However it ends, both marks are taken back.               *)
Begin(r, m) == /\ Line!Begin(r, m)
               /\ begun' = begun \cup {m}
               /\ UNCHANGED <<working, replying, stopVars, at, lock, bucket>>

Prepare(r) == /\ answering[r] # {}
              /\ replying' = replying \cup {r}
              /\ UNCHANGED <<lineVars, working, begun, stopVars, at, lock,
                             bucket>>

Work(r) == /\ r \in replying
           /\ \E m \in answering[r] : working' = [working EXCEPT ![r] = m]
           /\ UNCHANGED <<lineVars, replying, begun, stopVars, at, lock, bucket>>

End(r) == /\ answering[r] # {}
          /\ Line!End(r)
          /\ working' = [working EXCEPT ![r] = None]
          /\ replying' = replying \ {r}
          /\ UNCHANGED <<begun, stopVars, at, lock, bucket>>

(* Lines grow too old to be answered.                                      *)
Expire(r) == /\ Line!Leave(r)
             /\ UNCHANGED <<turnVars, stopVars, at, lock, bucket>>

(* "!stop": the line and the bucket of the room are emptied and its turn is*)
(* cancelled.                                                              *)
Dropped(r) == Emptied(r)
Stop(r) ==
    LET inBucket == {bucket[r].latest, bucket[r].earned} \ {None}
    IN  /\ hushed' = hushed \cup {r}
        /\ waiting' = [waiting EXCEPT ![r] = {}]
        /\ bucket' = Dropped(r)
        /\ stopped' = stopped \cup waiting[r] \cup inBucket \cup answering[r]
        /\ UNCHANGED <<answering, isOpen, turnVars, halts, at, lock>>

OnMessage(m) == \/ Receive(m) \/ HaveRead(m) \/ AfterInterrupt(m) \/ Acquire(m)
                \/ GiveUp(m) \/ HaveStored(m) \/ Hang(m) \/ Leave(m)

Next == \/ \E m \in Messages : OnMessage(m)
        \/ \E r \in Rooms : \/ Flush(r) \/ Prepare(r) \/ Work(r) \/ End(r)
                            \/ Stop(r) \/ Expire(r)
        \/ \E r \in Rooms, m \in Messages : Begin(r, m)

Spec == Init /\ [][Next]_vars

(* The event loop runs every handler on, Discord answers a fetch or fails, *)
(* and the time limit of the lock expires.  Nothing is assumed of turns,   *)
(* not even that an interrupted one ends, of commands and of the timers of *)
(* the debounce.                                                           *)
Fairness == \A m \in Messages :
               /\ WF_vars(HaveRead(m)) /\ WF_vars(AfterInterrupt(m))
               /\ WF_vars(Acquire(m) \/ GiveUp(m))
               /\ WF_vars(HaveStored(m) \/ Hang(m))
               /\ WF_vars(Leave(m))

FairSpec == Spec /\ Fairness
-----------------------------------------------------------------------------
(* The shape of the state: a line holds messages, and no step closes it.   *)
TypeOK ==
    /\ waiting \in [Rooms -> SUBSET Messages]
    /\ answering \in [Rooms -> SUBSET Messages] /\ isOpen = TRUE
    /\ at \in [Messages -> Places]
    /\ lock \in [Rooms -> Messages \cup {None}]
    /\ bucket \in [Rooms -> [latest : Messages \cup {None},
                             earned : Messages \cup {None}]]
    /\ working \in [Rooms -> Messages \cup {None}]
    /\ replying \subseteq Rooms /\ hushed \subseteq Rooms
    /\ begun \subseteq Messages /\ stopped \subseteq Messages
    /\ halts \in [Messages -> Messages \cup {None}]

Starts(m) == \E r \in Rooms : m \in answering'[r] \ answering[r]

(* No message is answered twice, whichever way it took: through the bucket,*)
(* prolonged by newer lines, or directly into the line (bot.py:3557).      *)
AnsweredOnce == [][\A m \in begun : ~Starts(m)]_vars

(* Ordinary talk never queues behind work: when it enters a line, no turn  *)
(* runs in any room and nothing waits in its own, although it was found    *)
(* worth an answer a whole debounce wait earlier (bot.py:3572-3577).       *)
TalkYields ==
    [][\A r \in Rooms : \A m \in (waiting'[r] \ waiting[r]) \ Direct :
          waiting[r] = {} /\ \A s \in Rooms : answering[s] = {}]_vars

(* What "!stop" found in the line, in the bucket or being answered is never*)
(* begun again (bot.py:5515-5525).                                         *)
StoppedStayStopped == [][\A m \in stopped : ~Starts(m)]_vars

(* A message that addresses the bot and is let in reaches the line of its  *)
(* room, whoever holds the lock of the room, unless its own memory write   *)
(* hangs or replies are switched off; the one thing that keeps it back is  *)
(* an older turn of its author that does not end when it is interrupted,   *)
(* and it goes on as soon as that turn has (bot.py:5007-5046).             *)
DirectIsHandedOn ==
    \A m \in Direct :
       Inside(m) ~> at[m] \in {"handed", "stuck", "off"} \/ AwaitsEnd(m)
=========================================================================
