-------------------------------- MODULE Rem --------------------------------
(***************************************************************************)
(* REM, the periodic assimilation of what was said into long-term memory:  *)
(* the ring of visible events and its debounced save (rag_memory.py,       *)
(* RemEventLog), the state file with the watermark and the running flag    *)
(* (rem.py, RemStore), one pass (run_rem_once) and the guard around it     *)
(* that the scheduler and the command !rem now share                       *)
(* (bot.py, _run_rem_once_guarded).                                        *)
(*                                                                         *)
(* Every file is written by a worker thread that ends in os.replace, so a  *)
(* write lands whole or not at all; a task that is cancelled while it      *)
(* waits for its thread leaves the thread running, and its write may land  *)
(* after later ones (stray).  Times are drawn from one clock that moves on *)
(* every use, so two of them are never equal.                              *)
(***************************************************************************)
EXTENDS Integers, Sequences, FiniteSets

CONSTANTS
    Events,      \* what people and the bot say
    Callers,     \* who starts passes: the scheduler loop, !rem now
    Scheduler,   \* the one of them that is the scheduler loop
    Nobody,
    MaxEvents,   \* the capacity of the ring, REM_EVENT_BUFFER_MAX
    MaxPasses,   \* passes explored
    MaxTroubles  \* failed reads, writes and requests, stops and crashes, in all

ASSUME RemAssumption ==
    /\ MaxEvents \in Nat \ {0}
    /\ Scheduler \in Callers /\ Nobody \notin Callers
    /\ MaxPasses \in Nat /\ MaxTroubles \in Nat

VARIABLES
    clock,
    born,      \* when each event was said, 0 before
    ring,      \* RemEventLog.events
    dirty,     \* RemEventLog._dirty
    timer,     \* a debounced save sleeps: RemEventLog._save_task
    saves,     \* the snapshots queued at _save_lock; a thread writes the head
    disk,      \* rem_events.json
    state,     \* rem_state.json: last_rem_run_ts and running
    guard,     \* bot._rem_running
    lock,      \* who holds the lock of bot.rem_store
    stage,     \* caller -> the await its pass is at
    started,   \* caller -> when its pass looked at the ring
    slice,     \* caller -> the events its pass has read
    write,     \* caller -> the state file a thread writes for it, if any
    stray,     \* state files threads still write for cancelled tasks
    enabled,   \* bot.rem_enabled
    mode,      \* the process: up, stopping, flushing, ending or down
    passes, troubles,  \* the bounds used up
    heard,     \* history: how often each event was assimilated
    kept,      \* history: the events that were recorded
    late,      \* history: those recorded after a pass had looked for them
    gone,      \* history: those the full ring or a restart lost
    unsaved,   \* history: those of a ring whose write failed
    drained,   \* history: when a pass last looked at the ring
    reread,    \* history: those a pass read though they were behind the watermark
    redone,    \* history: a pass had its answer and lost its watermark
    unsure,    \* history: a write failed, or the process crashed
    strayed,   \* history: a write has outlived its task
    undone     \* history: such a write took the watermark back

ringVars == <<ring, dirty, timer, saves, disk>>
pass == <<stage, started, slice, write>>
bounds == <<passes, troubles>>
memory == <<heard, kept, late, gone, unsaved, drained, reread>>
marks == <<redone, unsure, strayed, undone>>
remVars == <<clock, born, ringVars, state, guard, lock, pass, stray, enabled, mode, bounds,
             memory, marks>>

File(mark, running) == [mark |-> mark, running |-> running]
Files == [mark : Nat, running : BOOLEAN]

\* The last n elements of s: events[-max_events:].
Newest(s, n) == SubSeq(s, IF Len(s) > n THEN Len(s) - n + 1 ELSE 1, Len(s))

Members(s) == {s[i] : i \in DOMAIN s}

\* Where a pass writes the state file, and where an exception leads from
\* each place: inside the try of run_rem_once its own finally comes first.
Writing == {"flag", "empty", "open", "close", "inner", "outer"}
Inside == {"open", "ask", "apply", "close", "log"}
Stages == {"off", "slot", "begin", "emptylog", "snapshot"} \cup Inside \cup Writing

Unwound(at) == IF at \in Inside THEN "inner" ELSE "outer"

EventTypes ==
    /\ clock \in Nat /\ born \in [Events -> Nat]
    /\ ring \in Seq(Events) /\ disk \in Seq(Events) /\ saves \in Seq(Seq(Events))
    /\ dirty \in BOOLEAN /\ timer \in BOOLEAN /\ enabled \in BOOLEAN
    /\ mode \in {"up", "stopping", "flushing", "ending", "down"}
    /\ heard \in [Events -> Nat] /\ drained \in Nat
    /\ kept \subseteq Events /\ late \subseteq Events /\ gone \subseteq Events
    /\ reread \subseteq Events
PassTypes ==
    /\ state \in Files /\ stray \subseteq Files
    /\ guard \in BOOLEAN /\ lock \in Callers \cup {Nobody}
    /\ stage \in [Callers -> Stages] /\ started \in [Callers -> Nat]
    /\ slice \in [Callers -> SUBSET Events] /\ write \in [Callers -> SUBSET Files]
    /\ redone \in BOOLEAN /\ unsure \in BOOLEAN /\ strayed \in BOOLEAN /\ undone \in BOOLEAN
RemTypeOK == EventTypes /\ PassTypes

RemInit ==
    /\ clock = 0 /\ born = [e \in Events |-> 0]
    /\ ring = << >> /\ disk = << >> /\ dirty = FALSE /\ timer = FALSE /\ saves = << >>
    /\ state = File(0, FALSE)
    /\ guard = FALSE /\ lock = Nobody
    /\ stage = [c \in Callers |-> "off"] /\ started = [c \in Callers |-> 0]
    /\ slice = [c \in Callers |-> {}] /\ write = [c \in Callers |-> {}]
    /\ stray = {} /\ enabled = TRUE /\ mode = "up"
    /\ passes = 0 /\ troubles = 0
    /\ heard = [e \in Events |-> 0] /\ kept = {} /\ late = {} /\ gone = {} /\ unsaved = {}
    /\ drained = 0 /\ reread = {}
    /\ redone = FALSE /\ unsure = FALSE /\ strayed = FALSE /\ undone = FALSE

------------------------------------------------------------------------------
(* The ring of events. *)

Says(e) ==
    /\ mode # "down" /\ born[e] = 0
    /\ clock' = clock + 1
    /\ born' = [born EXCEPT ![e] = clock + 1]

\* A member says something; Discord stamps it then, the bot records it later.
Said(e) ==
    /\ Says(e)
    /\ UNCHANGED <<ringVars, state, guard, lock, pass, stray, enabled, mode, bounds, memory,
                   marks>>

\* RemEventLog.record: append, keep the newest, restart the debounce.
Recorded(e, said) ==
    /\ ring' = Newest(Append(ring, e), MaxEvents)
    /\ dirty' = TRUE /\ timer' = TRUE
    /\ kept' = kept \cup {e}
    /\ late' = IF said <= drained THEN late \cup {e} ELSE late
    /\ gone' = gone \cup (Members(ring) \ Members(ring'))
    /\ UNCHANGED <<saves, disk, state, guard, lock, pass, stray, enabled, mode, bounds, heard,
                   unsaved, drained, reread, marks>>

\* A user's event keeps the time Discord gave the message.
RecordUser(e) ==
    /\ mode # "down" /\ born[e] # 0 /\ e \notin kept
    /\ Recorded(e, born[e])
    /\ UNCHANGED <<clock, born>>

\* The bot's own words are stamped as they are recorded.
RecordAssistant(e) == Says(e) /\ Recorded(e, clock + 1)

\* _do_save: the flag is cleared before the snapshot is written.
Debounced ==
    /\ mode # "down" /\ timer
    /\ timer' = FALSE /\ dirty' = FALSE
    /\ saves' = IF dirty THEN Append(saves, ring) ELSE saves
    /\ UNCHANGED <<clock, born, ring, disk, state, guard, lock, pass, stray, enabled, mode,
                   bounds, memory, marks>>

SaveLands ==
    /\ saves # << >>
    /\ disk' = Head(saves) /\ saves' = Tail(saves)
    /\ UNCHANGED <<clock, born, ring, dirty, timer, state, guard, lock, pass, stray, enabled,
                   mode, bounds, memory, marks>>

Trouble == troubles < MaxTroubles /\ troubles' = troubles + 1 /\ UNCHANGED passes

\* The write fails: nothing marks the ring dirty again.
SaveFails ==
    /\ saves # << >> /\ Trouble
    /\ saves' = Tail(saves)
    /\ unsaved' = unsaved \cup Members(Head(saves))
    /\ UNCHANGED <<clock, born, ring, dirty, timer, disk, state, guard, lock, pass, stray,
                   enabled, mode, heard, kept, late, gone, drained, reread, marks>>

------------------------------------------------------------------------------
(* One pass: _run_rem_once_guarded around run_rem_once. *)

others == <<born, ringVars, stray, enabled, mode>>

\* A plausible wrong form: the stores have no lock.
NoLock(at) == FALSE

\* The guard's two writes go through bot.rem_store, the others through the
\* store run_rem_once makes for itself: two locks for one file.
Shared(at) == at \in {"flag", "outer"}

\* Plausible wrong forms: the pass forgets its watermark; it marks the time it ends.
ForgetsMark(at, since, file) == File(file.mark, at \in {"flag", "open"})

MarksTheEnd(at, since, file) ==
    File(IF at \in {"empty", "close"} THEN clock ELSE file.mark, at \in {"flag", "open"})

\* What each write changes of the file it has just read.
Updated(at, since, file) ==
    File(IF at \in {"empty", "close"} THEN since ELSE file.mark, at \in {"flag", "open"})

\* A pass gets to a place; if it is a write, patch_state reads the file at once
\* and hands the new one to a thread, unless it has to wait for the lock.
Handed(at, since, free) ==
    IF at \in Writing /\ (Shared(at) => free) THEN {Updated(at, since, state')} ELSE {}

\* The pass of c goes to at and lets go of the lock it held; leaving
\* run_rem_once, the guard is given up before the last write.
Goto(c, at) ==
    LET free == lock \in {c, Nobody} IN
    /\ stage' = [stage EXCEPT ![c] = at]
    /\ write' = [write EXCEPT ![c] = Handed(at, started'[c], free)]
    /\ lock' = IF free THEN (IF Shared(at) THEN c ELSE Nobody) ELSE lock
    /\ guard' = (guard /\ at # "outer")

\* The scheduler's turn comes round, or an admin types !rem now.  The guard
\* is taken before the first await.
Start(c) ==
    LET free == lock = Nobody IN
    /\ mode = "up" /\ stage[c] = "off" /\ passes < MaxPasses
    /\ c = Scheduler => enabled
    /\ ~ guard
    /\ guard' = TRUE
    /\ passes' = passes + 1
    /\ UNCHANGED <<clock, others, state, troubles, memory, marks>>
    /\ stage' = [stage EXCEPT ![c] = "flag"] /\ started' = [started EXCEPT ![c] = 0]
    /\ slice' = [slice EXCEPT ![c] = {}]
    /\ write' = [write EXCEPT ![c] = Handed("flag", 0, free)]
    /\ lock' = IF free THEN c ELSE lock

\* The lock of bot.rem_store comes free for a write that waited.
Locked(c) ==
    /\ Shared(stage[c]) /\ write[c] = {} /\ lock = Nobody
    /\ UNCHANGED <<clock, others, state, guard, stage, started, slice, bounds, memory, marks>>
    /\ write' = [write EXCEPT ![c] = Handed(stage[c], started[c], TRUE)]
    /\ lock' = c

\* Where a pass goes when its write is over, landed or not.
After == [flag |-> "slot", open |-> "ask", empty |-> "emptylog", close |-> "log",
          inner |-> "outer", outer |-> "off"]

Landed(c) ==
    /\ \E file \in write[c] : state' = file
    /\ UNCHANGED <<clock, others, started, slice, bounds, memory, marks>>
    /\ Goto(c, After[stage[c]])

\* What a pass that has its answer may lose by failing: its watermark.
Redo(c) == stage[c] \in {"apply", "close"}

\* patch_state finds the file unreadable and writes nothing, or the write
\* raises: the guard's writes and the inner finally suppress that, elsewhere
\* it ends the pass.
WriteFails(c) ==
    /\ write[c] # {} /\ Trouble
    /\ unsure' = TRUE /\ redone' = (redone \/ Redo(c))
    /\ UNCHANGED <<clock, others, state, started, slice, memory, strayed, undone>>
    /\ \/ Goto(c, After[stage[c]])
       \/ stage[c] \in {"open", "empty", "close"} /\ Goto(c, Unwound(stage[c]))

\* No slot in time, no provider, or no answer.
Refused(c) ==
    /\ stage[c] \in {"slot", "ask"} /\ Trouble
    /\ UNCHANGED <<clock, others, state, started, slice, memory, marks>>
    /\ Goto(c, Unwound(stage[c]))

\* A state file that cannot be read counts as an empty one, without a mark.
LoadState(since) == \/ since = state.mark /\ UNCHANGED bounds
                    \/ since = 0 /\ Trouble

\* load_state, started, drain_slice: no await yields between them.
Drain(c) ==
    /\ stage[c] = "begin"
    /\ clock' = clock + 1 /\ drained' = clock + 1
    /\ started' = [started EXCEPT ![c] = clock + 1]
    /\ \E since \in {state.mark, 0} :
          /\ LoadState(since)
          /\ slice' = [slice EXCEPT ![c] = {e \in Members(ring) : born[e] > since}]
    /\ reread' = reread \cup {e \in slice'[c] : born[e] <= state.mark}
    /\ UNCHANGED <<others, state, heard, kept, late, gone, unsaved, marks>>
    /\ Goto(c, IF slice'[c] = {} THEN "empty" ELSE "snapshot")

Quietly == UNCHANGED <<clock, others, state, started, slice, bounds, memory, marks>>

\* The slot and the provider are there; then get_long_term_memory in a
\* thread, before the try; the answer of the model; append_run, which leaves
\* the same way if it raises.
Admitted(c) == stage[c] = "slot" /\ Quietly /\ Goto(c, "begin")
Snapshot(c) == stage[c] = "snapshot" /\ Quietly /\ Goto(c, "open")
Replied(c) == stage[c] = "ask" /\ Quietly /\ Goto(c, "apply")
Logged(c) == stage[c] \in {"log", "emptylog"} /\ Quietly /\ Goto(c, Unwound(stage[c]))

\* _apply_audit_actions: best effort, its exceptions are swallowed.
Apply(c) ==
    /\ stage[c] = "apply"
    /\ heard' = [e \in Events |-> IF e \in slice[c] THEN heard[e] + 1 ELSE heard[e]]
    /\ UNCHANGED <<clock, others, state, started, slice, bounds, kept, late, gone, unsaved,
                   drained, reread, marks>>
    /\ Goto(c, "close")

\* !rem on and !rem off.
Switch ==
    /\ mode = "up" /\ enabled' = ~ enabled
    /\ UNCHANGED <<clock, born, ringVars, state, guard, lock, pass, stray, mode, bounds, memory,
                   marks>>

------------------------------------------------------------------------------
(* Stops, crashes and restarts. *)

\* A cancelled pass leaves where it waits, through the finally blocks there.
Fled(at) == IF at \in {"off", "outer"} THEN "off" ELSE Unwound(at)

\* The passes of cs are cancelled; the threads of their writes go on.
Cancel(cs) ==
    LET left == UNION {write[c] : c \in cs}
        free == lock \in cs \cup {Nobody}
        leaving == {c \in cs : Fled(stage[c]) = "outer"} IN
    /\ UNCHANGED <<clock, born, ring, disk, state, started, slice, enabled, memory, unsure,
                   undone>>
    /\ stage' = [c \in Callers |-> IF c \in cs THEN Fled(stage[c]) ELSE stage[c]]
    /\ write' = [c \in Callers |-> IF c \in cs THEN Handed(Fled(stage[c]), started[c], free)
                                   ELSE write[c]]
    /\ stray' = stray \cup left
    /\ guard' = \E c \in Callers : stage'[c] \notin {"off", "outer"}
    /\ lock' = IF ~ free THEN lock
               ELSE IF leaving = {} THEN Nobody ELSE CHOOSE c \in leaving : TRUE
    /\ redone' = (redone \/ \E c \in cs : Redo(c))
    /\ strayed' = (strayed \/ left # {})

\* main's finally: the scheduler loop is among the tasks it cancels.
Stop ==
    /\ mode = "up" /\ Trouble
    /\ mode' = "stopping"
    /\ UNCHANGED <<dirty, timer, saves>>
    /\ Cancel({Scheduler})

\* RemEventLog.flush, once the loop has ended: save whatever is there.
FlushRing ==
    /\ mode = "stopping" /\ stage[Scheduler] = "off"
    /\ mode' = "flushing" /\ timer' = FALSE /\ dirty' = FALSE
    /\ saves' = Append(saves, ring)
    /\ UNCHANGED <<clock, born, ring, disk, state, guard, lock, pass, stray, enabled, bounds,
                   memory, marks>>

\* main returns and asyncio.run cancels what is left: the commands.
EndLoop ==
    /\ mode = "flushing" /\ saves = << >>
    /\ mode' = "ending"
    /\ UNCHANGED <<dirty, timer, saves, bounds>>
    /\ Cancel(Callers)

\* The loop waits for its worker threads before the process ends.
Exit ==
    /\ mode = "ending" /\ saves = << >> /\ stray = {}
    /\ \A c \in Callers : stage[c] = "off"
    /\ mode' = "down" /\ timer' = FALSE
    /\ gone' = gone \cup (Members(ring) \ Members(disk))
    /\ UNCHANGED <<clock, born, ring, dirty, saves, disk, state, guard, lock, pass, stray,
                   enabled, bounds, heard, kept, late, unsaved, drained, reread, marks>>

\* A write that outlived its task lands, over whatever was written since.
StrayLands ==
    /\ \E file \in stray : state' = file /\ stray' = stray \ {file}
    /\ undone' = (undone \/ state'.mark < state.mark)
    /\ UNCHANGED <<clock, born, ringVars, guard, lock, pass, enabled, mode, bounds, memory,
                   redone, unsure, strayed>>

\* The process dies: a write in a thread has landed or it never will.
Crash ==
    /\ mode # "down" /\ Trouble
    /\ mode' = "down"
    /\ state' \in {state} \cup stray \cup UNION {write[c] : c \in Callers}
    /\ disk' \in {disk} \cup (IF saves = << >> THEN {} ELSE {Head(saves)})
    /\ stage' = [c \in Callers |-> "off"] /\ started' = [c \in Callers |-> 0]
    /\ slice' = [c \in Callers |-> {}] /\ write' = [c \in Callers |-> {}]
    /\ stray' = {} /\ saves' = << >> /\ guard' = FALSE /\ lock' = Nobody /\ timer' = FALSE
    /\ unsure' = TRUE /\ redone' = (redone \/ \E c \in Callers : Redo(c))
    /\ undone' = (undone \/ state'.mark < state.mark)
    /\ gone' = gone \cup (Members(ring) \ Members(disk'))
    /\ UNCHANGED <<clock, born, ring, dirty, enabled, heard, kept, late,
                   unsaved, drained, reread, strayed>>

\* load_from_disk, which starts with an empty ring if it cannot read the file;
\* the state file is read by the first pass.
Restart ==
    /\ mode = "down"
    /\ mode' = "up" /\ dirty' = FALSE
    /\ \/ ring' = disk /\ UNCHANGED bounds
       \/ ring' = << >> /\ Trouble
    /\ gone' = gone \cup (Members(disk) \ Members(ring'))
    /\ UNCHANGED <<clock, born, timer, saves, disk, state, guard, lock, pass, stray, enabled,
                   heard, kept, late, unsaved, drained, reread, marks>>

Step(c) ==
    \/ Locked(c) \/ Landed(c) \/ WriteFails(c) \/ Admitted(c) \/ Refused(c) \/ Drain(c)
    \/ Snapshot(c) \/ Replied(c) \/ Apply(c) \/ Logged(c)

RemNext ==
    \/ \E e \in Events : Said(e) \/ RecordUser(e) \/ RecordAssistant(e)
    \/ Debounced \/ SaveLands \/ SaveFails
    \/ \E c \in Callers : Start(c) \/ Step(c)
    \/ Switch \/ Stop \/ StrayLands \/ FlushRing \/ EndLoop \/ Exit \/ Crash \/ Restart

\* Threads end, slots come free, providers answer and the loop runs what is
\* ready; nobody has to speak, to start a pass or to switch REM off.
RemFairness ==
    /\ \A c \in Callers :
          /\ WF_remVars(Locked(c)) /\ WF_remVars(Landed(c)) /\ WF_remVars(Admitted(c))
          /\ WF_remVars(Drain(c)) /\ WF_remVars(Snapshot(c)) /\ WF_remVars(Replied(c))
          /\ WF_remVars(Apply(c)) /\ WF_remVars(Logged(c))
    /\ WF_remVars(Debounced) /\ WF_remVars(SaveLands) /\ WF_remVars(StrayLands)
    /\ WF_remVars(FlushRing) /\ WF_remVars(EndLoop) /\ WF_remVars(Exit) /\ WF_remVars(Restart)

RemSpec == RemInit /\ [][RemNext]_remVars /\ RemFairness

------------------------------------------------------------------------------
(* Properties. *)

\* No event is assimilated by two passes, whoever starts them, as long as no
\* pass that had its answer lost its watermark to a fault, a cancellation or a
\* crash, and no write of a cancelled pass took the watermark back: the guard,
\* the two locks and the watermark, together, make the slices disjoint.  The
\* events a pass drained because it could not read the watermark (rem.py:79-99,
\* 149-152) are apart, and only they: see ReadOnce.
HeardOnce ==
    ~ (redone \/ undone) => \A e \in Events : heard[e] <= 1 \/ e \in reread

\* The watermark passes an event by only if the event was recorded after a
\* pass had looked at the ring though it was said before (an old message
\* recovered or held up), or if the full ring, or a crash, lost it.
OnlyLateAreSkipped ==
    \A e \in kept : heard[e] = 0 /\ born[e] <= state.mark => e \in late \cup gone

\* The flag on disk, which !rem shows, tells what goes on: it is up while the
\* model is asked and down when no pass is left, across two passes of which
\* one still clears it while the next already sets it.
FlagTells ==
    ~ (unsure \/ strayed) =>
        /\ \A c \in Callers : stage[c] \in {"ask", "apply"} => state.running
        /\ (\A c \in Callers : stage[c] = "off") => ~ state.running

\* A pass always gives the guard back, whatever fails in it.
GuardReleased == guard ~> ~ guard

\* What was recorded reaches the file, unless the full ring pushed it out, a
\* write failed or the process went down before.
RecordedIsSaved ==
    \A e \in Events : e \in Members(ring) ~> e \in Members(disk) \cup gone \cup unsaved

\* "Use 'started' as watermark so events recorded during the run are not
\* lost": an event recorded while a pass runs is left for a later pass.
RecordedDuringAreLeft ==
    [][\A e \in Events, c \in Callers :
         e \notin kept /\ e \in kept' /\ stage[c] \in {"snapshot", "ask"}
            => born'[e] > started[c]]_remVars

\* "Always clear the running flag in finally (covers CancelledError,
\* exceptions, and any partial success path)": a stop without a fault leaves
\* the flag down.
CancelClears ==
    mode = "down" /\ ~ unsure => ~ state.running

\* Without an exception of HeardOnce each: a watermark that was written stays;
\* a pass never re-assimilates the ring because the file is unreadable
\* (rem.py:89-91).  Neither holds.
NeverTwice == ~ redone => \A e \in Events : heard[e] <= 1 \/ e \in reread
ReadOnce == ~ (redone \/ undone) => \A e \in Events : heard[e] <= 1
=============================================================================
