--------------------------- MODULE BackgroundJobs ---------------------------
(***************************************************************************)
(* The detached jobs of jobs.py: BackgroundJobManager with its file, its   *)
(* table of worker tasks and its two limits, and run_background_job, the   *)
(* worker of each job. A worker is at one of its awaits at a time; the     *)
(* code between two awaits is one step. A cancellation that was requested  *)
(* is thrown at the await where the worker is, and where that is decides   *)
(* what the worker still does. Jobs are numbered in the order they are     *)
(* created, by the spawn_background tool or by the !bg command.            *)
(***************************************************************************)
EXTENDS Integers, FiniteSets

CONSTANTS
    Jobs,         \* the jobs, 1..n
    Users,
    OwnerOf,      \* the user a job works for
    MaxJobs,      \* 2 by default
    MaxPerUser,   \* 1 by default
    Kept,         \* jobs load() keeps, 50
    Shown,        \* the jobs of servers with progress messages (!progress on)
    MaxRestarts   \* bound

ASSUME JobsAssumption == Jobs \subseteq Nat \ {0} /\ IsFiniteSet(Jobs)
ASSUME OwnersAssumption == OwnerOf \in [Jobs -> Users] /\ Shown \subseteq Jobs
ASSUME LimitsAssumption == {MaxJobs, MaxPerUser, Kept} \subseteq Nat \ {0}
ASSUME RestartsAssumption == MaxRestarts \in Nat

VARIABLES
    made,       \* jobs created so far
    status,     \* BackgroundJob.status, "none" when the manager has no such job
    worker,     \* the await each worker task is at
    pending,    \* workers a cancellation was requested of, and not yet thrown at
    tracked,    \* BackgroundJobManager._tasks
    answered,   \* workers whose model has answered (succeeded)
    trouble,    \* workers with a failed dispatch or an unresolved tool error
    deaf,       \* workers that were told to stop and never learnt of it
    manager,    \* open, closing (close() awaits the workers) or closed
    draining,   \* the tasks close() awaits
    restarts,
    delivered   \* history: jobs whose result reached the origin channel

rounds == <<answered, trouble, deaf>>
closing == <<manager, draining, restarts>>
vars == <<made, status, worker, pending, tracked, rounds, closing, delivered>>
-----------------------------------------------------------------------------
ActiveStatuses == {"queued", "running"}
FinalStatuses == {"done", "error", "cancelled"}
Statuses == {"none"} \cup ActiveStatuses \cup FinalStatuses

\* ready: the task was created and has not run. opening: creating the progress
\* thread and posting there. model: the slot and the generation of a round;
\* tools: its tool calls. refused: _fail() of a first round without a slot,
\* still inside the loop's try. notice: the handler of the cancellation posts.
\* delivering: the chunks of the result. reporting: the last post, of a failure
\* or of the end. ended: the task is done and its callback has not run.
Looping == {"model", "tools"}
InTry == Looping \cup {"refused"}
Awaits == {"ready", "opening", "notice", "delivering", "reporting"} \cup InTry

Active == { j \in Jobs : status[j] \in ActiveStatuses }
ActiveOf(u) == { j \in Active : OwnerOf[j] = u }
Alive == { j \in Jobs : worker[j] \in Awaits }
Runnable(j) == j \in Alive \ pending

Init ==
    /\ made = 0
    /\ status = [j \in Jobs |-> "none"]
    /\ worker = [j \in Jobs |-> "none"]
    /\ pending = {} /\ tracked = {} /\ answered = {} /\ trouble = {} /\ deaf = {}
    /\ manager = "open" /\ draining = {} /\ restarts = 0
    /\ delivered = {}

\* mark() and create() write the file at once: it holds the statuses.
Mark(j, s) == status' = [status EXCEPT ![j] = s]
At(j, await) == worker' = [worker EXCEPT ![j] = await]
-----------------------------------------------------------------------------
(* Plausible wrong forms of the definitions below or above.                *)
\* cancel() that marks the job and forgets its task.
MarksOnly(j) == /\ j \in Active /\ Mark(j, "cancelled")
                /\ UNCHANGED <<made, worker, pending, tracked, rounds, closing, delivered>>
\* load() that takes the file at its word.
LoadedAsIs(j) == status[j]
\* A delivery that fails and is not recorded.
KeepsDone(j) == /\ Runnable(j) /\ worker[j] = "delivering" /\ At(j, "reporting")
                /\ UNCHANGED <<made, status, pending, tracked, rounds, closing, delivered>>
-----------------------------------------------------------------------------
(* create(), the start of the task and track_task: no await in between.    *)
HasRoom(j) == /\ Cardinality(ActiveOf(OwnerOf[j])) < MaxPerUser
              /\ Cardinality(Active) < MaxJobs

Create(j) ==
    /\ j = made + 1 /\ HasRoom(j)
    /\ made' = j
    /\ Mark(j, "queued") /\ At(j, "ready")
    /\ tracked' = tracked \cup {j}
    /\ UNCHANGED <<pending, rounds, closing, delivered>>
-----------------------------------------------------------------------------
(* run_background_job.                                                     *)
WorkerStep(j, from, to) ==
    /\ Runnable(j) /\ worker[j] = from /\ At(j, to)
    /\ UNCHANGED <<made, pending, tracked, closing>>

Starts(j) == /\ WorkerStep(j, "ready", "opening")
             /\ Mark(j, "running")
             /\ UNCHANGED <<rounds, delivered>>

\* With a thread or without one, the work goes on.
Opened(j) == /\ WorkerStep(j, "opening", "model")
             /\ UNCHANGED <<status, rounds, delivered>>

\* The loop is left: _fail() marks the job and then tells the requester, or the
\* job is marked done and then delivered.
LeavesLoop(j) == /\ answered' = answered \ {j} /\ trouble' = trouble \ {j}
                 /\ deaf' = deaf

Fails(j, from) == /\ WorkerStep(j, from, "reporting")
                  /\ Mark(j, "error") /\ LeavesLoop(j)
                  /\ UNCHANGED delivered

Finishes(j, from) == /\ WorkerStep(j, from, "delivering")
                     /\ Mark(j, "done") /\ LeavesLoop(j)
                     /\ UNCHANGED delivered

Generated(j) == /\ WorkerStep(j, "model", "tools")
                /\ answered' = answered \cup {j}
                /\ UNCHANGED <<status, trouble, deaf, delivered>>

\* A round of tool calls is over and another begins, with or without a failed
\* dispatch or an error among the results. Masking and compaction are part of
\* the round.
RoundEnds(j) == /\ WorkerStep(j, "tools", "model")
                /\ trouble' \in {trouble \cup {j}, trouble \ {j}}
                /\ UNCHANGED <<status, answered, deaf, delivered>>

\* The model called no tool, or only tools that end a turn, without an error.
AnswersFinally(j) == Finishes(j, "tools")

\* The step limit or the time budget ends the loop.
OutOfSteps(j) == IF j \in answered \ trouble
                 THEN Finishes(j, "model")
                 ELSE Fails(j, "model")

\* The first round gets no slot.
SlotRefused(j) == /\ WorkerStep(j, "model", "refused")
                  /\ j \notin answered /\ Mark(j, "error") /\ LeavesLoop(j)
                  /\ UNCHANGED delivered

\* No slot later on, a failed generation, an unreadable answer, a failed final dispatch
\* or compaction, or the deadline of the foreground turn.
LoopFails(j) == \E from \in Looping : Fails(j, from)

Delivers(j) == /\ WorkerStep(j, "delivering", "reporting")
               /\ delivered' = delivered \cup {j}
               /\ UNCHANGED <<status, rounds>>
DeliveryFails(j) == Fails(j, "delivering")

Returns(j) == /\ \E from \in {"refused", "reporting", "notice"} : WorkerStep(j, from, "ended")
              /\ UNCHANGED <<status, rounds, delivered>>

\* CancelledError at the await where the worker is. Only the try of the tool
\* loop handles it: it marks the job and posts a notice.
CancelArrives(j) ==
    /\ j \in pending \cap Alive
    /\ pending' = pending \ {j}
    /\ IF worker[j] \in InTry
       THEN At(j, "notice") /\ Mark(j, "cancelled") /\ LeavesLoop(j)
       ELSE At(j, "ended") /\ UNCHANGED <<status, rounds>>
    /\ UNCHANGED <<made, tracked, closing, delivered>>

\* Before the tools of a round run, their progress message is started, and its
\* handler of CancelledError, written for its own task, takes the cancellation
\* of the worker that awaits it (tool_progress.py:227): the job goes on.
CancelTaken(j) ==
    /\ j \in pending \cap Alive \cap Shown
    /\ worker[j] = "tools"
    /\ pending' = pending \ {j}
    /\ deaf' = deaf \cup {j}
    /\ UNCHANGED <<made, status, worker, tracked, answered, trouble, closing,
                   delivered>>

\* The done callback of track_task.
Forgotten(j) ==
    /\ worker[j] = "ended" /\ At(j, "none")
    /\ tracked' = tracked \ {j}
    /\ UNCHANGED <<made, status, pending, rounds, closing, delivered>>

Work(j) == \/ Starts(j) \/ Opened(j) \/ Generated(j)
           \/ RoundEnds(j) \/ AnswersFinally(j) \/ OutOfSteps(j) \/ SlotRefused(j) \/ LoopFails(j)
           \/ Delivers(j) \/ DeliveryFails(j) \/ Returns(j)
           \/ CancelArrives(j) \/ CancelTaken(j) \/ Forgotten(j)
-----------------------------------------------------------------------------
(* cancel(), for the owner or an admin: "!stop job", "!job cancel".        *)
Cancel(j) ==
    /\ j \in Active
    /\ pending' = pending \cup ({j} \cap tracked \cap Alive)
    /\ Mark(j, "cancelled")
    /\ UNCHANGED <<made, worker, tracked, rounds, closing, delivered>>

(* close(): cancel what runs, mark what is active, await what was running. *)
CloseBegins ==
    /\ manager = "open"
    /\ manager' = "closing" /\ draining' = tracked
    /\ pending' = pending \cup (tracked \cap Alive)
    /\ status' = [j \in Jobs |-> IF j \in Active THEN "cancelled" ELSE status[j]]
    /\ UNCHANGED <<made, worker, tracked, rounds, restarts, delivered>>

Drained == draining \cap Alive = {}

CloseEnds ==
    /\ manager = "closing" /\ Drained
    /\ manager' = "closed" /\ draining' = {} /\ tracked' = {}
    /\ UNCHANGED <<made, status, worker, pending, rounds, restarts, delivered>>

(* The process ends, after close() or not, and another loads the file.     *)
Known == { j \in Jobs : status[j] # "none" }
Loaded(j) == IF Cardinality({ k \in Known : k > j }) >= Kept THEN "none"
             ELSE IF j \in Active THEN "cancelled" ELSE status[j]

Restart ==
    /\ restarts < MaxRestarts
    /\ restarts' = restarts + 1
    /\ status' = [j \in Jobs |-> Loaded(j)]
    /\ worker' = [j \in Jobs |-> "none"]
    /\ pending' = {} /\ tracked' = {} /\ answered' = {} /\ trouble' = {}
    /\ deaf' = {}
    /\ manager' = "open" /\ draining' = {}
    /\ UNCHANGED <<made, delivered>>
-----------------------------------------------------------------------------
Next == \/ \E j \in Jobs : Create(j) \/ Work(j) \/ Cancel(j)
        \/ CloseBegins \/ CloseEnds \/ Restart

Spec == Init /\ [][Next]_vars
-----------------------------------------------------------------------------
\* The type of every variable.
TypeOK ==
    /\ made \in {0} \cup Jobs
    /\ status \in [Jobs -> Statuses]
    /\ worker \in [Jobs -> Awaits \cup {"none", "ended"}]
    /\ pending \subseteq Alive /\ tracked \subseteq Jobs
    /\ answered \subseteq Jobs /\ trouble \subseteq Jobs /\ deaf \subseteq Jobs
    /\ delivered \subseteq Jobs
    /\ manager \in {"open", "closing", "closed"} /\ draining \subseteq Jobs
    /\ restarts \in 0..MaxRestarts

\* Until close() has returned, whatever is cancelled, delivered or closed in
\* whatever order:

\* - a job that counts against the limits has a worker that will end it, within
\*   reach of cancel() and close(); a job without one would refuse its owner
\*   every other job until a restart (active_count, track_task);
Working(j) == Runnable(j) /\ worker[j] \in {"ready", "opening"} \cup Looping
ActiveIsWorked ==
    manager # "closed" => \A j \in Active : Working(j) /\ j \in tracked

\* - and the other way round, no more workers are at the provider than the
\*   limits allow, for all users and for each, apart from those a cancellation
\*   never reached (create, cancel).
LimitsHold ==
    manager # "closed" =>
        LET busy == { j \in Jobs : Working(j) } \ deaf
        IN  /\ Cardinality(busy) <= MaxJobs
            /\ \A u \in Users :
                  Cardinality({ j \in busy : OwnerOf[j] = u }) <= MaxPerUser

\* - a job that ended stays as it ended, a failed delivery apart, and a refused
\*   job whose report close() cuts short: no worker a cancellation reached
\*   reports success, or an end of its own, later (cancel, run_background_job).
EndKept(j) ==
    /\ status[j] = "cancelled" => status'[j] = "cancelled"
    /\ status[j] = "error" =>
          \/ status'[j] = "error"
          \/ worker[j] = "refused" /\ manager = "closing" /\ status'[j] = "cancelled"
    /\ status[j] = "done" => status'[j] \in {"done", "error"}

EndIsFinal ==
    [][ manager # "closed" /\ restarts' = restarts =>
          \A j \in Jobs \ deaf : EndKept(j) ]_vars

\* A job that is done and whose worker is gone was delivered, unless shutdown or
\* the end of the process cut the delivery short.
Undelivered == { j \in Jobs : status[j] = "done" /\ worker[j] = "none" } \ delivered
DoneIsDelivered == manager = "open" /\ restarts = 0 => Undelivered = {}

\* Whoever cancels a job is told "job ... cancelled" (jobs.py:602): it never
\* comes back as done.
CancelledStaysCancelled ==
    [][ manager = "open" /\ restarts' = restarts =>
          \A j \in Jobs : status[j] = "cancelled" => status'[j] # "done" ]_vars
=============================================================================
