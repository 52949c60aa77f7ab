------------------------------ MODULE Plugins ------------------------------
(* The plugin manager: generations of plugins that a reload replaces in one *)
(* step, while jobs and event callbacks of earlier generations are still on *)
(* their way; who may use a plugin; and the teardown at shutdown.           *)
EXTENDS Integers, FiniteSets

CONSTANTS Names,      \* plugin directories; each has one job and one listener
          People,
          Limit,      \* how many people one list of a plugin may name (500)
          MaxGen      \* bound: generations loaded

Gens == 1..MaxGen
Jobs == Names \X Gens
PluginsAssumption == Limit \in Nat /\ MaxGen \in Nat \ {0} /\ IsFiniteSet(People)
ASSUME PluginsAssumption

VARIABLES gen,        \* the generation load_plugins made last
          loaded,     \* loaded_plugins: the generation of each, 0 if it failed
          listening,  \* _listeners: the generation that hears an event, or 0
          specs,      \* _job_specs, likewise
          tracked,    \* _job_tasks
          job,        \* what the task of a job is doing
          cancelled,  \* tasks with a cancellation not yet thrown
          callbacks,  \* event callbacks: created, or running
          global, allowed, denied,  \* state["plugins"]
          mode,       \* teardown
          awaited,    \* tasks stop_jobs waits for
          choice,     \* history: what a person last asked for, with success
          deaf        \* history: jobs whose callback swallowed a cancellation

registry == <<gen, loaded, listening, specs>>
tasks == <<tracked, job, cancelled>>
scope == <<global, allowed, denied>>
vars == <<registry, tasks, callbacks, scope, mode, awaited, choice, deaf>>

Alive == {"sleeping", "running", "unwinding"}

(* What registers during setup; a plugin that fails half way is dropped     *)
(* again.                                                                   *)
Registered(failing, g) == [p \in Names |-> IF p \in failing THEN 0 ELSE g]

(* A task for each registered job, started by start_jobs.                   *)
Started(of) == {<<p, of[p]>> : p \in {q \in Names : of[q] # 0}}

Init == \E failing \in SUBSET Names :
    /\ gen = 1 /\ loaded = [p \in Names |-> IF p \in failing THEN 0 ELSE 1]
    /\ listening = Registered(failing, 1) /\ specs = Registered(failing, 1)
    /\ tracked = Started(specs) /\ cancelled = {} /\ callbacks = {}
    /\ job = [j \in Jobs |-> IF j \in tracked THEN "sleeping" ELSE "none"]
    /\ global \in SUBSET Names
    /\ allowed = [p \in Names |-> {}] /\ denied = allowed
    /\ mode = "up" /\ awaited = {} /\ deaf = {}
    /\ choice = [u \in People |-> [p \in Names |-> "none"]]

-----------------------------------------------------------------------------
(* is_plugin_enabled_for_user, enable_plugin and disable_plugin.            *)

Enabled(p, u) == u \notin denied[p] /\ (p \in global \/ u \in allowed[p])

Enable(p, u) ==
    /\ loaded[p] # 0
    /\ u \in allowed[p] \/ Cardinality(allowed[p]) < Limit
    /\ denied' = [denied EXCEPT ![p] = @ \ {u}]
    /\ allowed' = [allowed EXCEPT ![p] = @ \cup {u}]
    /\ choice' = [choice EXCEPT ![u][p] = "in"]
    /\ UNCHANGED <<registry, tasks, callbacks, global, mode, awaited, deaf>>

(* Who opts out of a plugin that everybody has is written down; a plausible *)
(* wrong form only takes the person off the list of those who asked for it. *)
OnlyRemoved(p, u) == denied[p]
OptedOut(p, u) == IF p \in global /\ Cardinality(denied[p]) < Limit
                  THEN denied[p] \cup {u} ELSE denied[p]
Disable(p, u) ==
    /\ loaded[p] # 0
    /\ allowed' = [allowed EXCEPT ![p] = @ \ {u}]
    /\ denied' = [denied EXCEPT ![p] = OptedOut(p, u)]
    /\ choice' = [choice EXCEPT ![u][p] =
          IF p \in global /\ Cardinality(denied[p] \cup {u}) <= Limit THEN "out" ELSE "none"]
    /\ UNCHANGED <<registry, tasks, callbacks, global, mode, awaited, deaf>>

ForEverybody(p) ==
    /\ loaded[p] # 0
    /\ global' = IF p \in global THEN global \ {p} ELSE global \cup {p}
    /\ UNCHANGED <<registry, tasks, callbacks, allowed, denied, mode, awaited, choice, deaf>>

-----------------------------------------------------------------------------
(* Jobs and callbacks.                                                      *)

(* _run_job: the sleep is over, the callback runs, and again. A new task is *)
(* behind the cancellations of the reload that made it in the event loop.   *)
JobRuns(j) == /\ job[j] = "sleeping" /\ j \notin cancelled
              /\ \A i \in cancelled : i[2] >= j[2]
              /\ job' = [job EXCEPT ![j] = "running"]
              /\ UNCHANGED <<registry, tracked, cancelled, callbacks, scope, mode, awaited, choice, deaf>>
JobSleeps(j) == /\ job[j] = "running" /\ j \notin cancelled
                /\ job' = [job EXCEPT ![j] = "sleeping"]
                /\ UNCHANGED <<registry, tracked, cancelled, callbacks, scope, mode, awaited, choice, deaf>>

(* A cancellation ends a sleeping job; a running callback first unwinds,    *)
(* and what it awaits on the way takes time.                                *)
Thrown(j) == /\ j \in cancelled /\ cancelled' = cancelled \ {j}
             /\ job' = [job EXCEPT ![j] = IF @ = "sleeping" THEN "done" ELSE "unwinding"]
             /\ UNCHANGED <<registry, tracked, callbacks, scope, mode, awaited, choice, deaf>>
Unwound(j) == /\ job[j] = "unwinding"
              /\ job' = [job EXCEPT ![j] = "done"]
              /\ UNCHANGED <<registry, tracked, cancelled, callbacks, scope, mode, awaited, choice, deaf>>
Swallows(j) == /\ job[j] = "unwinding" /\ deaf' = deaf \cup {j}
               /\ job' = [job EXCEPT ![j] = "sleeping"]
               /\ UNCHANGED <<registry, tracked, cancelled, callbacks, scope, mode, awaited, choice>>

(* dispatch_event looks at the listeners and at the person it is about; the *)
(* callbacks it gathers start a moment later.                               *)
Dispatch(u) ==
    /\ callbacks' = callbacks \cup
          {[at |-> "created", by |-> p, gen |-> listening[p]] :
              p \in {q \in Names : listening[q] # 0 /\ Enabled(q, u)}}
    /\ callbacks' # callbacks
    /\ UNCHANGED <<registry, tasks, scope, mode, awaited, choice, deaf>>
CallbackStarts(c) ==
    /\ c \in callbacks /\ c.at = "created"
    /\ callbacks' = (callbacks \ {c}) \cup {[c EXCEPT !.at = "running"]}
    /\ UNCHANGED <<registry, tasks, scope, mode, awaited, choice, deaf>>
CallbackEnds(c) ==
    /\ c \in callbacks /\ c.at = "running"
    /\ callbacks' = callbacks \ {c}
    /\ UNCHANGED <<registry, tasks, scope, mode, awaited, choice, deaf>>

-----------------------------------------------------------------------------
(* reload_plugins, without an await from its beginning to its end.          *)

(* It cancels what is tracked. A plausible wrong form relies on             *)
(* load_plugins, which does not know the tasks.                             *)
NoneCancelled == {}
Stopped == {j \in tracked : job[j] \in Alive}

Reload(failing) ==
    /\ gen < MaxGen /\ gen' = gen + 1
    /\ loaded' = [p \in Names |-> IF p \in failing THEN 0 ELSE gen']
    /\ listening' = Registered(failing, gen') /\ specs' = Registered(failing, gen')
    /\ cancelled' = cancelled \cup Stopped
    /\ tracked' = Started(specs')
    /\ job' = [j \in Jobs |-> IF j \in tracked' THEN "sleeping" ELSE job[j]]
    /\ UNCHANGED <<callbacks, scope, mode, awaited, choice, deaf>>

(* teardown: stop_jobs cancels and awaits every job, the hooks run, and the *)
(* registrations are gone.                                                  *)
Teardown ==
    /\ mode = "up" /\ mode' = "stopping"
    /\ awaited' = tracked /\ tracked' = {}
    /\ cancelled' = cancelled \cup Stopped
    /\ UNCHANGED <<registry, job, callbacks, scope, choice, deaf>>
AllEnded == \A j \in awaited : job[j] = "done"
JobsStopped ==
    /\ mode = "stopping" /\ AllEnded /\ mode' = "hooks"
    /\ UNCHANGED <<registry, tasks, callbacks, scope, awaited, choice, deaf>>
HooksDone ==
    /\ mode = "hooks" /\ mode' = "down"
    /\ listening' = [p \in Names |-> 0] /\ specs' = [p \in Names |-> 0]
    /\ UNCHANGED <<gen, loaded, tasks, callbacks, scope, awaited, choice, deaf>>

JobStep(j) == JobRuns(j) \/ JobSleeps(j) \/ Thrown(j) \/ Unwound(j) \/ Swallows(j)
Next ==
    \/ \E p \in Names : ForEverybody(p) \/ (\E u \in People : Enable(p, u) \/ Disable(p, u))
    \/ \E j \in Jobs : JobStep(j)
    \/ \E u \in People : Dispatch(u)
    \/ \E c \in callbacks : CallbackStarts(c) \/ CallbackEnds(c)
    \/ \E failing \in SUBSET Names : mode # "down" /\ Reload(failing)
    \/ Teardown \/ JobsStopped \/ HooksDone

(* The event loop throws what is to be thrown, and plugin code that was     *)
(* cancelled comes to its end.                                              *)
Fairness == /\ \A j \in Jobs : WF_vars(Thrown(j)) /\ WF_vars(Unwound(j))
            /\ WF_vars(JobsStopped) /\ WF_vars(HooksDone)
Spec == Init /\ [][Next]_vars /\ Fairness

-----------------------------------------------------------------------------
TypeOK ==
    /\ gen \in Gens /\ loaded \in [Names -> 0..MaxGen]
    /\ listening \in [Names -> 0..MaxGen] /\ specs \in [Names -> 0..MaxGen]
    /\ tracked \subseteq Jobs /\ cancelled \subseteq Jobs /\ awaited \subseteq Jobs
    /\ job \in [Jobs -> Alive \cup {"none", "done"}]
    /\ callbacks \subseteq [at : {"created", "running"}, by : Names, gen : Gens]
    /\ global \subseteq Names /\ allowed \in [Names -> SUBSET People]
    /\ denied \in [Names -> SUBSET People]
    /\ mode \in {"up", "stopping", "hooks", "down"} /\ deaf \subseteq Jobs
    /\ choice \in [People -> [Names -> {"none", "in", "out"}]]

(* A job that nobody has cancelled is one the manager knows, of a plugin    *)
(* that did load in the generation of now: however reloads, plugins that    *)
(* fail half way and the teardown follow each other, none goes on unseen,   *)
(* unless its own code swallowed a cancellation (plugin_manager.py:656-670  *)
(* and 500-508).                                                            *)
Going(j) == job[j] \in {"sleeping", "running"} /\ j \notin cancelled
NoneGoesOnUnseen ==
    \A j \in Jobs : Going(j) /\ j \notin deaf =>
        j \in tracked /\ loaded[j[1]] = j[2] /\ j[2] = gen

(* What a person asked for stands against everything others and reloads do: *)
(* who asked for a plugin has it, also when it is taken from everybody, and *)
(* who opted out of one that everybody had does not get it back             *)
(* (plugin_manager.py:706-836).                                             *)
ChoiceStands ==
    \A u \in People, p \in Names : /\ choice[u][p] = "in" => Enabled(p, u)
                                   /\ choice[u][p] = "out" => ~Enabled(p, u)

(* The teardown ends, unless a job it waits for swallows the cancellation:  *)
(* shutdown waits for it without a limit, also while a reload runs beside   *)
(* it (plugin_manager.py:438-470, bot.py:15832).                            *)
TeardownEnds ==
    mode = "stopping" ~> \/ mode = "down"
                         \/ \E j \in awaited \cap deaf : job[j] # "done"

(* Claimed by plugin_manager.py:394-395: a reload cannot end up with two    *)
(* copies of the same job.                                                  *)
OneCopy ==
    \A p \in Names : \A g, h \in Gens :
        job[<<p, g>>] \in {"running", "unwinding"} /\ job[<<p, h>>] \in {"running", "unwinding"}
            => g = h
=============================================================================
