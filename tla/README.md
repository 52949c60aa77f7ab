# TLA+ models of Dame Curie

Dame Curie is a Discord bot: one asyncio process (`bot.py` and the modules beside it) that
answers people in many rooms through a small pool of model slots, runs detached jobs and
autonomous work beside the conversation, and survives reconnects and restarts; and a second
process, `scripts/publisher`, that mirrors the sites the model writes to a remote host.
This directory models the parts of it whose correctness depends on *order*: what happens between
two awaits, between two processes, around a crash or a timeout. The code is small there, its
comments promise much, and its tests can hardly reach the interleavings.

Contents: [inventory](#inventory), [plan](#plan), [modules](#modules-and-how-they-follow-the-code),
[runs](#runs-bounds-and-results), [disagreements](#where-the-code-and-its-documentation-disagree),
[fairness](#fairness), [proofs](#proofs), [limits](#what-is-not-modelled-or-not-proved).

## Inventory

| component | state | operations | talks to | hard behaviour | correct when |
| --- | --- | --- | --- | --- | --- |
| **FairSemaphore** (`concurrency_safety.py:134-300`, `bot.py:3607-3638`) | holders, waiters with priority, room and sequence, when each room was last served, capacity | acquire with timeout, release, set_capacity | every model call | wake-ups, timeouts and cancellations while others wait, resizes | counters exact, no lost wake-up, one slot out of reach of background work, rooms take turns |
| **ReplyQueue** (`message_pipeline.py:89-409`) | per room a line of at most `max_directed` entries, one soft; the pump task; the running turn | submit, pump, cancel_channel, cancel_message, close | on_message, `!stop`, edits, smoke runtime, shutdown | a pump that ends beside a submission, a turn cancelled from outside, close beside both | one turn per room, nobody stranded, every live turn reachable, eviction fair, close quiet |
| **Gateway recovery** (`message_pipeline.py:40-86, 412-491`, `bot.py:3717-3880, 4809-4850`) | window of recent ids, watermark per room, its file, recovery tasks | check_and_add, note, save, load, replay | Discord gateway and history, disk | resumed, repeated and missed messages, two recoveries, a thread that saves, crash | nothing answered twice within the window, no watermark claims the unread, what is lost is known |
| **Background jobs** (`jobs.py`) | records with a status and their file, worker tasks | create, mark, cancel, close, load, worker | model slots, Discord, disk | cancel at any await, shutdown, restart, failed delivery | active job has a worker, limits bound workers, ends are final, done means delivered |
| **Publisher** (`scripts/publisher`) | inotify queue, dirty and background sites, caches of snapshots, ownership.json, remote directories and markers | observe, reconcile a site, inventory, claim, remove, sync | inotify, SSH and rsync, a guard on the remote host | lost replies, late requests, edits during scans, overflow, crash, others on the remote host | cache never wrong, no edit missed, own directories tracked, removals asked for only of what is gone, mirror converges |
| **Room intake** (`bot.py:2566-2660, 3369-3605, 4809-5210, 5500-5530, 11339-11420`) | where `on_message` has a message, lock and debounce bucket of a room, marks of its turn, rooms told to stop | receive, interrupt, store, hand on, flush, turn, `!stop` | line of the room, memory | same-author interrupts, a memory write that hangs, timers, `!stop` beside all of them | one answer per message, talk never queues behind work, stopped stays stopped, a question is handed on |
| **Message edits** (`bot.py:4491-4810`) | fingerprint, snapshot and row of a message, handlers of its updates, the notice of the turn | register, fetch, store, download, hand over; refresh of a prompt | Discord, memory, bucket, turn | updates overtake one another's downloads, two kinds of message objects | the newest text wins, no notice is lost |
| **Tool progress message** (`tool_progress.py`, `bot.py:11860-11930, 13560-13700`) | one post, its tasks, what Discord still has to carry out | start, tick, update, flush, stop, change into the answer | Discord, turn | four tasks edit one post; a cancelled task leaves its request behind | the answer stands, no placeholder is left |
| **Insides of a turn** (`bot.py:11339-12790`) | prompt, rounds, chunks of the reply | build, ask, run tools, deliver | providers, tools | one coroutine, its order with others is in the parts above | - |
| **Provider reload** (`provider_reload.py`, `bot.py:1700-1900`) | pending settings, current, retired and closed providers, who holds one | poll, apply, fetch, retire, close | turns, jobs, ticks, single requests | idle check before an await, holders between two requests, half-written files | no client closed in use, one provider per round, none leaked, an edit arrives |
| **Inbox** (`inbox.py`, `bot.py:3880-3930`) | JSON ring of items and its lock, the list of shown notices of the whole bot | upsert, get, mark, ingest an event, seed, add a notice, act; show in a prompt, mark as announced | Discord relationships, tool calls, turns | read, release the lock, write; a thread that outlives its task; one list for all rooms | an untouched request is shown, a dismissed one stays so, a delivered notice is not repeated |
| **REM** (`rem.py`, `rag_memory.py:600-790`, `bot.py:7890-8300, 15839-15915`) | ring of events and its debounced file, state file with watermark and flag, the guard | record, save, one pass, `!rem`, stop, restart | slots, provider, disk threads | two stores for one file, cancellation at any await, crash between two writes | no event assimilated twice or passed by, the flag tells the truth |
| **Autonomy** (`autonomy.py`, `autonomy_social.py`, `bot.py`) | schedules, plans, command queue | tick, plan, act | slots, rooms, memory | overlap with the conversation, restart inside a plan | one tick at a time, no act twice |
| **Plugin manager** (`plugin_manager.py`, `plugins/`) | generations of modules, listeners, job tasks, who may use what | load, reload, teardown, dispatch, enable, disable | bot events, shutdown | reload beside running jobs and teardown, plugins that fail half way or swallow a cancellation | no job goes on unseen, a person's choice stands, the teardown ends |
| **Providers** (`providers.py`, `turn_budget.py`, `context_budget.py`) | clients, attempt budget and deadline of a turn | generate, stream, retry | HTTP | stream dies half way, budget shared by tasks | budget and deadline kept |
| **Memory** (`rag_memory.py`, `knowledge_graph.py`, `rag_maintenance.py`) | SQLite, index, graph | add, search, prune, rebuild | embeddings | threads, half-built index | recall finds what was stored |
| **Tools** (`bot_tools.py`, `tool_*.py`) | what a call keeps | one handler per tool | Discord, disk | little: one call after the other | - |
| **Voice** (`voice_live.py`, `bot.py`) | buffers per speaker | write, flush, process | audio threads | thread against loop | no utterance lost or doubled |
| **Smoke runtime, log console, onboarding, error reporting, games, tools of the operator** | files of their own | one-shot | disk | little | - |

How the modelled parts meet: a message passes the dedup window and raises its watermark
(GatewayRecovery), is stored under the lock of its room and handed to the bucket or the line
(RoomIntake); updates of it follow it there (MessageEdits); the line runs its turn (ReplyQueue, of
which RoomIntake takes the promise ReplyLine), which tries to reload the settings, takes a slot and
asks the main provider (FairSemaphore, ProviderReload), shows its progress and changes that post into
the answer (ToolProgress); a turn may start a background job, whose worker takes slots of its own at
background priority (BackgroundJobs); shutdown closes the jobs, the line and saves the watermarks.
The publisher shares only the directory of sites with the bot.

## Plan

1. *Done:* `FairSemaphore` with the promise `SlotPool`; `ReplyQueue` with the promise `ReplyLine`;
   `GatewayRecovery`; `BackgroundJobs`; `Publisher`. Proofs of the first four.
2. *Done:* the way of a message to its answer in three modules instead of one, since they share only
   a few marks: `RoomIntake`, which composes the promise `ReplyLine`; `MessageEdits`; `ToolProgress`.
   `ProviderReload`, with everybody who holds a provider.
   Proofs of `RoomIntake`, `MessageEdits` and `ProviderReload`.
3. *Done:* `Inbox`, `Plugins` and `Rem`, each with the interleavings that matter. Proofs of `Plugins`.
4. *Done:* proofs of `ToolProgress`, `Publisher`, `Inbox` and `Rem`, and of what the gateway loses, the rotation of
   rooms, who is evicted and the delivery of jobs. Every safety property of a run is a theorem now.
5. *Next:* the retries of `Providers` under the budget of a turn, the command queue of `Autonomy`, and the rebuild of an
   index in `rag_memory.py`, in this order.

Runs keep to two or three actors per kind, enough for one overtaking another and a third
noticing. A proof module may hold two components that know nothing of each other: `JobsAndPublisherProofs`,
`SlotsAndProgressProofs`, `InboxAndPluginsProofs`, `EditsAndRemProofs`. One run per component asks all its questions at once, so that its bounds are those of the hardest of them.

## Modules and how they follow the code

A step of a model is what the code does between two points where others may run: two awaits that
really suspend for the asyncio parts, single statements against a thread, single requests against
a remote host. `PROJECT.json` maps every definition to the lines it stands for.

**SlotPool** is the promise of admission control: holders never exceed the capacity of the moment
they entered, background work leaves a slot, resizes revoke nothing. **FairSemaphore** is
`acquire`, `release` and `set_capacity`. `waiting` is `_waiters` with the arrival order, `awake`
the calls a `notify_all` will resume, `lastServed` the bounded table of rooms. `Acquire` is the entry
until the first suspension, `Recheck` one iteration of the loop, `GiveUp` timeout and cancellation
with the `finally`. Under Python 3.14 `asyncio.wait_for` runs its coroutine in the caller's task, so the
only suspension is `Condition.wait` and every critical section is atomic. Callers release in a
`finally` (`bot.py:12040-12057`). **FairSemaphoreTurns** adds the history the rotation property needs.

**ReplyLine** is the promise of the queue: per room a line and at most one turn, the head is
served, somebody may be replaced, removed or evicted. **ReplyQueue** is the class: `Submit` with
expiry, refresh in place, coalescing of soft entries and eviction; `PumpRuns` from the pump's wake-up to
its next await, with `state.running` and `state.pump` set and cleared where the code does; cancellation
thrown at the await where the pump is; `close` as the loop over rooms it is, awaiting one room while
others run on. Time is the action `GrowOld`, which lets an entry exceed `max_age` at any moment: a
superset of what a clock does. The burst stored with an entry is never handed to the turn and is left
out. A cancelled pump whose turn is still running (`message_pipeline.py:327-331`) cannot be
reached: close cancels a pump only when its turn is done.

**GatewayRecovery** models Discord as the set of messages posted, numbered in order, and the events of
the session still on the wire; `Drop`, `Resume` (which replays before RESUMED) and a new session. `OnMessage`
is the prologue: dedup, then watermark. Recovery tasks sleep, read the watermarks and scan room by room,
oldest first; the gateway run treats the tasks as symmetric. The save in the thread takes its payload in one
step and lands (file replaced, `_dirty` cleared) or fails in a later one; a
save on the loop may run between them and both use one temporary file, so a racing write may leave either
payload or a file `load` rejects. `InboundDedup.forget` has no caller.

**BackgroundJobs** has a worker at one await at a time (`ready`, `opening`, `model`, `tools`,
`refused`, `notice`, `delivering`, `reporting`); `pending` is a cancellation not thrown yet. Where it is thrown decides what
the worker still does: only the tool loop's `try` turns it into *cancelled*. `!bg` is still answered while
`close()` waits, so a job started then outlives close; the properties are stated until `close()` has
returned, and the straggler is recorded as a hazard. The progress message of a job swallows a cancellation thrown while
its first post is awaited (`tool_progress.py:226`); such a worker is `deaf` and goes on, and what it then writes over
the status *cancelled* is set apart in `EndIsFinal` by `Shown`.

**Publisher** has two threads. `Observe`, `Complete`, `SubmitAudit` and `SubmitSite` are the turns of
`Publisher.run`; the worker's steps are those of `reconcile_site` and `inventory` between two requests;
`Remote...` actions are the guard's. A site is a version (its metadata) with a content; equal contents with
different metadata exercise the second skip test. A timed-out claim or removal may run later
(`LateClaim`, `LateRemove`): the guard is not killed with its connection. `NeverTakenDown` is about the decision, so it holds a late removal
to the moment it was sent (`LateRemoval`); what the guard does with it later is under [disagreements](#where-the-code-and-its-documentation-disagree). Token, identity and marker are
abstracted to `marked` (the directory is as the latest claim left it) and `saved` (so is the record).
`strays` are directories a late claim made after the record was gone: nothing in the code can find them.
The deadline of a dirty site is nondeterministic, the background a set, and an inventory may take longer than
`rescan_seconds`: `Converges` has as its premise that from some time on none does (`Prompt`). `TreesOf` says which versions each
site may come to.

**RoomIntake** follows a message through `on_message` with `at`, one place per await: the fetch of the referenced message
(`reading`), the wait for the turn it interrupts, the lock of the room, the memory write. `Receive` is everything up to
the first await, `Leave` everything after the write, with `_should_live_reply`, `_busy_reason` and `_queue_watch_reply`.
A write may hang (`stuck`) with the lock or without it, which is why the wait for the lock has its limit. The wait for an interrupted turn has none: `wait_for`
(`bot.py:5008`) cancels the turn at its timeout and returns when the turn has ended. A turn slow in its cancellation, or deaf to it, therefore holds
the message (`halts` names whose turn it waits for); `DirectIsHandedOn` says it is handed on unless it so waits (`AwaitsEnd`). `bucket`
is the debounce bucket (`latest`, `latest_directed`), `Flush` its timer. The line is an `INSTANCE` of `ReplyLine`; `working`
is `_active_requests`, `replying` is `_replying_channels`, and `Begin`, `Prepare`, `Work`, `End` are what the other
parts see of a turn. What is decided elsewhere (switches, watch, sleep, cool-downs, pressure) is a free choice at the
point where the code asks.

**MessageEdits** numbers the versions of a message. An update is `Register`ed (fingerprint, snapshot, row) in one step, awaits the
memory, then the download if its pictures changed, and is `HandOver`ed to bucket and turn unless `Superseded`. A message
object is `Live` when it is the one the Discord library edits in place, or a copy of a version. The turn asks again for a late
preview, registers itself (`Extracted`), builds its prompt, and looks for a notice after each build
(`Built`, `Rebuilt`), as `_apply_inflight_refresh` does. `told`, `early` and `followed` are a history: the version of its own message the turn was last
told of (`TellOwn`), whether that was before it had its pictures, and whether a notice of the parent came after it (`TellParent`).

**ProviderReload** numbers providers by their creation and versions of the file by their stamp. `Apply` is
`apply_provider_reload`: `Polled` is `poll()`, `Idle` is `providers_idle`, `Swap` the replacement, without an await
between the two. `ControlTick` and `CloseNext` are the control loop and `close_retired_providers` with its snapshot. Users differ in
what they hold: turns and jobs read the main provider at every call, keepers (tick, REM, summaries) hold the one they
fetched over gaps without a request, loose callers make a single request.

**ToolProgress** is one `ToolProgressMessage` in its turn. `asked` is the request a task waits for, `loose` what cancelled tasks left
behind, `channel` what Discord shows. `Stop` is `stop()`, used by the end of a batch, the cleanup and a cancellation;
`Transition` to `ResendFails` are `transition_to_final`; `Flush` is `_flush` with its lock, which the final edit does not take.
Throttling is left out: an interval may be over at any time.

**Inbox** has the lock as `queue`, its holder first, and in `call` what each task has read (`base`) and has still to do. `Load` and `Save` are
the two halves of `upsert` and `mark`, between which the thread that writes the file may outlive its cancelled task (`late`, after which
`strayed` sets a behaviour apart). `AfterGet` is what the operations that look first do with what they found: by then the lock
is free. `wire` is what the gateway has still to say of relationships, `cache` what the library believes. `Prompt` to `Silent` are the part of a turn that shows unread items;
`shown` is `_inbox_shown_ids`, one list for every room. `fresh` are requests nobody has touched since they came: a request that arrives
while an answer to the one before it is on its way is not among them, since nothing in the code tells the two apart.
`Pending` is `planner_items` with its cap per kind, which can keep a notice out of a later prompt; `lost` sets such notices apart, as
`dropped` does the people whose request the ring has dropped. Events beyond the two handlers wait for one of them.

**Plugins** counts generations. A reload is one step, since `reload_plugins` has no await; the tasks it cancels go on until the
cancellation is `Thrown` and their callbacks are `Unwound`, or `Swallows` it (`deaf`). A task a reload makes is behind the cancellations of that reload in
the event loop, hence the guard of `JobRuns`. Each plugin has one job and one listener. Loading that fails as a whole leaves what a reload with every plugin failing
leaves. Tools, imports and the file of the enablement, which each change saves, are left out.

**Rem** has the ring of visible events with its debounced save, the state file, and the passes of its callers. `stage` is the await a pass is at;
`Handed` is the file a write gives its thread, `Updated` what the write changes of it, `Unwound` the `finally` an exception reaches, `Shared` which of the two stores, each with a lock of its own, a write goes through.
A write of a cancelled task lands later (`stray`). `LoadState` is the read of the state file: one that fails is an empty state, and a `Drain` without a watermark takes
the whole ring; `reread` is the history of what it took from below the mark. After a `Restart` that cannot read the ring it is empty. `Stop`, `FlushRing`, `EndLoop` and `Exit` are the shutdown in the order of `main`, `Crash` may take half of everything with it.
The application of an answer to memory is one step; the prompt, the run history, the control file, the back-off
and the trimming of recorded ids are left out.

`MC*` modules give the constants of the runs; a module whose constants need no definitions runs by itself. Definitions described as *a plausible wrong form* are not
part of a specification: each replaces the definition after it to show that a property can fail. Every module
that follows the code states a type invariant, and a theorem says that it holds.

## Runs, bounds and results

| run | question | bounds |
| --- | --- | --- |
| `fs` | no admissible call asleep, refinement of `SlotPool`, rooms take turns, people are served, background is served once people stop | 3 people, two of one room, 1 background call, 3 rooms, capacity 0 (clamped to 1) and 2, a history of 2 rooms for 3, so that rooms are forgotten |
| `rq_turns` | nobody stranded, turns reachable, eviction, refinement of `ReplyLine`, everybody leaves the line | 3 messages in a line of 2 and one in another room, each submitted twice: eviction, refresh and coalescing meet |
| `gw_recovery` | no repeat within the window, watermarks never ahead, only overtaken messages are lost | 5 messages in 3 rooms, window 2, 2 watermarks kept, 2 recoveries, one outage, one crash |
| `jobs` | active jobs are worked, done is delivered, ends are final | 3 jobs of 2 users, limits 2 and 1, 2 kept, one restart |
| `pub` | cache true, edits seen, directories tracked, removals asked for only while the site is missing, the mirror converges once inventories keep their pace | 2 sites, one of which takes up to three states (created, changed, deleted or made again), a fault of any kind |
| `intake` | one answer per message, what `!stop` found never begins, questions are handed on unless the turn they interrupt does not end | 2 rooms; in one a question, a second one of the same author and talk of another, in the other a question |
| `edits` | a complete prompt was begun after the last notice and is no older than what its turn was told; bucket and row follow the newest update | 2 edits of the asked message (one changes its picture), 2 of its parent, which the library does not hold |
| `reload` | nobody's client is closed, a round keeps its provider, an edit is applied | 4 edits (own role profile, not constructible, rejected, back to the first), a turn, a job, a tick, a single request, 1 failing read |
| `progress` | the delivered answer stands; no placeholder is left unless a request about it failed or was cut | 2 ticks beside update and flush, 2 failing requests |
| `inbox` | an untouched request is shown, a dismissed one stays so, what a reply carried is not announced again | 1 person, 2 notices of which a prompt has place for 1, 2 event handlers, 1 action, 2 turns, a ring of 2, 5 moves of people, servers, tools and turns, 1 write that outlives its task: enough to ask, withdraw and ask again beside an action and a reply, to push a request out of the ring, and to crowd a notice out of the next prompt |
| `plugins` | jobs that go on are tracked and of the current generation, choices stand, the teardown ends | 1 plugin over 3 generations, any of which fails or swallows its cancellation, 2 people, lists of 1 name: plugins share nothing but the step that replaces them |
| `rem` | no event assimilated twice or passed by, the flag tells what goes on | 2 events, a ring of 1, 3 passes by scheduler and command, 1 failed read, write or request, stop or crash: a third pass is needed to assimilate again what the watermark of the second had covered and a stray write uncovers |

Counters are bounded by guards only (`Copies`, `MaxOutages`, `MaxReplayed`, `MaxCrashes`,
`MaxRestarts`, `MaxFaults`, `MaxMoves`, `MaxLate`, `MaxGen`, `MaxPasses`, `MaxTroubles`, `Edits`, `Versions`). Deadlock is checked except where the system really ends: after
`close()`, or with the last message posted.

Some configurations belong to no run of the table: they are started by hand,
`tlc -config <file> <module>`. `Rem_live.cfg` (module `Rem`, 2 passes, 1 failure, stop or crash) checks that every pass gives its guard back and that what is recorded reaches the file; the
others reproduce a counterexample, and the section below names them.

## Where the code and its documentation disagree

Each of these is reproduced by hand:

- *A late removal takes a live site down* (`LiveStaysUp` in place of `NeverTakenDown` in `Publisher.cfg`, `guard.py:182-216`): the guard looks at no token on a removal,
  so one that timed out and runs after its site was made again and sent removes it, although `docs/PUBLISHING.md:84` removes only "sites deleted locally".
  The next inventory sends the site again.
- *A turn answers an older text than it was told of* (`ToldIsAnswered` in place of `PromptIsFresh` in `MessageEdits.cfg`, `bot.py:11649`): the turn is told of an edit while it
  extracts its pictures, and the edit is written over by the turn's own copy; a later notice of the parent takes that copy for the latest
  (`bot.py:4767`), and the rebuilt prompt marks both as seen, against `bot.py:4620-4623`. `PromptIsFresh` sets exactly this apart (`Reverted`).
- *REM assimilates the ring again after a failed read* (`ReadOnce` in place of `HeardOnce` in `Rem.cfg`, `rem.py:149-152`): `load_state` does not ask
  `_load_json` to fail closed, so a state file that cannot be read counts as one without a watermark; `rem.py:89-91` means to prevent that.
  `HeardOnce` sets the events read so apart (`reread`), and only them.
- *A progress message can stay* (`ToolProgress_stray.cfg`, `MCToolProgress`, `tool_progress.py:569`): a first post whose task is cut by a cancellation reaches
  Discord after `stop()` found nothing to remove, and a failed edit forgets the post it was about. The comment at
  `bot.py:13581-13583` guarantees that the message disappears whatever happens.
- *A notice nobody carried is marked as read* (`Inbox_carried.cfg`, `MCInbox`, `bot.py:3904`): a prompt built in another room replaces the list of
  shown notices, and the next reply of any room marks what it names. `bot.py:3899-3901` says that a notice is not burnt on a turn
  that stayed silent. The same list brings a notice back that was dismissed meanwhile, against `bot_tools.py:7478`.
- *A write of the inbox undoes another* (`Inbox_serial.cfg`, `MCInbox`, `inbox.py:103`): a cancelled tool call gives up the lock while its thread
  still writes, against "one lock around every read-modify-write" (`inbox.py:86`).
- *Two copies of a job* (`Plugins_copies.cfg`, `Plugins`, `plugin_manager.py:661`): after a reload the old callback unwinds while the new one runs, against
  `plugin_manager.py:394-395`.
- *An event of REM is lost* (`Rem_late.cfg`, `Rem`, `rem.py:395`): the watermark is the time a pass began, but a user's event carries the time of its message and
  is recorded after awaits (`bot.py:8264`), so it may lie below. The comment says events recorded during the run are not lost.
- *REM assimilates a slice twice* (`NeverTwice` in place of `HeardOnce` in `Rem.cfg`, `rem.py:158-171`): a stop cancels a pass in its last write,
  whose thread goes on outside the lock; a second pass sets its watermark, the thread lands its older file over it, and after the restart the
  slice is read again. The lock of `patch_state` is meant to make read and write one step. `HeardOnce` sets this case apart (`undone`).
- *The running flag stays up* (`Rem_cancel.cfg`, `Rem`, `rem.py:414`): a pass cancelled while a thread raises the flag leaves the thread, whose file may land after
  the one that clears it.
- *Directed messages can be dropped* (`ReplyQueue_dropped.cfg`, `MCReplyQueue`): the ninth that waits pushes out the oldest, and
  one that waited longer than `max_age` goes, although the docstring says none can.
- *A live message hides the gap before it* (`GatewayRecovery_lost.cfg`, `MCGatewayRecovery`): it raises the watermark during the
  two seconds a recovery waits before it reads the watermarks.
- *A note during a save is never saved* (`GatewayRecovery_clean.cfg`): the thread clears `_dirty` after its write.
- *Inventories can starve repairs* (`Publisher_starved.cfg`, `MCPublisher`): an overflow during an inventory leaves
  `next_rescan` armed while the next one runs; if it is slower than `rescan_seconds` (30 s by default,
  against a timeout of 120 s), every inventory asks for its successor and no repair gets a turn.
- *A cancelled job comes back as done* (`BackgroundJobs_stop.cfg`, `MCBackgroundJobs`): the progress message swallows the worker's
  cancellation (`tool_progress.py:226-227`), although `jobs.py:602` has recorded *cancelled*.
- *An edit is lost* (`MessageEdits_kept.cfg`, `MCMessageEdits`): while the pictures of a message download, its turn registers the
  version it holds, and the handler of the edit finds itself superseded; the comment at `bot.py:4773` promises to keep
  the transcript current.

Met while reading, without a run:

- the comment at `bot.py:4833` says that a crash does not re-answer messages; the window dies with the process;
- a restart can lie: done is recorded before the delivery, and `load()` corrects only queued and running, against
  `jobs.py:474-475`;
- `!stop` does not stop a message still inside `on_message` (`bot.py:5508`): it is handed on afterwards;
- an edit that arrives while the turn waits for its slot, or while its early tools run again, is missed, although the docstring
  at `bot.py:4577` says "before the provider request is sent"; the queue's copy of a message keeps the text it was handed on with;
- a text-only edit that supersedes one still downloading drops the new pictures (`bot.py:4700-4705`), and updates of a
  message the library does not hold may be fetched out of order;
- `transition_to_final` edits without the lock of `_flush`: a tick's edit already on its way may replace the answer.
  `AnswerStands` sets these apart (`overtaken`);
- `docs/PROVIDER_RELOAD.md` says that a valid edit stays pending until the bot is idle: a `stat()` that fails once clears it, and as
  `checked` keeps the stamp, it is not read again before the file changes. `EditApplied` sets it apart, since `!debug` shows
  *rejected*;
- a claim that runs after its site was forgotten leaves a directory (`docs/PUBLISHING.md:84`);
- the docstring at `concurrency_safety.py:147` promises that rooms take turns; when more rooms wait than the history keeps, the cut
  (`concurrency_safety.py:202-209`) forgets one that was served lately, and it may go before a room that never was.
  `RoomsTakeTurns` therefore assumes at most as many rooms as the history keeps (512 in the code);
- a request he has dismissed can come back without the person asking anew: once the ring has dropped the item, the seed of
  the next session finds none and inserts it (`inbox.py:326-340`);
- a notice a reply has carried can be announced again: a prompt built before the reply goes out replaces the list of shown
  notices by what its own cap lets in (`inbox.py:155-165`), and the notice is on no list any more;
- after a shrink of the pool background work may hold every slot until it returns, against `concurrency_safety.py:167`;
- `FairSemaphore.release` awaits the lock of its condition without a shield; under the scheduling described above it never suspends.

## Fairness

- FairSemaphore: a task the loop made ready runs (`Recheck`), and a holder releases, as every turn and
  round has a deadline. Callers are not forced to arrive, and may give up at any time. `BackgroundServed`
  is conditional on people no longer arriving, `PersonServed` on callers who do not for ever ask only to give up
  before their turn (`CallersWait`): their time limits are minutes.
- ReplyQueue: ready pumps run, turns end (`asyncio.timeout_at` in `bot.py:11339-11363`), and shutdown
  awaits `close` (`bot.py:15829`). Nothing is assumed of submitters or cancellations.
- RoomIntake: the event loop runs every handler on, Discord answers a fetch or fails, and the time limit of the lock expires. Nothing is
  assumed of turns (not even that an interrupted one ends), commands and the timers of the bucket.
- ProviderReload: the control loop never stops, and a `close()` returns or raises. `EditApplied` is conditional on the
  bot becoming quiet for good, as the code promises an edit only then.
- Publisher: both threads run and an answered request returns; strong fairness for taking a site, since
  its deadline is fixed by the first edit plus `rescan_seconds` and the background is a FIFO, though an
  inventory that is due may come first. Nothing is assumed of editors, faults or others.

- Plugins: the loop throws a cancellation, a cancelled callback that does not swallow it comes to its end, and `teardown` goes on
  once its jobs have ended. Nothing is assumed of jobs that are not cancelled, of reloads or people.
- Rem (for `Rem_live.cfg`): threads end, slots come free, providers answer and ready tasks run; nobody has to speak or to start a pass.
- Inbox, ToolProgress, GatewayRecovery, BackgroundJobs and MessageEdits are checked for safety only.

## Proofs

Proved for every value of the constants under the named assumptions of the modules (finite sets
where sets are counted, positive bounds, total owner and room functions).

- `SlotsAndProgressProofs`, the slots: types; `NoLostWakeup` (a state change that can admit the first in line comes
  with `notify_all`, so the winner is awake: inductive once one sees that a departure keeps the ranks of
  the others); `CountersCorrect` (the counters are cardinalities of the sets of holders);
  `SlotStaysReserved` without resizes; `ImplementsPool`, by mapping each action to an entry, a departure, a
  resize or a stutter; `RoomsTakeTurns`, if the history has a place for every room.
- `SlotsAndProgressProofs`, the progress message: a property of the delivered answer is a property of every request still on its way, so
  the invariant says what each task and each request without a task asks for (`Asks`), where the object of the turn stands with the
  other tasks (`Object`, `TakenOver`), who answers for every post that shows progress or will by an edit on its way (`Shown`), and what carries
  the answer (`Carries`). Types alone are not inductive: that what is edited was posted is part of `Asks`. From it `DeliveredStands` and `NoPlaceholderLeft`.
- `ReplyQueueProofs`: the inductive invariant is types, well-formed lines, *pump discipline* (which pump
  a room names, and where that pump can be) and *close progress* (what close has left behind in the rooms
  it visited). A line alone is not inductive: that somebody will come for it is only known from the await
  the room's pump is at. From it: `LinesWellFormed`, `LinesManned`, `TurnsTracked`, `ClosesQuietly`,
  `ImplementsLine` and, step by step, `OnlyTheOldestGivesWay`.
- `GatewayRecoveryProofs`: the window is the tail of what was taken, longer than half the capacity once
  it was cut, hence `NoRepeatInWindow`; watermarks in memory, in the payload and on disk were all read,
  hence `MarksNeverAhead`. `GapIsRecovered`: no watermark, list of rooms or list of fetched messages has passed a
  message that is still to be found (`NotPassed`, of the file and of a save on its way too), and once the link is up some recovery has yet to look where
  it is (`LooksFor`); when the recoveries are done, none is left. What a limit of the code leaves out (`excused`) is set apart by the properties.
- `JobsAndPublisherProofs`, background jobs: the await of a worker determines the possible statuses, cancellation and table
  entry of its job, whether the worker is deaf to its cancellation or not, and the active jobs respect the limits. From it `TypeCorrect`,
  `ActiveHasWorker`, `WorkersLimited`, `DoneReachesChannel` and, step by step, `EndsAreFinal`.
- `JobsAndPublisherProofs`, the publisher: what the worker has in hand of a site fixes what `ownership.json`, the caches and the
  remote directory can be. `Tracked`: a directory of ours is in the file from before its claim until it
  is gone; `WasGone`: a removal is recorded only for a site that has been missing since it was last sent; `LeftBehind`: only a worker that removes leaves a removal to run late; `TakenDownBy`: which steps take a site down at all; `Cached`: what the caches
  say of a directory agrees with it, or another has touched it; `Seen`: where what a job has read differs from the tree, something that outlives
  the job knows it (a queued event, a lost one, an inventory to come). From these `MadeIsTracked`, `OnlyTheGoneAreTakenDown`, `CacheTellsTheTruth` and `NoChangeGoesUnseen`.
- `RoomIntakeProofs`: a message that waits in a line or in a bucket is *fresh* (handed on, neither begun nor stopped, in its own
  room), no line holds what its bucket will hand on, and what is begun or stopped has left `on_message`. Each alone can be
  broken by the next step; together they are inductive and give `NoneAnsweredTwice` and `StopIsFinal`, since only a message
  that waits is ever begun. `TalkNeverQueues` follows from the guard of the timer.
- `ProviderReloadProofs`: whoever holds a provider holds one in use (`HoldsCurrent`), and what is in use is apart from what is
  retired or closed (`Apart`). A swap is only taken when nobody holds one (`IdleHoldsNothing`), which is what the check for idle
  is for. From it `NeverClosedInUse`, `RoundsKeepTheirProvider` and `NoneLeaks`. Different kinds of users are
  assumed to be disjoint.
- `EditsAndRemProofs`, the edits: the mark of a rebuild never runs ahead of the notices and equals them only when the turn has the
  newest (`Noticed`), and, unless its own copy came over what it was told, it then holds that text (`Unread`), hence `PromptsAreFresh`; until its turn begins, a message is registered in its newest version, which the bucket
  shows or a handler that is still pending will show (`Current`), hence `WaitingStaysCurrent`.
- `EditsAndRemProofs`, REM: `Guarded` and `Locks` say that who has got beyond its first write is alone and finds the lock free for its last
  one (a pass that waits for that lock was cancelled at a stop, when nobody starts any more); hence `OneWritesAtATime`, although two locks
  stand for one file. `Rings` and `Clocks` tie what was recorded to the ring and to the time. A watermark matters once a thread has it, so `Marks`
  says of every file on disk or on its way that it passes nothing by, and of a pass that looked that it has the rest in its slice; that a mark
  goes on passing nothing by is `PassedStays`. `Hears` says that each such file covers what was heard, unless the pass that heard it is
  about to write, apart from what was drained without a mark (`DrainIs`: what lies before the mark is drained only when it could not be read); `Flags`, that somebody is left to lower what is raised. From them `EventsAreHeardOnce`, `OnlyLateArePassedBy`, `FlagIsTrue`.
- `InboxAndPluginsProofs`, the inbox: `Queued` says who is in the line of the lock and that only its holder writes, hence `Serial`, that a write
  replaces the list it has read unless one has outlived its task. On it rest the three promises, each of which is a property
  of the sections still to come: `Decided` (who has looked before the dismissal marks or inserts nothing after it), `Waits` (between a new
  request and its item there is only the section that makes it, behind whatever was in the line before it) and `Announces` (a notice a
  reply has carried and nobody has marked is on the list of a task, or in the shared list of the turns, which a turn in another room
  may have replaced). From them `UntouchedIsShown`, `DismissedStays` and `NoticesAreNotRepeated`.
- `InboxAndPluginsProofs`, the plugins: `NoneGoesOnUnseen` is inductive with the types, since everything that goes on is tracked when a reload or the teardown cancels what
  is tracked (`ReloadSeen`, `TeardownSeen`), hence `NoJobUnseen`. `ChoiceStands` is not: the plugin may be taken from everybody. It follows from
  `Listed`, that who asked is on the list and who opted out is written down, hence `ChoicesStand`. People are assumed finite in number.

Some of the proved invariants are in no run: `CountersCorrect`, `SlotStaysReserved`, `LinesWellFormed`, `ClosesQuietly`, `WorkersLimited`,
`TalkNeverQueues`, `NoneLeaks` and `OneWritesAtATime` hold for every instance, and the runs ask what the proofs do not reach.

Only model-checked: all liveness (the prover has no fairness or ENABLED). Recursive operators are avoided in the modules with
proofs. One recursive function is needed, the filter `Only` of the inbox: the theorems of induction take an operator the provers cannot
instantiate, but a least counterexample can be had from the well-foundedness of the naturals (`Least`), and by it the recursion has
a solution (`KeepsExists`) that holds the wanted elements of the list in their order (`OnlyIs`).

## What is not modelled, or not proved

`PROJECT.json` lists every component with the reason. In the modelled ones: contents of messages,
prompts and sites; logging and telemetry; failures of single writes of a state file outside
GatewayRecovery; in Publisher the image archive, `--once`, the identity of the roots, hidden folders, a
site replaced by a file or link, and the inside of one claim or removal (done under the lock of the root); in
ProviderReload the end of the process, which closes every provider while messages may still arrive; in RoomIntake the
smoke runtime, commands other than `!stop` and the insides of a turn; in MessageEdits deletion of a message and the
pictures inside a prompt; in ToolProgress the recheck after the first post (`tool_progress.py:243-247`), which nothing can
reach: a `stop()` during the send cancels the task that would come there.
