----------------------------- MODULE Publisher -----------------------------
(***************************************************************************)
(* The publisher of scripts/publisher: it mirrors the sites of a local     *)
(* tree to a remote host. The main thread (service.py, watch.py) collects  *)
(* what inotify reports and hands one job at a time to a worker thread     *)
(* (mirror.py): a site to reconcile, or an inventory of all of them. The   *)
(* worker talks to a guard on the remote host (guard.py), over a           *)
(* connection that loses requests and replies. Others edit the local tree  *)
(* and touch the remote one at any time, and the process may end between   *)
(* any two steps; what it owns is in ownership.json, the rest is forgotten.*)
(* The archive of images, which is never claimed nor deleted, is left out. *)
(***************************************************************************)
EXTENDS Integers, FiniteSets

CONSTANTS
    Names,       \* of sites
    Versions,    \* of a site's tree: every edit has a metadata signature of its own
    ContentOf,   \* the directories and bytes of a version
    TreesOf,     \* the versions each site may come to
    MaxFaults    \* bound: failures, lost replies, touches of others, crashes

ASSUME VersionsAssumption == Versions \subseteq Nat \ {0}
ASSUME ContentsAssumption == ContentOf \in [Versions -> Nat \ {0}]
ASSUME TreesAssumption == TreesOf \in [Names -> SUBSET Versions]
ASSUME FaultsAssumption == MaxFaults \in Nat
ASSUME NamesAssumption == "audit" \notin Names

VARIABLES
    source,       \* the version of each local site, None if there is no such directory
    edited,       \* the latest version
    unwatched,    \* sites with a directory inotify is not registered for
    kernel, lost, \* the inotify queue, and whether it overflowed
    topology, coverageLost,            \* Watcher
    dirty, background,                 \* Pending
    backgroundTurn, force, retry, auditPending,  \* Publisher
    armed,        \* next_rescan is a time, not infinity
    job,          \* what the worker runs
    published, expected,  \* Mirror: the version of each snapshot
    verified,     \* Mirror.remote_signatures: the remote content they stand for
    sites,        \* ownership.json: no, live or deleting
    saved,        \* sites whose token and identity there are those of the latest claim
    remote,       \* the content of each remote directory
    marked,       \* directories that are as the latest claim of the site left them
    late,         \* requests that run although their sender gave up
    faults,
    touched,      \* history: sites others changed since they were last known
    strays,       \* history: directories made by a late request
    wasGone,      \* history: sites that were missing locally since they were last sent
    skipped       \* history: sites the last inventory told nothing about

local == <<source, edited, unwatched>>
watcher == <<kernel, lost, topology, coverageLost>>
schedule == <<dirty, background, backgroundTurn, force, retry, auditPending, armed, skipped>>
caches == <<published, expected, verified>>
owned == <<sites, saved>>
there == <<remote, marked, late, touched, strays, wasGone>>
publisherVars == <<local, watcher, schedule, job, caches, owned, there, faults>>
-----------------------------------------------------------------------------
None == 0    \* no version, no directory
Mixed == -1  \* an empty, partly transferred or foreign content
Content(v) == IF v = None THEN None ELSE ContentOf[v]

Idle == [at |-> "idle"]
OnSite(n, step) == job.at = step /\ "name" \in DOMAIN job /\ job.name = n
Goes(step) == job' = [job EXCEPT !.at = step]

\* The future of the job holds its error, or the repairs of an inventory.
Done(of, failed, repairs) ==
    job' = [at |-> "done", of |-> of, failed |-> failed, repairs |-> repairs]

Fault == faults < MaxFaults /\ faults' = faults + 1

NoVersion == [n \in Names |-> None]

\* Publisher.run() starts with an inventory.
PublisherInit ==
    /\ source = NoVersion /\ edited = 0 /\ unwatched = {}
    /\ kernel = {} /\ lost = FALSE /\ topology = FALSE /\ coverageLost = FALSE
    /\ dirty = {} /\ background = {} /\ backgroundTurn = TRUE /\ force = {} /\ retry = {}
    /\ auditPending = TRUE /\ armed = FALSE /\ skipped = {} /\ job = Idle
    /\ published = NoVersion /\ expected = NoVersion /\ verified = NoVersion
    /\ sites = [n \in Names |-> "no"] /\ saved = {}
    /\ remote = NoVersion /\ marked = {} /\ late = {} /\ faults = 0
    /\ touched = {} /\ strays = {} /\ wasGone = {}
-----------------------------------------------------------------------------
(* The local tree, edited by the model's shell, and what inotify makes of  *)
(* it. A change in a directory that is not registered yet is not reported. *)
Reported(n) == kernel' = kernel \cup {n} /\ UNCHANGED <<lost, faults>>
Overflows == kernel' = {} /\ lost' = TRUE /\ Fault

Edit(n, v) ==
    /\ v \in TreesOf[n] /\ v > edited /\ edited' = v
    /\ \E new \in {v, None} :
          /\ new # source[n]
          /\ source' = [source EXCEPT ![n] = new]
          /\ \/ /\ unwatched' \in IF new = None THEN {unwatched \ {n}}
                                  ELSE IF source[n] = None THEN {unwatched \cup {n}}
                                  ELSE {unwatched, unwatched \cup {n}}
                /\ Reported(n) \/ Overflows
             \/ /\ n \in unwatched /\ {new, source[n]} \subseteq Versions
                /\ UNCHANGED <<unwatched, kernel, lost, faults>>
          /\ wasGone' = IF new = None THEN wasGone \cup {n} ELSE wasGone
    /\ UNCHANGED <<topology, coverageLost, schedule, job, caches, owned>>
    /\ UNCHANGED <<remote, marked, late, touched, strays>>
-----------------------------------------------------------------------------
(* One turn of the main loop: observe(), complete() and the next job.      *)
NeedsRebuild == topology \/ lost \/ kernel \cap unwatched # {}

\* rebuild() replaces every watch, or meets a tree that changes and keeps the old ones.
Rebuilt == /\ topology' = FALSE /\ coverageLost' = FALSE
           /\ unwatched' = {} /\ UNCHANGED faults
NotRebuilt == /\ topology' = TRUE /\ coverageLost' = TRUE
              /\ Fault /\ UNCHANGED unwatched
\* A plausible wrong form: the new watches are trusted with the past.
ForgetsCoverage == lost
OverflowAfter == lost \/ (coverageLost /\ ~coverageLost')

\* An idle worker is given what waits in the background before the clock is read
\* again. The next inventory is due rescan_seconds after the end of the last.
Auditing == \/ job.at \in {"list", "audit", "ask", "answered"}
            \/ job.at = "done" /\ job.of = "audit"
RescanDue == armed /\ (job = Idle => background = {})

Observe ==
    /\ \/ NeedsRebuild /\ (Rebuilt \/ NotRebuilt)
       \/ ~NeedsRebuild /\ UNCHANGED <<topology, coverageLost, unwatched, faults>>
    /\ kernel' = {} /\ lost' = FALSE
    /\ dirty' = dirty \cup kernel /\ background' = background \ kernel
    /\ \E due \in {FALSE} \cup {RescanDue} :
          /\ due \/ NeedsRebuild \/ kernel # {}
          /\ IF due \/ OverflowAfter
             THEN auditPending' = TRUE /\ armed' = FALSE
             ELSE UNCHANGED <<auditPending, armed>>
    /\ UNCHANGED <<source, edited, backgroundTurn, force, retry, skipped>>
    /\ UNCHANGED <<job, caches, owned, there>>

\* What an inventory found and what failed before go to the background.
ToRepair == job.repairs \cup retry

Complete ==
    /\ job.at = "done" /\ job' = Idle
    /\ CASE job.of # "audit" ->
              /\ retry' = IF job.failed THEN retry \cup {job.of} ELSE retry
              /\ UNCHANGED <<force, background, armed>>
         [] job.of = "audit" /\ job.failed ->
              armed' = TRUE /\ UNCHANGED <<force, background, retry>>
         [] job.of = "audit" /\ ~job.failed ->
              /\ armed' = TRUE /\ retry' = {}
              /\ force' = force \cup ToRepair
              /\ background' = background \cup (ToRepair \ dirty)
    /\ UNCHANGED <<dirty, backgroundTurn, auditPending, skipped>>
    /\ UNCHANGED <<local, watcher, caches, owned, there, faults>>

\* Before the dirty sites only when it is overdue.
SubmitAudit ==
    /\ job = Idle /\ auditPending
    /\ auditPending' = FALSE
    /\ job' = [at |-> "list", left |-> {}, present |-> {}, asked |-> {}, failed |-> {}]
    /\ UNCHANGED <<dirty, background, backgroundTurn, force, retry, armed, skipped>>
    /\ UNCHANGED <<local, watcher, caches, owned, there, faults>>

\* A dirty site is ready once it has settled; a name is forgotten as it is taken.
Take(n) ==
    \/ /\ n \in dirty /\ ~(backgroundTurn /\ background # {})
       /\ dirty' = dirty \ {n} /\ UNCHANGED background
    \/ /\ n \in background
       /\ background' = background \ {n} /\ UNCHANGED dirty

SubmitSite(n) ==
    /\ job = Idle /\ (auditPending => dirty # {})
    /\ Take(n)
    /\ backgroundTurn' = ~backgroundTurn
    /\ job' = [at |-> "look", name |-> n, forced |-> n \in force, snap |-> None]
    /\ force' = force \ {n}
    /\ UNCHANGED <<retry, auditPending, armed, skipped>>
    /\ UNCHANGED <<local, watcher, caches, owned, there, faults>>
-----------------------------------------------------------------------------
(* reconcile_site. The snapshot is copied to the staging area before it is *)
(* sent, so what is sent is what was scanned.                              *)
Unchanged(n, v) ==
    /\ ~job.forced /\ published[n] # None /\ sites[n] # "deleting"
    /\ Content(v) = Content(published[n])

\* The metadata scan, without a copy.
Look(n) ==
    /\ OnSite(n, "look")
    /\ IF Unchanged(n, source[n]) /\ source[n] = published[n]
       THEN Done(n, FALSE, {}) ELSE Goes("scan")
    /\ UNCHANGED <<local, watcher, schedule, caches, owned, there, faults>>

ScanSite(n) ==
    /\ OnSite(n, "scan")
    /\ LET v == source[n]
       IN  IF Unchanged(n, v)
           THEN /\ published' = [published EXCEPT ![n] = v]
                /\ Done(n, FALSE, {})
           ELSE /\ published' = [published EXCEPT ![n] = None]
                /\ IF sites[n] = "no" /\ v = None
                   THEN Done(n, FALSE, {})
                   ELSE job' = [job EXCEPT !.at = "probe", !.snap = v]
    /\ UNCHANGED <<local, watcher, schedule, expected, verified, owned, there, faults>>

\* A plausible wrong form: a site that is recreated keeps its record.
AddsOnce(n) == IF sites[n] # "no" THEN UNCHANGED owned
               ELSE sites' = [sites EXCEPT ![n] = "live"] /\ saved' = saved \ {n}
\* add_site(), with a new token, before the claim that uses it.
Adds(n) == IF sites[n] = "live" THEN UNCHANGED owned
           ELSE sites' = [sites EXCEPT ![n] = "live"] /\ saved' = saved \ {n}

\* A plausible wrong form: a removed site is forgotten before it is removed.
ForgetsFirst(n) ==
    /\ OnSite(n, "probe")
    /\ IF sites[n] = "deleting" \/ (sites[n] = "live" /\ job.snap = None)
       THEN /\ sites' = [sites EXCEPT ![n] = "no"] /\ UNCHANGED saved
            /\ Goes("remove")
       ELSE Adds(n) /\ Goes("claim")
    /\ UNCHANGED <<local, watcher, schedule, caches, there, faults>>
\* The roots are known: the removal is recorded before it is requested.
Probed(n) ==
    /\ OnSite(n, "probe")
    /\ IF sites[n] = "deleting" \/ (sites[n] = "live" /\ job.snap = None)
       THEN /\ sites' = [sites EXCEPT ![n] = "deleting"] /\ UNCHANGED saved
            /\ Goes("remove")
       ELSE Adds(n) /\ Goes("claim")
    /\ UNCHANGED <<local, watcher, schedule, caches, there, faults>>

\* guard.remove(), under the lock of the root, whoever made the directory.
TakenDown(n) == /\ remote' = [remote EXCEPT ![n] = None]
                /\ marked' = marked \ {n} /\ strays' = strays \ {n}
RemoteRemoves(n) ==
    /\ OnSite(n, "remove") /\ Goes("removed")
    /\ TakenDown(n)
    /\ UNCHANGED <<local, watcher, schedule, caches, owned, late, touched, wasGone, faults>>

Removed(n) ==
    /\ OnSite(n, "removed")
    /\ IF job.snap = None
       THEN /\ sites' = [sites EXCEPT ![n] = "no"] /\ UNCHANGED saved
            /\ Done(n, FALSE, {})
       ELSE Adds(n) /\ Goes("claim")
    /\ UNCHANGED <<local, watcher, schedule, caches, there, faults>>

\* guard.claim(): the directory is made, or the marker of the one that is
\* there replaced. The sender saves its identity with the reply.
RemoteClaims(n) ==
    /\ OnSite(n, "claim") /\ Goes("claimed")
    /\ remote' = [remote EXCEPT ![n] = IF @ = None THEN Mixed ELSE @]
    /\ marked' = marked \cup {n} /\ strays' = strays \ {n}
    /\ saved' = IF n \in marked THEN saved ELSE saved \ {n}
    /\ UNCHANGED <<local, watcher, schedule, caches, sites, late, touched, wasGone, faults>>

Claimed(n) ==
    /\ OnSite(n, "claimed") /\ Goes("sync")
    /\ saved' = saved \cup {n}
    /\ UNCHANGED <<local, watcher, schedule, caches, sites, there, faults>>

\* rsync, behind the guard's look at identity and marker.
Bound(n) == n \in marked \cap saved
Sends(n, content) == remote' = [remote EXCEPT ![n] = content]
RemoteSyncs(n) ==
    /\ OnSite(n, "sync") /\ Bound(n) /\ Goes("synced")
    /\ Sends(n, Content(job.snap))
    /\ touched' = touched \ {n}
    /\ wasGone' = IF source[n] = None THEN wasGone ELSE wasGone \ {n}
    /\ UNCHANGED <<local, watcher, schedule, caches, owned, marked, late, strays, faults>>
SyncRefused(n) ==
    /\ OnSite(n, "sync") /\ ~Bound(n)
    /\ Done(n, TRUE, {})
    /\ UNCHANGED <<local, watcher, schedule, caches, owned, there, faults>>

Synced(n) ==
    /\ OnSite(n, "synced")
    /\ published' = [published EXCEPT ![n] = job.snap]
    /\ expected' = [expected EXCEPT ![n] = job.snap]
    /\ verified' = [verified EXCEPT ![n] = None]
    /\ Done(n, FALSE, {})
    /\ UNCHANGED <<local, watcher, schedule, owned, there, faults>>
-----------------------------------------------------------------------------
(* inventory: every local site is scanned, one request asks for all.       *)
List ==
    /\ job.at = "list"
    /\ LET now == { n \in Names : source[n] # None }
       IN  job' = [job EXCEPT !.at = "audit", !.left = now, !.present = now]
    /\ UNCHANGED <<local, watcher, schedule, caches, owned, there, faults>>

\* A plausible wrong form: a signature that outlives the manifest it was taken for.
KeepsSignature(n) ==
    /\ job.at = "audit" /\ n \in job.left
    /\ IF source[n] = None
       THEN /\ job' = [job EXCEPT !.left = @ \ {n}]
            /\ UNCHANGED expected
       ELSE /\ job' = [job EXCEPT !.left = @ \ {n}, !.asked = @ \cup {n}]
            /\ expected' = [expected EXCEPT ![n] = source[n]]
    /\ UNCHANGED <<local, watcher, schedule, published, verified, owned, there, faults>>
\* The verified signature is good for a manifest, not for a new one.
AuditScan(n) ==
    /\ job.at = "audit" /\ n \in job.left
    /\ IF source[n] = None
       THEN /\ job' = [job EXCEPT !.left = @ \ {n}]
            /\ UNCHANGED <<expected, verified>>
       ELSE /\ job' = [job EXCEPT !.left = @ \ {n}, !.asked = @ \cup {n}]
            /\ expected' = [expected EXCEPT ![n] = source[n]]
            /\ verified' = [verified EXCEPT ![n] =
                               IF Content(source[n]) = Content(expected[n]) THEN @ ELSE None]
    /\ UNCHANGED <<local, watcher, schedule, published, owned, there, faults>>
AuditScanFails(n) ==
    /\ job.at = "audit" /\ n \in job.left /\ Fault
    /\ job' = [job EXCEPT !.left = @ \ {n}, !.failed = @ \cup {n}]
    /\ UNCHANGED <<local, watcher, schedule, caches, owned, there>>

\* Sites that are gone are forgotten before the request is sent.
Only(kept, f) == [n \in Names |-> IF n \in kept THEN f[n] ELSE None]
AuditListed ==
    /\ job.at = "audit" /\ job.left = {} /\ Goes("ask")
    /\ LET kept == job.asked \cup job.failed
       IN  /\ expected' = Only(kept, expected) /\ verified' = Only(kept, verified)
           /\ published' = [n \in Names |-> IF expected[n] # None /\ n \notin kept
                                            THEN None ELSE published[n]]
    /\ UNCHANGED <<local, watcher, schedule, owned, there, faults>>

\* guard.inventory(): nothing is read if the metadata is that of the last check.
Differs(n) == ~(Bound(n) /\ remote[n] \in {verified[n], Content(expected[n])})
RemoteAnswers ==
    /\ job.at = "ask"
    /\ LET different == { n \in job.asked : Differs(n) }
       IN  /\ job' = [at |-> "answered", left |-> {}, present |-> job.present, asked |-> job.asked,
                      failed |-> job.failed, different |-> different,
                      hashed |-> { n \in job.asked \ different : remote[n] # verified[n] }]
           /\ touched' = touched \ (job.asked \ different)
    /\ UNCHANGED <<local, watcher, schedule, caches, owned, remote, marked, late, strays, wasGone, faults>>

\* A plausible wrong form: what the listing lacks is nothing to repair.
OnlyDifferent == job.different
ToReconcile == job.different \cup
    { n \in Names : sites[n] = "deleting" \/ (sites[n] = "live" /\ n \notin job.present) }
Answered ==
    /\ job.at = "answered"
    /\ published' = [n \in Names |-> IF n \notin job.asked THEN published[n]
                                     ELSE IF n \in job.different THEN None ELSE expected[n]]
    /\ verified' = [n \in Names |-> IF n \in job.different THEN None
                                    ELSE IF n \in job.hashed THEN Content(expected[n])
                                    ELSE verified[n]]
    /\ Done("audit", FALSE, ToReconcile)
    /\ skipped' = job.failed
    /\ UNCHANGED <<dirty, background, backgroundTurn, force, retry, auditPending, armed>>
    /\ UNCHANGED <<local, watcher, expected, owned, there, faults>>
-----------------------------------------------------------------------------
(* What goes wrong. The connection fails before, during or after a request *)
(* runs; one that timed out may still run later (the guard is not killed   *)
(* with its connection, and rsync is).                                     *)
FailsAt == {"look", "scan", "probe", "remove", "removed", "claim", "claimed", "sync", "synced"}
SiteFails(n) ==
    /\ \E step \in FailsAt : OnSite(n, step)
    /\ Fault /\ Done(n, TRUE, {})
    /\ \/ job.at = "sync" /\ Bound(n) /\ Sends(n, Mixed) /\ UNCHANGED late
       \/ job.at = "remove" /\ remote[n] # None /\ Sends(n, Mixed) /\ UNCHANGED late
       \/ job.at \in {"remove", "claim"} /\ UNCHANGED remote
          /\ late' = late \cup {[what |-> job.at, name |-> n]}
       \/ UNCHANGED <<remote, late>>
    /\ UNCHANGED <<local, watcher, schedule, caches, owned, marked, touched, strays, wasGone>>

AuditFails ==
    /\ job.at \in {"list", "ask", "answered"}
    /\ Fault /\ Done("audit", TRUE, {})
    /\ skipped' = Names
    /\ UNCHANGED <<dirty, background, backgroundTurn, force, retry, auditPending, armed>>
    /\ UNCHANGED <<local, watcher, caches, owned, there>>

LateRemove(n) ==
    /\ [what |-> "remove", name |-> n] \in late
    /\ late' = late \ {[what |-> "remove", name |-> n]}
    /\ TakenDown(n)
    /\ touched' = touched \cup {n}
    /\ UNCHANGED <<local, watcher, schedule, job, caches, owned, wasGone, faults>>

\* With the token of its time, the present one or not.
LateClaim(n) ==
    /\ [what |-> "claim", name |-> n] \in late
    /\ late' = late \ {[what |-> "claim", name |-> n]}
    /\ remote' = [remote EXCEPT ![n] = IF @ = None THEN Mixed ELSE @]
    /\ strays' = IF remote[n] = None THEN strays \cup {n} ELSE strays
    /\ marked' \in {marked, marked \ {n}}
    /\ touched' = touched \cup {n}
    /\ UNCHANGED <<local, watcher, schedule, job, caches, owned, wasGone, faults>>

\* Others change, replace or delete a directory of the remote host.
Touch(n) ==
    /\ Fault /\ remote[n] # None
    /\ \/ Sends(n, Mixed) /\ marked' \in {marked, marked \ {n}} /\ UNCHANGED strays
       \/ TakenDown(n)
    /\ touched' = touched \cup {n}
    /\ UNCHANGED <<local, watcher, schedule, job, caches, owned, late, wasGone>>

\* The process ends, by itself or not, and the service starts it again.
Crash ==
    /\ Fault
    /\ kernel' = {} /\ lost' = FALSE /\ topology' = FALSE /\ coverageLost' = FALSE
    /\ dirty' = {} /\ background' = {} /\ backgroundTurn' = TRUE /\ force' = {} /\ retry' = {}
    /\ auditPending' = TRUE /\ armed' = FALSE /\ skipped' = {} /\ job' = Idle
    /\ published' = NoVersion /\ expected' = NoVersion /\ verified' = NoVersion
    /\ unwatched' = {}
    /\ UNCHANGED <<source, edited, owned, there>>
-----------------------------------------------------------------------------
Works(n) ==
    \/ Look(n) \/ ScanSite(n) \/ Probed(n)
    \/ RemoteRemoves(n) \/ Removed(n) \/ RemoteClaims(n) \/ Claimed(n)
    \/ RemoteSyncs(n) \/ SyncRefused(n) \/ Synced(n) \/ AuditScan(n)
Audits == List \/ AuditListed \/ RemoteAnswers \/ Answered

Environment ==
    \/ \E n \in Names : \/ \E v \in Versions : Edit(n, v)
                        \/ LateRemove(n) \/ LateClaim(n) \/ Touch(n)
                        \/ SiteFails(n) \/ AuditScanFails(n)
    \/ AuditFails \/ Crash

PublisherNext ==
    \/ Observe \/ Complete \/ SubmitAudit
    \/ \E n \in Names : SubmitSite(n) \/ Works(n)
    \/ Audits \/ Environment

PublisherSpec == PublisherInit /\ [][PublisherNext]_publisherVars

\* Both threads run, and a request that is not lost is answered. A dirty site
\* settles and the background is a queue: a site that waits is taken, though
\* an overdue inventory may come first. Nothing is assumed of the environment.
Fairness ==
    /\ WF_publisherVars(Observe) /\ WF_publisherVars(Complete)
    /\ WF_publisherVars(SubmitAudit) /\ WF_publisherVars(Audits)
    /\ \A n \in Names : SF_publisherVars(SubmitSite(n)) /\ WF_publisherVars(Works(n))

FairSpec == PublisherSpec /\ Fairness
-----------------------------------------------------------------------------
SiteJobs == [at : FailsAt, name : Names, forced : BOOLEAN, snap : Versions \cup {None}]
ListJobs == [at : {"list", "audit", "ask"}, left : SUBSET Names, present : SUBSET Names,
             asked : SUBSET Names, failed : SUBSET Names]
AnsweredJobs == [at : {"answered"}, left : SUBSET Names, present : SUBSET Names,
                 asked : SUBSET Names, failed : SUBSET Names, different : SUBSET Names,
                 hashed : SUBSET Names]
DoneJobs == [at : {"done"}, of : Names \cup {"audit"}, failed : BOOLEAN, repairs : SUBSET Names]

\* The type of every variable.
PublisherTypeOK ==
    LET versions == [Names -> Versions \cup {None}]
        contents == [Names -> { ContentOf[v] : v \in Versions } \cup {None, Mixed}]
    IN  /\ {source, published, expected} \subseteq versions
        /\ {remote, verified} \subseteq contents
        /\ edited \in Versions \cup {0} /\ faults \in 0..MaxFaults
        /\ {unwatched, kernel, dirty, background, force, retry, saved, marked, touched, strays,
            wasGone, skipped} \subseteq SUBSET Names
        /\ {lost, topology, coverageLost, backgroundTurn, auditPending, armed} \subseteq BOOLEAN
        /\ sites \in [Names -> {"no", "live", "deleting"}]
        /\ late \subseteq [what : {"remove", "claim"}, name : Names]
        /\ job \in {Idle} \cup SiteJobs \cup ListJobs \cup AnsweredJobs \cup DoneJobs

\* The cache of what was published is never wrong about the remote host: a site
\* it calls published has that content there, unless others touched it since. No
\* transfer that failed half way, no lost reply, no stale inventory and no
\* restart leaves it believing otherwise (reconcile_site, inventory).
CacheIsTrue ==
    \A n \in Names : published[n] # None /\ n \notin touched =>
        remote[n] = Content(published[n])

\* A site whose local tree is not the one the cache calls published is about to
\* be looked at: its change is queued in inotify or in the process, its job has
\* not scanned yet, an inventory is due or has not come to it, or the last one
\* could not tell. A change that none of these holds would be skipped as
\* unchanged (Watcher.rebuild, Pending, reconcile_site).
Queued(n) == n \in kernel \cup dirty \cup background \cup retry
Unscanned(n) == OnSite(n, "look") \/ OnSite(n, "scan")
InventoryComes(n) ==
    \/ lost \/ coverageLost \/ auditPending \/ n \in skipped
    \/ job.at = "list"
    \/ job.at \in {"audit", "ask", "answered"} /\ (n \in job.asked => expected[n] = source[n])
    \/ job.at = "done" /\ job.of \in {n, "audit"} /\ (job.failed \/ n \in job.repairs)
ChangesAreSeen ==
    \A n \in Names : published[n] \notin {None, source[n]} =>
        Queued(n) \/ Unscanned(n) \/ InventoryComes(n)

\* A directory the publisher made is in ownership.json until it is gone, over
\* every crash and lost reply, so that a site that disappears locally is taken
\* down (add_site, remove_site); directories of late requests apart.
OwnedIsTracked ==
    \A n \in Names : remote[n] # None /\ n \notin strays => sites[n] # "no"

\* The publisher asks only for the removal of a site that was missing locally
\* since it was last sent, however old the inventory or the job that decides, and
\* takes down none that it has not asked for: a removal that runs at once meets
\* such a site, and one whose sender gave up was sent for such a site (remove_site).
\* What stands there when the late one runs is another matter: see LiveStaysUp.
LateRemoval(n) == [what |-> "remove", name |-> n]
TakesDown(n) == remote[n] # None /\ remote'[n] = None
NeverTakenDown ==
    [][ \A n \in Names :
            /\ TakesDown(n) => n \in wasGone \/ LateRemoval(n) \in late \/ Touch(n)
            /\ LateRemoval(n) \in late' \ late => n \in wasGone ]_publisherVars

\* Whatever takes a site down, others apart, it was missing since it was last
\* sent: docs/PUBLISHING.md:84 removes "previously tracked sites deleted locally".
\* A removal that comes after its retry, the return of the site and its transfer
\* breaks this: the guard looks at no token (guard.py:182-216).
LiveStaysUp ==
    [][ \A n \in Names : TakesDown(n) => n \in wasGone \/ Touch(n) ]_publisherVars

\* When no one edits or touches anything any more, the remote sites end up as
\* the local ones (Publisher.run), as long as the inventories keep their pace:
\* from some time on none falls due while another one runs. One that is due goes
\* before every repair and retry (service.py:112-125).
Mirrored == \A n \in Names : n \in strays \/ remote[n] = Content(source[n])
Prompt == <>[]~(Auditing /\ auditPending)
Converges == Prompt => <>[]Mirrored

\* Claimed by docs/PUBLISHING.md:159, "failed transfers/deletions retry": the mirror
\* converges, however long inventories
\* take.
AlwaysConverges == <>[]Mirrored
=============================================================================
