--------------------------- MODULE ProviderReload ---------------------------
(***************************************************************************)
(* Provider settings that change under a running bot.  provider_reload.py  *)
(* polls the environment file, keeps a valid edit pending until nothing    *)
(* uses a provider, swaps the main provider and drops the role providers   *)
(* in one step, and closes the displaced ones from the control loop.  The  *)
(* users are the turns and the background jobs, which read the main        *)
(* provider anew at every call; the keepers (the autonomy tick, REM, the   *)
(* watcher of the context, the summaries), which fetch the provider of     *)
(* their role once and hold it; and the loose callers (a ringing call, the *)
(* onboarding) with a single request.  A provider is known by the order of *)
(* its creation.  A version of the file is known by its number, which is   *)
(* also its stamp.                                                         *)
(***************************************************************************)
EXTENDS Naturals, FiniteSets

CONSTANTS
    Turns, Jobs, Keepers, Loose,
    Roles, RoleOf,      \* keeper -> the role whose provider it asks for
    Edits,              \* bound: how often the file is edited
    ContentOf,          \* version of the file -> settings, or Rejected
    Unbuildable,        \* settings that parse but construct no provider
    OwnProfile,         \* settings with an endpoint of its own for every role
    Rejected, None,
    MaxFaults           \* bound: file operations that fail

Users == Turns \cup Jobs \cup Keepers \cup Loose
Settings == { ContentOf[n] : n \in 0..Edits } \ {Rejected}

ASSUME ReloadAssumption ==
    /\ RoleOf \in [Keepers -> Roles] /\ "main" \notin Roles
    /\ Edits \in Nat /\ MaxFaults \in Nat /\ DOMAIN ContentOf = 0..Edits
    /\ ContentOf[0] \in Settings \ Unbuildable
    /\ None \notin Nat \cup Settings
    /\ Turns \cap Jobs = {} /\ (Turns \cup Jobs) \cap Keepers = {}
    /\ (Turns \cup Jobs \cup Keepers) \cap Loose = {}

VARIABLES
    file,       \* the version of the environment file
    faults,
    reload,     \* ProviderReload: checked, pending, applied, status
    made,       \* providers constructed so far
    current,    \* ai_provider and the role providers
    retired,    \* _retired_providers
    closed,     \* providers whose close() has begun
    closing,    \* what is left of close_retired_providers' snapshot
    awaited,    \* the provider whose close() it awaits, or None
    at,         \* user -> where it is
    held,       \* user -> the provider object it holds, or None
    first,      \* history: user -> the provider of its round's first call
    cancelled   \* jobs marked cancelled whose worker still winds up

fileVars == <<file, faults, reload>>
providerVars == <<made, current, retired>>
closerVars == <<closed, closing, awaited>>
userVars == <<at, held, first, cancelled>>
vars == <<fileVars, providerVars, closerVars, userVars>>

(* queued: the turn's task exists and has not run.  between: inside a      *)
(* round, with no request.  calling: a tracked request.  started: a keeper *)
(* without a provider.  setup: it awaits initialize().  holding: it has    *)
(* its provider and waits for a slot, or for its next request.             *)
Places == {"off", "queued", "between", "calling", "started", "setup", "holding"}

Init == /\ file = 0 /\ faults = 0
        /\ reload = [checked |-> None, pending |-> None,
                     applied |-> ContentOf[0], status |-> "unchanged"]
        /\ made = 1
        /\ current = [r \in Roles \cup {"main"} |-> IF r = "main" THEN 1 ELSE None]
        /\ retired = {} /\ closed = {} /\ closing = {} /\ awaited = None
        /\ at = [a \in Users |-> "off"]
        /\ held = [a \in Users |-> None]
        /\ first = [a \in Users |-> None]
        /\ cancelled = {}
-----------------------------------------------------------------------------
On(A) == { a \in A : at[a] # "off" }
InUse == { current[r] : r \in DOMAIN current } \ {None}
Requests(p) == { a \in Users : at[a] \in {"calling", "setup"} /\ held[a] = p }

(* Plausible wrong forms of the definitions below.                         *)
\* A keeper between two requests has no mark.
ForgetsKeepers(excluding) == /\ On((Turns \cup Jobs) \ excluding) = {}
                             /\ \A p \in InUse \cup retired : Requests(p) = {}
\* Only active jobs count, not those that are winding up.
CountsRecords(excluding) == /\ On((Turns \cup Keepers) \ excluding) = {}
                            /\ On(Jobs) \subseteq cancelled
                            /\ \A p \in InUse \cup retired : Requests(p) = {}
\* An edit that finds the bot busy is dropped.
Refused(r) == [r EXCEPT !.pending = None]
-----------------------------------------------------------------------------
(* providers_idle: no turn but the caller's own, no keeper, no job or its  *)
(* worker, no request of any provider the bot still knows.                 *)
Idle(excluding) == /\ On((Turns \cup Keepers) \ excluding) = {}
                   /\ On(Jobs) \ cancelled = {}
                   /\ On(Jobs) = {}
                   /\ \A p \in InUse \cup retired : Requests(p) = {}

(* poll(): a version that was read already changes nothing.                *)
Polled ==
    LET content == ContentOf[file]
        read == [reload EXCEPT !.checked = file]
    IN  IF reload.checked = file THEN reload
        ELSE IF content = Rejected
        THEN [read EXCEPT !.pending = None, !.status = "rejected"]
        ELSE IF content = reload.applied
        THEN [read EXCEPT !.pending = None, !.status = "unchanged"]
        ELSE [read EXCEPT !.pending = content, !.status = "pending idle"]

Displaced == InUse

(* The swap: one step, without an await.                                   *)
Swap(r) == /\ made' = made + 1
           /\ current' = [q \in DOMAIN current |->
                            IF q = "main" THEN made + 1 ELSE None]
           /\ retired' = retired \cup Displaced
           /\ reload' = [r EXCEPT !.applied = r.pending, !.pending = None,
                                  !.status = "applied"]

KeptPending(r) == r

(* apply_provider_reload.  The file cannot be read, or is written while it *)
(* is being read, or it is read.                                           *)
Apply(excluding) ==
    \/ /\ faults < MaxFaults
       /\ faults' = faults + 1
       /\ reload' = [reload EXCEPT !.pending = None, !.status = "rejected"]
       /\ UNCHANGED <<file, providerVars>>
    \/ /\ reload.checked # file /\ file < Edits
       /\ file' = file + 1
       /\ reload' = [reload EXCEPT !.pending = None, !.status = "editing"]
       /\ UNCHANGED <<faults, providerVars>>
    \/ /\ CASE Polled.pending = None ->
                 reload' = Polled /\ UNCHANGED providerVars
            [] Polled.pending # None /\ ~Idle(excluding) ->
                 reload' = KeptPending(Polled) /\ UNCHANGED providerVars
            [] Polled.pending \in Unbuildable /\ Idle(excluding) ->
                 /\ reload' = [Polled EXCEPT !.pending = None, !.status = "rejected"]
                 /\ UNCHANGED providerVars
            [] OTHER -> Swap(Polled)
       /\ UNCHANGED <<file, faults>>

(* The operator saves the file.                                            *)
Edit == /\ file < Edits
        /\ file' = file + 1
        /\ UNCHANGED <<faults, reload, providerVars, closerVars, userVars>>

(* on_message tries, whatever the message is.                              *)
Message == Apply({}) /\ UNCHANGED <<closerVars, userVars>>

(* _control_reload_loop: every five seconds it tries, and when nothing is  *)
(* in use it closes what had been retired, one after the other.            *)
ControlTick ==
    /\ closing = {} /\ awaited = None
    /\ Apply({})
    /\ closing' = IF Idle({}) THEN retired' ELSE {}
    /\ UNCHANGED <<closed, awaited, userVars>>

CloseNext(p) ==
    /\ p \in closing /\ awaited = None
    /\ closing' = closing \ {p}
    /\ IF Requests(p) = {} THEN awaited' = p /\ closed' = closed \cup {p}
       ELSE UNCHANGED <<awaited, closed>>
    /\ UNCHANGED <<fileVars, providerVars, userVars>>

(* close() returns; or it raises, and the control loop gives up this time. *)
CloseReturns == /\ awaited # None
                /\ retired' = retired \ {awaited}
                /\ awaited' = None
                /\ UNCHANGED <<fileVars, made, current, closed, closing, userVars>>

CloseRaises == /\ awaited # None
               /\ awaited' = None /\ closing' = {}
               /\ UNCHANGED <<fileVars, providerVars, closed, userVars>>
-----------------------------------------------------------------------------
World == <<fileVars, providerVars, closerVars>>
Place(a, p) == at' = [at EXCEPT ![a] = p]
Hold(a, p) == held' = [held EXCEPT ![a] = p]

(* The queue creates the task of a turn; the turn tries to reload first.   *)
TurnQueued(t) == /\ at[t] = "off" /\ Place(t, "queued")
                 /\ UNCHANGED <<World, held, first, cancelled>>

TurnBegins(t) == /\ at[t] = "queued" /\ Place(t, "between")
                 /\ Apply({t})
                 /\ UNCHANGED <<closerVars, held, first, cancelled>>

JobCreated(j) == /\ at[j] = "off" /\ Place(j, "between")
                 /\ UNCHANGED <<World, held, first, cancelled>>

(* _generate_response of a round, and of a loose caller.                   *)
Calls(a) == /\ \/ a \in Turns \cup Jobs /\ at[a] = "between"
               \/ a \in Loose /\ at[a] = "off"
            /\ Place(a, "calling") /\ Hold(a, current["main"])
            /\ first' = IF first[a] = None /\ a \notin Loose
                        THEN [first EXCEPT ![a] = current["main"]] ELSE first
            /\ UNCHANGED <<World, cancelled>>

Answered(a) == /\ a \in Turns \cup Jobs /\ at[a] = "calling"
               /\ Place(a, "between") /\ Hold(a, None)
               /\ UNCHANGED <<World, first, cancelled>>

(* "!stop job": the record is cancelled at once, the worker winds up.      *)
CancelJob(j) == /\ at[j] # "off" /\ cancelled' = cancelled \cup {j}
                /\ UNCHANGED <<World, at, held, first>>

(* A keeper raises its mark, then asks for the provider of its role.       *)
Starts(k) == /\ at[k] = "off" /\ Place(k, "started")
             /\ UNCHANGED <<World, held, first, cancelled>>

(* _get_autonomy_provider, _get_aux_provider: the main provider without an *)
(* own profile; else the role's, created if there is none, and awaited     *)
(* until it is initialized.  An available one is handed out at once.       *)
Fetches(k) ==
    LET role == RoleOf[k]
        own == current[role]
    IN  /\ at[k] = "started"
        /\ CASE reload.applied \notin OwnProfile ->
                  /\ Place(k, "holding") /\ Hold(k, current["main"])
                  /\ UNCHANGED <<made, current>>
             [] reload.applied \in OwnProfile /\ own = None ->
                  /\ Place(k, "setup") /\ Hold(k, made + 1)
                  /\ made' = made + 1
                  /\ current' = [current EXCEPT ![role] = made + 1]
             [] OTHER ->
                  /\ \E p \in {"setup", "holding"} : Place(k, p)
                  /\ Hold(k, own)
                  /\ UNCHANGED <<made, current>>
        /\ UNCHANGED <<fileVars, retired, closerVars, first, cancelled>>

(* Its requests, with gaps in which it only holds the object.              *)
KeeperMoves(k) == /\ \/ at[k] \in {"setup", "calling"} /\ Place(k, "holding")
                     \/ at[k] = "holding" /\ Place(k, "calling")
                  /\ UNCHANGED <<World, held, first, cancelled>>

(* The planner asks for its provider again in the next round of a tick.    *)
AsksAgain(k) == /\ at[k] = "holding" /\ Place(k, "started") /\ Hold(k, None)
                /\ UNCHANGED <<World, first, cancelled>>

(* A user ends, by itself, cancelled or failed, wherever it is.            *)
Ends(a) == /\ at[a] # "off" /\ Place(a, "off") /\ Hold(a, None)
           /\ first' = [first EXCEPT ![a] = None]
           /\ cancelled' = cancelled \ {a}
           /\ UNCHANGED World

Next == \/ Edit \/ Message \/ ControlTick
        \/ \E p \in closing : CloseNext(p)
        \/ CloseReturns \/ CloseRaises
        \/ \E t \in Turns : TurnQueued(t) \/ TurnBegins(t)
        \/ \E j \in Jobs : JobCreated(j) \/ CancelJob(j)
        \/ \E k \in Keepers : Starts(k) \/ Fetches(k) \/ KeeperMoves(k) \/ AsksAgain(k)
        \/ \E a \in Users : Calls(a) \/ Answered(a) \/ Ends(a)

Spec == Init /\ [][Next]_vars

(* The control loop never stops, and a close returns or raises.            *)
FairSpec == Spec /\ WF_vars(ControlTick)
                 /\ WF_vars(\E p \in closing : CloseNext(p))
                 /\ WF_vars(CloseReturns \/ CloseRaises)
-----------------------------------------------------------------------------
(* The shape of the state: there always is a main provider, and applied is *)
(* always a set of settings that was valid.                                *)
TypeOK ==
    /\ file \in 0..Edits /\ faults \in 0..MaxFaults
    /\ reload \in [checked : 0..Edits \cup {None}, pending : Settings \cup {None},
                   applied : Settings,
                   status : {"unchanged", "rejected", "pending idle", "editing",
                             "applied"}]
    /\ made \in Nat \ {0}
    /\ current \in [Roles \cup {"main"} -> 1..made \cup {None}]
    /\ current["main"] \in 1..made
    /\ retired \subseteq 1..made /\ closed \subseteq 1..made
    /\ closing \subseteq 1..made /\ awaited \in closed \cup {None}
    /\ at \in [Users -> Places]
    /\ held \in [Users -> 1..made \cup {None}]
    /\ first \in [Users -> 1..made \cup {None}]
    /\ cancelled \subseteq Jobs

(* No transport is closed under its user: a closed one would be opened     *)
(* again by the next request, and nothing would ever close it              *)
(* (provider_reload.py:104-121 and 156-167, providers.py:1870).            *)
InUseIsOpen == \A a \in Users : held[a] # None => held[a] \notin closed

(* A round is answered by one provider from its first request to its last, *)
(* with everything that happens between its requests: a turn never mixes   *)
(* two models, and neither does a job (provider_reload.py:104-121).        *)
OneProviderPerRound ==
    \A a \in Turns \cup Jobs : held[a] # None => held[a] = first[a]

(* Every provider ever constructed is in use, waits to be closed or has    *)
(* been closed: none is dropped with its session open                      *)
(* (provider_reload.py:141-148).                                           *)
NoneIsForgotten == 1..made \subseteq InUse \cup retired \cup closed

(* A valid edit is never silently forgotten: once nothing uses a provider  *)
(* any more, it is applied, or "!debug" shows that it was rejected.        *)
Quiet == On(Users) = {}
Buildable == ContentOf[file] \in Settings \ Unbuildable
EditApplied ==
    <>[]Quiet => <>[](Buildable /\ reload.status # "rejected"
                        => reload.applied = ContentOf[file])
=============================================================================
