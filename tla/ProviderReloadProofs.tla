------------------------ MODULE ProviderReloadProofs ------------------------
(***************************************************************************)
(* What a reload of the settings never does, for any number of users,      *)
(* roles, edits and failures: close a provider under its user, answer one  *)
(* round with two providers, or lose an open provider.                     *)
(***************************************************************************)
EXTENDS ProviderReload, TLAPS

Reload == [checked : 0..Edits \cup {None}, pending : Settings \cup {None},
           applied : Settings,
           status : {"unchanged", "rejected", "pending idle", "editing", "applied"}]
Provider == 1..made
Old == retired \cup closed \cup closing

(* Where a user can be with a provider in its hands.                       *)
Placed ==
    \A a \in Users :
        /\ held[a] # None => at[a] \in {"calling", "setup", "holding"}
        /\ a \in Loose => at[a] \in {"off", "calling"}
        /\ at[a] \in {"off", "queued"} => first[a] = None

(* Whoever holds a provider holds one that is in use: this is what a check *)
(* for idle has to guarantee, and what makes an old provider nobody's.     *)
HoldsCurrent == \A a \in Users : held[a] # None => held[a] \in InUse
MainIsFirst == \A a \in Turns \cup Jobs :
                   /\ first[a] # None => first[a] = current["main"]
                   /\ held[a] # None => held[a] = first[a]
Apart == InUse \cap Old = {}

Inv == TypeOK /\ Placed /\ HoldsCurrent /\ MainIsFirst /\ Apart /\ NoneIsForgotten
-----------------------------------------------------------------------------
(* What an attempt to reload does to the providers: nothing, or a swap at a*)
(* moment when nobody uses one.                                            *)
Swapped(excluding) ==
    /\ Idle(excluding)
    /\ made' = made + 1
    /\ current' = [q \in DOMAIN current |-> IF q = "main" THEN made + 1 ELSE None]
    /\ retired' = retired \cup Displaced

LEMMA InUseIs ==
    ASSUME TypeOK
    PROVE  /\ InUse \subseteq 1..made
           /\ \A q \in Roles \cup {"main"} : current[q] # None => current[q] \in InUse
<1>1. current \in [Roles \cup {"main"} -> 1..made \cup {None}]
  BY DEF TypeOK
<1>2. DOMAIN current = Roles \cup {"main"}
  BY <1>1
<1> QED
  BY <1>1, <1>2 DEF InUse

LEMMA PolledIsTyped ==
    ASSUME TypeOK
    PROVE  Polled \in Reload
<1>1. ContentOf[file] # Rejected => ContentOf[file] \in Settings
  BY DEF TypeOK, Settings
<1> QED
  BY <1>1 DEF TypeOK, Polled, Reload

LEMMA ApplyEffect ==
    ASSUME TypeOK, NEW excluding, Apply(excluding)
    PROVE  /\ file' \in 0..Edits /\ faults' \in 0..MaxFaults
           /\ reload' \in Reload
           /\ UNCHANGED providerVars \/ Swapped(excluding)
<1>t. reload \in Reload
  BY DEF TypeOK, Reload
<1>b. file \in 0..Edits /\ faults \in 0..MaxFaults /\ Edits \in Nat /\ MaxFaults \in Nat
  BY ReloadAssumption DEF TypeOK
<1>1. CASE /\ faults < MaxFaults
           /\ faults' = faults + 1
           /\ reload' = [reload EXCEPT !.pending = None, !.status = "rejected"]
           /\ UNCHANGED <<file, providerVars>>
  <2>1. faults' \in 0..MaxFaults /\ file' \in 0..Edits
    BY <1>1, <1>b
  <2>2. reload' \in Reload
    BY <1>1, <1>t DEF Reload
  <2> QED
    BY <1>1, <2>1, <2>2
<1>2. CASE /\ reload.checked # file /\ file < Edits
           /\ file' = file + 1
           /\ reload' = [reload EXCEPT !.pending = None, !.status = "editing"]
           /\ UNCHANGED <<faults, providerVars>>
  <2>1. faults' \in 0..MaxFaults /\ file' \in 0..Edits
    BY <1>2, <1>b
  <2>2. reload' \in Reload
    BY <1>2, <1>t DEF Reload
  <2> QED
    BY <1>2, <2>1, <2>2
<1>3. CASE UNCHANGED <<file, faults>>
           /\ reload' = Polled /\ UNCHANGED providerVars
  BY <1>3, PolledIsTyped DEF TypeOK
<1>4. CASE UNCHANGED <<file, faults>>
           /\ reload' = [Polled EXCEPT !.pending = None, !.status = "rejected"]
           /\ UNCHANGED providerVars
  BY <1>4, PolledIsTyped DEF TypeOK, Reload
<1>5. CASE UNCHANGED <<file, faults>> /\ Polled.pending # None
           /\ Idle(excluding) /\ Swap(Polled)
  BY <1>5, PolledIsTyped DEF TypeOK, Swap, Swapped, Reload
<1>6. \/ UNCHANGED <<file, faults>>
            /\ reload' = Polled /\ UNCHANGED providerVars
      \/ UNCHANGED <<file, faults>>
            /\ reload' = [Polled EXCEPT !.pending = None, !.status = "rejected"]
            /\ UNCHANGED providerVars
      \/ UNCHANGED <<file, faults>> /\ Polled.pending # None
            /\ Idle(excluding) /\ Swap(Polled)
      \/ /\ faults < MaxFaults
         /\ faults' = faults + 1
         /\ reload' = [reload EXCEPT !.pending = None, !.status = "rejected"]
         /\ UNCHANGED <<file, providerVars>>
      \/ /\ reload.checked # file /\ file < Edits
         /\ file' = file + 1
         /\ reload' = [reload EXCEPT !.pending = None, !.status = "editing"]
         /\ UNCHANGED <<faults, providerVars>>
  BY DEF Apply, KeptPending
<1> QED
  BY <1>1, <1>2, <1>3, <1>4, <1>5, <1>6

(* When the bot is idle nobody holds a provider, whoever is left out of the*)
(* count as long as it holds none itself.                                  *)
LEMMA IdleHoldsNothing ==
    ASSUME Inv, NEW excluding, Idle(excluding),
           \A a \in excluding : at[a] \in {"off", "queued"}
    PROVE  \A a \in Users : held[a] = None /\ (a \in Turns \cup Jobs => first[a] = None)
<1> SUFFICES ASSUME NEW a \in Users
             PROVE  held[a] = None /\ (a \in Turns \cup Jobs => first[a] = None)
  OBVIOUS
<1>1. CASE a \in Turns \cup Jobs \cup Keepers
  <2>1. at[a] \in {"off", "queued"}
    BY <1>1 DEF Idle, On
  <2> QED
    BY <2>1 DEF Inv, Placed
<1>2. CASE a \in Loose
  <2>1. held[a] # None => at[a] = "calling" /\ held[a] \in InUse
    BY <1>2 DEF Inv, Placed, HoldsCurrent
  <2>2. held[a] \in InUse => ~(at[a] = "calling")
    BY DEF Idle, Requests
  <2>3. a \notin Turns \cup Jobs
    BY <1>2, ReloadAssumption
  <2> QED
    BY <2>1, <2>2, <2>3
<1> QED
  BY <1>1, <1>2 DEF Users

(* The providers after a swap: one new, everything before it old.          *)
LEMMA SwapEffect ==
    ASSUME Inv, NEW excluding, Swapped(excluding)
    PROVE  /\ made' \in Nat \ {0} /\ Provider \subseteq Provider' /\ made' \in Provider'
           /\ current' \in [Roles \cup {"main"} -> 1..made' \cup {None}]
           /\ current'["main"] = made' /\ InUse' = {made'}
           /\ retired' = retired \cup InUse /\ InUse \subseteq Provider
           /\ made' \notin Provider
           /\ Provider' = Provider \cup {made'}
<1> USE ReloadAssumption
<1>1. made \in Nat \ {0} /\ current \in [Roles \cup {"main"} -> 1..made \cup {None}]
  BY DEF Inv, TypeOK
<1>2. made' = made + 1 /\ retired' = retired \cup InUse
  BY DEF Swapped, Displaced
<1>3. current' = [q \in Roles \cup {"main"} |-> IF q = "main" THEN made + 1 ELSE None]
  BY <1>1 DEF Swapped
<1>4. InUse' = {made + 1}
  <2>1. DOMAIN current' = Roles \cup {"main"} /\ current'["main"] = made + 1
    BY <1>3
  <2>2. \A q \in Roles \cup {"main"} : current'[q] \in {made + 1, None}
    BY <1>3
  <2>3. made + 1 # None
    BY <1>1
  <2> QED
    BY <2>1, <2>2, <2>3 DEF InUse
<1>5. InUse \subseteq Provider
  BY <1>1 DEF InUse, Provider
<1> QED
  BY <1>1, <1>2, <1>3, <1>4, <1>5 DEF Provider
-----------------------------------------------------------------------------
WorldTypes ==
    /\ file \in 0..Edits /\ faults \in 0..MaxFaults /\ reload \in Reload
    /\ made \in Nat \ {0}
    /\ current \in [Roles \cup {"main"} -> 1..made \cup {None}]
    /\ current["main"] \in 1..made
    /\ retired \subseteq 1..made /\ closed \subseteq 1..made
    /\ closing \subseteq 1..made /\ awaited \in closed \cup {None}
UserTypes ==
    /\ at \in [Users -> Places]
    /\ held \in [Users -> 1..made \cup {None}]
    /\ first \in [Users -> 1..made \cup {None}]
    /\ cancelled \subseteq Jobs
ProvidersInv == WorldTypes /\ Apart /\ NoneIsForgotten
UserInv == UserTypes /\ Placed /\ HoldsCurrent /\ MainIsFirst

LEMMA InvSplits == Inv <=> ProvidersInv /\ UserInv
BY DEF Inv, ProvidersInv, UserInv, TypeOK, WorldTypes, UserTypes, Reload

LEMMA InvPrime == ProvidersInv' /\ UserInv' => Inv'
BY DEF Inv, ProvidersInv, UserInv, TypeOK, WorldTypes, UserTypes, Reload

(* An attempt to reload keeps the providers in order; if it swaps them     *)
(* nobody holds one.                                                       *)
LEMMA ApplyKeeps ==
    ASSUME Inv, NEW excluding, Apply(excluding),
           \A a \in excluding : at[a] \in {"off", "queued"},
           closed' = closed, awaited' = awaited, closing' \in {closing, retired', {}}
    PROVE  /\ ProvidersInv' /\ 1..made \subseteq 1..made'
           /\ \/ InUse' = InUse /\ current' = current
              \/ \A a \in Users : held[a] = None /\ (a \in Turns \cup Jobs => first[a] = None)
<1>1. /\ retired \subseteq Provider /\ closed \subseteq Provider
      /\ closing \subseteq Provider /\ awaited \in closed \cup {None}
      /\ made \in Nat \ {0}
      /\ current \in [Roles \cup {"main"} -> Provider \cup {None}]
      /\ current["main"] \in Provider
  BY DEF Inv, TypeOK, Provider
<1>2. TypeOK
  BY DEF Inv
<1>3. /\ file' \in 0..Edits /\ faults' \in 0..MaxFaults /\ reload' \in Reload
      /\ UNCHANGED providerVars \/ Swapped(excluding)
  BY <1>2, ApplyEffect
<1>4. CASE UNCHANGED providerVars
  <2>1. WorldTypes'
    BY <1>1, <1>3, <1>4 DEF WorldTypes, providerVars, Provider
  <2>2. InUse' = InUse /\ Old' \subseteq Old
    BY <1>4 DEF InUse, Old, providerVars
  <2>3. Apart' /\ NoneIsForgotten'
    BY <1>4, <2>2 DEF Inv, Apart, NoneIsForgotten, providerVars
  <2> QED
    BY <1>4, <2>1, <2>2, <2>3 DEF ProvidersInv, providerVars
<1>5. CASE Swapped(excluding)
  <2>1. /\ Provider' = Provider \cup {made'} /\ made' \notin Provider
        /\ InUse' = {made'} /\ InUse \subseteq Provider
        /\ retired' = retired \cup InUse
        /\ current' \in [Roles \cup {"main"} -> Provider' \cup {None}]
        /\ current'["main"] = made' /\ made' \in Nat \ {0}
    BY <1>5, SwapEffect DEF Provider
  <2>2. /\ retired' \subseteq Provider' /\ closed' \subseteq Provider'
        /\ closing' \subseteq Provider' /\ awaited' \in closed' \cup {None}
    BY <1>1, <2>1
  <2>3. WorldTypes'
    BY <1>3, <2>1, <2>2 DEF WorldTypes, Provider
  <2>4. Apart'
    BY <1>1, <2>1 DEF Apart, Old
  <2>5. NoneIsForgotten'
    <3>1. Provider \subseteq InUse \cup retired \cup closed
      BY DEF Inv, NoneIsForgotten, Provider
    <3>2. Provider' \subseteq InUse' \cup retired' \cup closed'
      BY <2>1, <3>1
    <3> QED
      BY <3>2 DEF NoneIsForgotten, Provider
  <2>6. \A a \in Users : held[a] = None /\ (a \in Turns \cup Jobs => first[a] = None)
    BY <1>5, IdleHoldsNothing DEF Swapped
  <2> QED
    BY <2>1, <2>3, <2>4, <2>5, <2>6 DEF ProvidersInv, Provider
<1> QED
  BY <1>3, <1>4, <1>5

(* A step that moves no user, and after which the providers in use are the *)
(* same or nobody's.                                                       *)
LEMMA UsersStay ==
    ASSUME Inv, UNCHANGED userVars, 1..made \subseteq 1..made',
           \/ InUse' = InUse /\ current' = current
           \/ \A a \in Users : held[a] = None /\ (a \in Turns \cup Jobs => first[a] = None)
    PROVE  UserInv'
<1>1. UserTypes'
  BY DEF Inv, TypeOK, UserTypes, userVars
<1>2. Placed'
  BY DEF Inv, Placed, userVars
<1>3. HoldsCurrent'
  BY DEF Inv, HoldsCurrent, userVars
<1>4. MainIsFirst'
  BY DEF Inv, MainIsFirst, userVars, Users
<1> QED
  BY <1>1, <1>2, <1>3, <1>4 DEF UserInv

(* A step that leaves the providers alone.                                 *)
LEMMA WorldStays ==
    ASSUME Inv, UNCHANGED World
    PROVE  ProvidersInv' /\ InUse' = InUse /\ current' = current /\ made' = made
<1>1. WorldTypes'
  BY InvSplits DEF ProvidersInv, WorldTypes, World, fileVars, providerVars, closerVars
<1>2. InUse' = InUse /\ Old' = Old
  BY DEF World, providerVars, closerVars, InUse, Old
<1>3. Apart' /\ NoneIsForgotten'
  BY <1>2 DEF Inv, World, providerVars, closerVars, Apart, NoneIsForgotten
<1> QED
  BY <1>1, <1>2, <1>3 DEF ProvidersInv, World, providerVars

(* A step of one user, which takes a provider in use or none.              *)
LEMMA UserMoves ==
    ASSUME Inv, UNCHANGED World, NEW a \in Users, cancelled' \subseteq Jobs,
           at' \in [Users -> Places],
           held' \in [Users -> 1..made \cup {None}],
           first' \in [Users -> 1..made \cup {None}],
           \A b \in Users \ {a} : at'[b] = at[b] /\ held'[b] = held[b] /\ first'[b] = first[b],
           held'[a] # None => held'[a] \in InUse /\ at'[a] \in {"calling", "setup", "holding"},
           a \in Loose => at'[a] \in {"off", "calling"},
           at'[a] \in {"off", "queued"} => first'[a] = None,
           a \in Turns \cup Jobs =>
              /\ first'[a] # None => first'[a] = current["main"]
              /\ held'[a] # None => held'[a] = first'[a]
    PROVE  Inv'
<1>1. ProvidersInv' /\ InUse' = InUse /\ current' = current /\ made' = made
  BY WorldStays
<1>2. UserTypes'
  BY <1>1 DEF UserTypes
<1>3. Placed'
  BY DEF Inv, Placed
<1>4. HoldsCurrent'
  BY <1>1 DEF Inv, HoldsCurrent
<1>5. MainIsFirst'
  BY <1>1 DEF Inv, MainIsFirst, Users
<1> QED
  BY <1>1, <1>2, <1>3, <1>4, <1>5, InvPrime DEF UserInv
-----------------------------------------------------------------------------
LEMMA InitInv == Init => Inv
<1> SUFFICES ASSUME Init PROVE Inv
  OBVIOUS
<1> USE ReloadAssumption
<1>1. TypeOK
  <2>1. ContentOf[0] \in Settings
    OBVIOUS
  <2> QED
    BY <2>1 DEF Init, TypeOK, Places
<1>2. Placed /\ HoldsCurrent /\ MainIsFirst
  BY DEF Init, Placed, HoldsCurrent, MainIsFirst, Users
<1>3. InUse = {1}
  <2>1. /\ DOMAIN current = Roles \cup {"main"} /\ current["main"] = 1 /\ 1 # None
        /\ \A q \in Roles \cup {"main"} : current[q] \in {1, None}
    BY DEF Init
  <2> QED
    BY <2>1 DEF InUse
<1>4. Apart /\ NoneIsForgotten
  BY <1>3 DEF Init, Apart, Old, NoneIsForgotten
<1> QED
  BY <1>1, <1>2, <1>4 DEF Inv

LEMMA StepInv == Inv /\ [Next]_vars => Inv'
<1> SUFFICES ASSUME Inv, [Next]_vars PROVE Inv'
  OBVIOUS
<1> USE ReloadAssumption
<1>t. TypeOK /\ Placed /\ HoldsCurrent /\ MainIsFirst /\ Apart /\ NoneIsForgotten
  BY DEF Inv
<1>u. /\ at \in [Users -> Places] /\ held \in [Users -> 1..made \cup {None}]
      /\ first \in [Users -> 1..made \cup {None}] /\ cancelled \subseteq Jobs
      /\ made \in Nat \ {0} /\ current["main"] \in 1..made /\ current["main"] \in InUse
      /\ None \notin Nat
  <2>1. current["main"] \in 1..made /\ made \in Nat
    BY <1>t DEF TypeOK
  <2>2. current["main"] # None
    BY <2>1
  <2> QED
    BY <1>t, <2>1, <2>2, InUseIs DEF TypeOK
<1>p. \A a \in Users :
        /\ held[a] # None => held[a] \in InUse /\ at[a] \in {"calling", "setup", "holding"}
        /\ a \in Loose => at[a] \in {"off", "calling"}
        /\ at[a] \in {"off", "queued"} => first[a] = None
        /\ a \in Turns \cup Jobs =>
              /\ first[a] # None => first[a] = current["main"]
              /\ held[a] # None => held[a] = first[a]
  BY <1>t DEF Placed, HoldsCurrent, MainIsFirst
<1>1. ASSUME Edit \/ Message \/ ControlTick PROVE Inv'
  <2>1. CASE Edit
    <3>1. ProvidersInv' /\ InUse' = InUse /\ current' = current /\ made' = made
      <4>1. WorldTypes'
        BY <2>1, InvSplits DEF Edit, ProvidersInv, WorldTypes, providerVars, closerVars
      <4>2. InUse' = InUse /\ Old' = Old
        BY <2>1 DEF Edit, providerVars, closerVars, InUse, Old
      <4> QED
        BY <2>1, <4>1, <4>2, <1>t DEF Edit, providerVars, closerVars, ProvidersInv, Apart,
             NoneIsForgotten
    <3> QED
      BY <2>1, <3>1, UsersStay, InvPrime DEF Edit
  <2>2. CASE Message
    <3>1. /\ ProvidersInv' /\ 1..made \subseteq 1..made'
          /\ \/ InUse' = InUse /\ current' = current
             \/ \A a \in Users : held[a] = None /\ (a \in Turns \cup Jobs => first[a] = None)
      BY <2>2, ApplyKeeps DEF Message, closerVars
    <3> QED
      BY <2>2, <3>1, UsersStay, InvPrime DEF Message
  <2>3. CASE ControlTick
    <3>1. /\ ProvidersInv' /\ 1..made \subseteq 1..made'
          /\ \/ InUse' = InUse /\ current' = current
             \/ \A a \in Users : held[a] = None /\ (a \in Turns \cup Jobs => first[a] = None)
      <4>1. Apply({}) /\ closed' = closed /\ awaited' = awaited /\ closing' \in {retired', {}}
        BY <2>3 DEF ControlTick
      <4> QED
        BY <4>1, ApplyKeeps
    <3> QED
      BY <2>3, <3>1, UsersStay, InvPrime DEF ControlTick
  <2> QED
    BY <1>1, <2>1, <2>2, <2>3
<1>2. ASSUME (\E p \in closing : CloseNext(p)) \/ CloseReturns \/ CloseRaises
      PROVE  Inv'
  <2>1. /\ closing \subseteq 1..made /\ closed \subseteq 1..made
        /\ retired \subseteq 1..made /\ awaited \in closed \cup {None}
    BY <1>t DEF TypeOK
  <2>2. /\ UNCHANGED <<fileVars, made, current, userVars>>
        /\ closing' \subseteq closing /\ retired' \subseteq retired
        /\ closed \subseteq closed' /\ closed' \subseteq closed \cup closing
        /\ awaited' \in closed' \cup {None} /\ retired \subseteq retired' \cup closed'
    <3>1. CASE \E p \in closing : CloseNext(p)
      BY <2>1, <3>1 DEF CloseNext, fileVars, providerVars
    <3>2. CASE CloseReturns
      BY <2>1, <3>2 DEF CloseReturns, fileVars
    <3>3. CASE CloseRaises
      BY <2>1, <3>3 DEF CloseRaises, fileVars, providerVars
    <3> QED
      BY <1>2, <3>1, <3>2, <3>3
  <2>3. InUse' = InUse /\ Old' \subseteq Old
    BY <2>2 DEF InUse, Old
  <2>4. WorldTypes'
    <3>1. /\ retired' \subseteq 1..made /\ closed' \subseteq 1..made
          /\ closing' \subseteq 1..made
      BY <2>1, <2>2
    <3> QED
      BY <2>2, <3>1, InvSplits DEF ProvidersInv, WorldTypes, fileVars
  <2>5. Apart' /\ NoneIsForgotten'
    BY <1>t, <2>2, <2>3 DEF Apart, NoneIsForgotten
  <2> QED
    BY <2>2, <2>3, <2>4, <2>5, UsersStay, InvPrime DEF ProvidersInv
<1>3. ASSUME NEW t \in Turns, TurnBegins(t) PROVE Inv'
  <2>1. at[t] = "queued" /\ held[t] = None /\ first[t] = None /\ t \in Users
    BY <1>3, <1>p DEF TurnBegins, Users
  <2>2. /\ ProvidersInv' /\ 1..made \subseteq 1..made'
        /\ \/ InUse' = InUse /\ current' = current
           \/ \A a \in Users : held[a] = None /\ (a \in Turns \cup Jobs => first[a] = None)
    BY <1>3, <2>1, ApplyKeeps DEF TurnBegins, closerVars
  <2>3. /\ at' = [at EXCEPT ![t] = "between"] /\ held' = held /\ first' = first
        /\ cancelled' = cancelled
    BY <1>3 DEF TurnBegins, Place
  <2>4. UserTypes'
    BY <1>u, <2>2, <2>3 DEF UserTypes, Places
  <2>5. Placed'
    BY <1>p, <1>u, <2>1, <2>3 DEF Placed, Users
  <2>6. HoldsCurrent'
    BY <1>p, <2>2, <2>3 DEF HoldsCurrent
  <2>7. MainIsFirst'
    BY <1>p, <2>2, <2>3 DEF MainIsFirst, Users
  <2> QED
    BY <2>2, <2>4, <2>5, <2>6, <2>7, InvPrime DEF UserInv
<1>4. ASSUME NEW a \in Users,
             \/ a \in Turns /\ TurnQueued(a)
             \/ a \in Jobs /\ (JobCreated(a) \/ CancelJob(a))
             \/ a \in Keepers /\ (Starts(a) \/ KeeperMoves(a) \/ AsksAgain(a))
             \/ Calls(a) \/ Answered(a) \/ Ends(a)
      PROVE  Inv'
  <2> USE <1>p, <1>u
  <2>1. CASE a \in Turns /\ TurnQueued(a)
    BY <2>1, UserMoves DEF TurnQueued, Place, Places
  <2>2. CASE a \in Jobs /\ JobCreated(a)
    BY <2>2, UserMoves DEF JobCreated, Place, Places
  <2>3. CASE a \in Jobs /\ CancelJob(a)
    BY <2>3, UserMoves DEF CancelJob
  <2>4. CASE a \in Keepers /\ Starts(a)
    BY <2>4, UserMoves DEF Starts, Place, Places
  <2>5. CASE a \in Keepers /\ KeeperMoves(a)
    BY <2>5, UserMoves DEF KeeperMoves, Place, Places
  <2>6. CASE a \in Keepers /\ AsksAgain(a)
    BY <2>6, UserMoves DEF AsksAgain, Place, Hold, Places
  <2>7. CASE Calls(a)
    <3>1. at' = [at EXCEPT ![a] = "calling"] /\ held' = [held EXCEPT ![a] = current["main"]]
      BY <2>7 DEF Calls, Place, Hold
    <3>2. first' = IF first[a] = None /\ a \notin Loose
                   THEN [first EXCEPT ![a] = current["main"]] ELSE first
      BY <2>7 DEF Calls
    <3>3. at' \in [Users -> Places] /\ held' \in [Users -> 1..made \cup {None}]
          /\ first' \in [Users -> 1..made \cup {None}]
      BY <3>1, <3>2 DEF Places
    <3>4. a \in Turns \cup Jobs => first'[a] = current["main"] /\ held'[a] = first'[a]
      BY <3>1, <3>2
    <3> QED
      BY <2>7, <3>1, <3>2, <3>3, <3>4, UserMoves DEF Calls
  <2>8. CASE Answered(a)
    BY <2>8, UserMoves DEF Answered, Place, Hold, Places
  <2>9. CASE Ends(a)
    BY <2>9, UserMoves DEF Ends, Place, Hold, Places
  <2> QED
    BY <1>4, <2>1, <2>2, <2>3, <2>4, <2>5, <2>6, <2>7, <2>8, <2>9
<1>5. ASSUME NEW k \in Keepers, Fetches(k) PROVE Inv'
  <2> DEFINE own == current[RoleOf[k]]
  <2>1. /\ k \in Users /\ k \notin Turns \cup Jobs /\ k \notin Loose
        /\ at[k] = "started" /\ RoleOf[k] \in Roles /\ RoleOf[k] # "main"
        /\ own \in 1..made \cup {None}
        /\ own # None => own \in InUse
    <3>1. k \in Users /\ k \notin Turns \cup Jobs /\ k \notin Loose /\ at[k] = "started"
      BY <1>5 DEF Fetches, Users
    <3>2. RoleOf[k] \in Roles /\ RoleOf[k] # "main"
      OBVIOUS
    <3>3. own \in 1..made \cup {None}
      BY <1>t, <3>2 DEF TypeOK
    <3> QED
      BY <1>t, <3>1, <3>2, <3>3, InUseIs
  <2>2. CASE UNCHANGED World
    <3>1. \E p \in {"setup", "holding"}, h \in InUse :
             at' = [at EXCEPT ![k] = p] /\ held' = [held EXCEPT ![k] = h]
      <4>1. made + 1 # made /\ made' = made
        BY <1>u, <2>2 DEF World, providerVars
      <4>2. CASE reload.applied \notin OwnProfile
        BY <1>5, <1>u, <4>2 DEF Fetches, Place, Hold
      <4>3. CASE reload.applied \in OwnProfile /\ own = None
        BY <1>5, <4>1, <4>3 DEF Fetches
      <4>4. CASE reload.applied \in OwnProfile /\ own # None
        <5>1. (\E p \in {"setup", "holding"} : Place(k, p)) /\ Hold(k, own)
          BY <1>5, <4>4 DEF Fetches
        <5>2. PICK p \in {"setup", "holding"} : Place(k, p)
          BY <5>1
        <5>3. own \in InUse
          BY <2>1, <4>4
        <5>4. at' = [at EXCEPT ![k] = p] /\ held' = [held EXCEPT ![k] = own]
          BY <5>1, <5>2 DEF Place, Hold
        <5> HIDE DEF own
        <5> QED
          BY <5>3, <5>4
      <4> QED
        BY <4>2, <4>3, <4>4
    <3>2. InUse \subseteq 1..made \cup {None}
      BY <1>t, InUseIs
    <3> QED
      BY <1>5, <1>u, <1>p, <2>1, <2>2, <3>1, <3>2, UserMoves DEF Fetches, Places
  <2>3. CASE /\ own = None
             /\ at' = [at EXCEPT ![k] = "setup"] /\ held' = [held EXCEPT ![k] = made + 1]
             /\ made' = made + 1
             /\ current' = [current EXCEPT ![RoleOf[k]] = made + 1]
    <3>1. /\ UNCHANGED <<fileVars, retired, closerVars>> /\ first' = first
          /\ cancelled' = cancelled
      BY <1>5 DEF Fetches
    <3>2. InUse' = InUse \cup {made + 1}
      <4>1. current \in [Roles \cup {"main"} -> 1..made \cup {None}]
        BY <1>t DEF TypeOK
      <4>2. /\ DOMAIN current' = DOMAIN current /\ RoleOf[k] \in DOMAIN current
            /\ current'[RoleOf[k]] = made + 1
            /\ \A q \in DOMAIN current : q # RoleOf[k] => current'[q] = current[q]
        BY <2>1, <2>3, <4>1
      <4>3. made + 1 # None
        BY <1>u
      <4> QED
        BY <2>3, <4>2, <4>3 DEF InUse
    <3>3. 1..made' = 1..made \cup {made + 1} /\ made + 1 \notin 1..made /\ made' \in Nat \ {0}
      BY <1>u, <2>3
    <3>4. current'["main"] = current["main"]
          /\ current' \in [Roles \cup {"main"} -> 1..made' \cup {None}]
      BY <1>t, <2>1, <2>3, <3>3 DEF TypeOK
    <3>5. Old' = Old /\ Old \subseteq 1..made
      BY <1>t, <3>1 DEF Old, closerVars, TypeOK
    <3>6. ProvidersInv'
      <4>1. WorldTypes'
        BY <1>u, <3>1, <3>3, <3>4, InvSplits DEF ProvidersInv, WorldTypes, fileVars, closerVars
      <4>2. Apart'
        BY <1>t, <3>2, <3>3, <3>5 DEF Apart
      <4>3. NoneIsForgotten'
        BY <1>t, <3>1, <3>2, <3>3 DEF NoneIsForgotten, closerVars
      <4> QED
        BY <4>1, <4>2, <4>3 DEF ProvidersInv
    <3>7. UserTypes'
      BY <1>u, <2>1, <2>3, <3>1, <3>3 DEF UserTypes, Places
    <3>8. Placed'
      BY <1>u, <1>p, <2>1, <2>3, <3>1 DEF Placed
    <3>9. HoldsCurrent'
      BY <1>u, <1>p, <2>1, <2>3, <3>2 DEF HoldsCurrent
    <3>10. MainIsFirst'
      BY <1>u, <1>p, <2>1, <2>3, <3>1, <3>4 DEF MainIsFirst, Users
    <3> QED
      BY <3>6, <3>7, <3>8, <3>9, <3>10, InvPrime DEF UserInv
  <2> QED
    BY <1>5, <2>2, <2>3 DEF Fetches, Place, Hold, World, providerVars
<1>6. CASE UNCHANGED vars
  <2>1. ProvidersInv' /\ InUse' = InUse /\ current' = current /\ made' = made
    BY <1>6, WorldStays DEF vars, World
  <2> QED
    BY <1>6, <2>1, UsersStay, InvPrime DEF vars
<1> QED
  BY <1>1, <1>2, <1>3, <1>4, <1>5, <1>6 DEF Next, Users
-----------------------------------------------------------------------------
LEMMA AlwaysInv == Spec => []Inv
BY InitInv, StepInv, PTL DEF Spec

(* Every variable of the reload keeps its shape.                           *)
THEOREM TypeCorrect == Spec => []TypeOK
<1>1. Inv => TypeOK
  BY DEF Inv
<1> QED
  BY <1>1, AlwaysInv, PTL

(* No provider is closed under the user that holds it, be it a keeper      *)
(* between two requests or a cancelled job that winds up.                  *)
THEOREM NeverClosedInUse == Spec => []InUseIsOpen
<1>1. Inv => InUseIsOpen
  BY DEF Inv, HoldsCurrent, Apart, Old, InUseIsOpen
<1> QED
  BY <1>1, AlwaysInv, PTL

(* From its first call to its last a round is answered by one provider.    *)
THEOREM RoundsKeepTheirProvider == Spec => []OneProviderPerRound
<1>1. Inv => OneProviderPerRound
  BY DEF Inv, MainIsFirst, OneProviderPerRound
<1> QED
  BY <1>1, AlwaysInv, PTL

(* No provider is dropped with its connections open.                       *)
THEOREM NoneLeaks == Spec => []NoneIsForgotten
<1>1. Inv => NoneIsForgotten
  BY DEF Inv
<1> QED
  BY <1>1, AlwaysInv, PTL
=============================================================================
