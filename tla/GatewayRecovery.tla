-------------------------- MODULE GatewayRecovery --------------------------
(***************************************************************************)
(* How far each room has been read, and what happens when the gateway      *)
(* misses something: InboundDedup and Watermarks of message_pipeline.py    *)
(* with their users in bot.py, the handlers on_message, on_ready and       *)
(* on_resumed, the detached task _recover_missed_messages, and the task    *)
(* that saves the watermarks every 30 seconds in a thread.                 *)
(*                                                                         *)
(* Discord is the environment: it numbers the messages in the order they   *)
(* are posted, delivers them in that order while a session is up, may      *)
(* redeliver any of them when a session resumes, and serves the whole      *)
(* history of a room over REST at any time.                                *)
(***************************************************************************)
EXTENDS Integers, Sequences, FiniteSets

CONSTANTS
    Rooms,       \* the channels
    RoomOf,      \* the room each message is posted in, by its id
    Capacity,    \* InboundDedup._capacity, 4096 in bot.py
    MaxRooms,    \* Watermarks.max_channels, 512
    ScanRooms,   \* rooms one recovery looks at, 40
    Limit,       \* messages one recovery fetches from a room, 20
    Tasks,       \* recovery tasks that may be alive at the same time
    MaxReplayed, \* bound: messages a RESUME sends again
    MaxOutages,  \* bound: connections lost without losing the process
    MaxCrashes   \* bound: times the process dies

ASSUME CapacityAssumption == Capacity \in Nat /\ Capacity >= 2
ASSUME RoomsAssumption == \A m \in DOMAIN RoomOf : RoomOf[m] \in Rooms
ASSUME IdsAssumption == DOMAIN RoomOf \subseteq Nat \ {0}
ASSUME MaxRoomsAssumption == MaxRooms \in Nat /\ MaxRooms >= 2
ASSUME ScanAssumption == ScanRooms \in Nat /\ Limit \in Nat \ {0}
ASSUME BoundsAssumption == {MaxOutages, MaxCrashes, MaxReplayed} \subseteq Nat

VARIABLES
    posted,      \* the messages in Discord's history
    link,        \* the gateway session: up, down, replaying, or off
    wire,        \* MESSAGE_CREATE events of the session still to arrive
    order,       \* InboundDedup._order; _seen holds the same ids
    marks,       \* Watermarks._marks, 0 for a room without one
    dirty,       \* Watermarks._dirty
    disk,        \* what load() would read from watermarks.json
    saver,       \* the thread of the save loop
    task,        \* the recovery tasks
    outages, crashes,
    took,        \* history: the messages accepted, since the process started
    ever,        \* history: the messages accepted in any process
    gap,         \* history: messages the gateway dropped, of rooms being read
    overtaken,   \* history: those a later message of their room arrived before
    excused      \* history: those the limits or a failed request left out

discord == <<posted, link, wire, outages, crashes, gap>>
history == <<overtaken, excused>>
reading == <<order, marks, dirty, took, ever>>
vars == <<posted, link, wire, order, marks, dirty, disk, saver, task,
          outages, crashes, took, ever, gap, overtaken, excused>>
-----------------------------------------------------------------------------
Messages == DOMAIN RoomOf
Marks == [Rooms -> {0} \cup Messages]
NoMarks == [r \in Rooms |-> 0]

\* A save in the thread has its payload; "raced" says another save used the
\* same temporary file since.
NotSaving == [busy |-> FALSE, payload |-> NoMarks, raced |-> FALSE]

\* A recovery sleeps, then works through rooms (each with the watermark it had
\* when the list was made) and, in a room, through the messages it missed.
NoTask == [at |-> "none", rooms |-> <<>>, missed |-> <<>>]
Alive == { t \in Tasks : task[t].at # "none" }

Elements(s) == { s[i] : i \in DOMAIN s }

Init ==
    /\ posted = {} /\ link = "off" /\ wire = {}
    /\ order = <<>> /\ marks = NoMarks /\ dirty = FALSE /\ disk = NoMarks
    /\ saver = NotSaving /\ task = [t \in Tasks |-> NoTask]
    /\ outages = 0 /\ crashes = 0
    /\ took = <<>> /\ ever = {} /\ gap = {}
    /\ overtaken = {} /\ excused = {}
-----------------------------------------------------------------------------
(* Plausible wrong forms of the definitions below or of their callers.     *)
\* The cut keeps the old half of the window.
KeepsTheOld(m) ==
    LET longer == Append(order, m)
    IN  IF Len(longer) > Capacity THEN SubSeq(longer, 1, Capacity \div 2) ELSE longer
\* One watermark for all rooms.
NotedEverywhere(m) == [r \in Rooms |-> m]
\* missed is not reversed.
NewestFirst(ids) ==
    [i \in 1..Cardinality(ids) |->
        CHOOSE m \in ids : Cardinality({ n \in ids : n > m }) = i - 1]
-----------------------------------------------------------------------------
(* InboundDedup.                                                           *)
IsNew(m) == m \notin Elements(order)

Remembered(m) ==
    LET longer == Append(order, m)
    IN  IF Len(longer) > Capacity
        THEN SubSeq(longer, Capacity \div 2 + 1, Len(longer))
        ELSE longer

(* Watermarks.                                                             *)
Marked(w) == { r \in Rooms : w[r] # 0 }
Hotter(w, r) == { s \in Marked(w) : w[s] > w[r] }

\* Too many rooms: the ones read last are kept, half as many as allowed.
Trimmed(w) ==
    IF Cardinality(Marked(w)) > MaxRooms
    THEN [r \in Rooms |->
             IF Cardinality(Hotter(w, r)) < MaxRooms \div 2 THEN w[r] ELSE 0]
    ELSE w

Noted(m) ==
    LET r == RoomOf[m]
    IN  IF marks[r] >= m THEN marks ELSE Trimmed([marks EXCEPT ![r] = m])

\* channels(): the rooms with a watermark, most recently active first.
HottestFirst(w) ==
    LET n == Cardinality(Marked(w))
        At(i) == CHOOSE r \in Marked(w) : Cardinality(Hotter(w, r)) = i - 1
    IN  [i \in 1..n |-> [room |-> At(i), last |-> w[At(i)]]]

\* save() on the event loop. The thread may be half way through its own save,
\* and both write the same .tmp file: either payload, or a mixture of the two
\* that load() rejects, can be left behind.
SaveNow ==
    IF ~dirty
    THEN UNCHANGED <<disk, dirty, saver>>
    ELSE /\ dirty' = FALSE
         /\ disk' \in IF saver.busy THEN {marks, saver.payload, NoMarks} ELSE {marks}
         /\ saver' = [saver EXCEPT !.raced = saver.busy]
-----------------------------------------------------------------------------
(* on_message: dedup, then the watermark, before any other work.           *)
OnMessage(m) ==
    IF IsNew(m)
    THEN /\ order' = Remembered(m)
         /\ took' = Append(took, m)
         /\ ever' = ever \cup {m}
         /\ marks' = Noted(m)
         /\ dirty' = (dirty \/ marks[RoomOf[m]] < m)
    ELSE UNCHANGED reading

Unread(r) == { m \in gap \ ever : RoomOf[m] = r }

\* The gateway delivers. A message that arrives before an older one of its
\* room that the gateway dropped puts the watermark past the older one.
Deliver(m) ==
    /\ link \in {"up", "replaying"} /\ m \in wire
    /\ \A n \in wire : m <= n
    /\ wire' = wire \ {m}
    /\ OnMessage(m)
    /\ overtaken' = IF IsNew(m)
                    THEN overtaken \cup { n \in Unread(RoomOf[m]) : n < m }
                    ELSE overtaken
    /\ UNCHANGED <<posted, link, disk, saver, task, outages, crashes, gap,
                   excused>>

\* A room that has a watermark is owed what the gateway drops
\* from there on.
Owed(ids, w) == { m \in ids : w[RoomOf[m]] \in 1..(m - 1) }

\* Somebody writes. With no session nothing is delivered.
Post(m) ==
    /\ m \in Messages \ posted
    /\ \A n \in Messages : n < m => n \in posted
    /\ posted' = posted \cup {m}
    /\ IF link \in {"up", "replaying"}
       THEN wire' = wire \cup {m} /\ UNCHANGED gap
       ELSE gap' = gap \cup Owed({m}, marks) /\ UNCHANGED wire
    /\ UNCHANGED <<link, order, marks, dirty, disk, saver, task, outages,
                   crashes, took, ever, history>>

\* The connection drops; what had not arrived is in the gap.
Drop ==
    /\ link = "up" /\ outages < MaxOutages
    /\ outages' = outages + 1
    /\ link' = "down" /\ wire' = {} /\ gap' = gap \cup Owed(wire, marks)
    /\ UNCHANGED <<posted, order, marks, dirty, disk, saver, task, crashes,
                   took, ever, history>>

\* RESUME: Discord sends again what it believes was missed, some or all of it
\* and perhaps what was handled before, and then RESUMED.
Resume(replayed) ==
    /\ link = "down" /\ Cardinality(replayed) <= MaxReplayed
    /\ link' = "replaying" /\ wire' = replayed
    /\ UNCHANGED <<posted, order, marks, dirty, disk, saver, task, outages,
                   crashes, took, ever, gap, history>>

Spawn(t) == /\ task[t] = NoTask
            /\ task' = [task EXCEPT ![t].at = "settle"]

\* on_resumed, and on_ready after a new session: a recovery is spawned.
Connected(t) ==
    /\ \/ link = "replaying" /\ wire = {}
       \/ link \in {"down", "off"}
    /\ link' = "up" /\ Spawn(t)
    /\ UNCHANGED <<posted, wire, order, marks, dirty, disk, saver, outages,
                   crashes, took, ever, gap, history>>
-----------------------------------------------------------------------------
(* _recover_missed_messages.                                               *)

\* After the two seconds the rooms are listed, with what they were read up to
\* NOW. A room without a watermark, or beyond the first ScanRooms, is not seen.
Wakes(t) ==
    /\ task[t].at = "settle"
    /\ LET all    == HottestFirst(marks)
           listed == SubSeq(all, 1, IF Len(all) < ScanRooms THEN Len(all) ELSE ScanRooms)
           seen   == { listed[i].room : i \in DOMAIN listed }
       IN  /\ task' = [task EXCEPT ![t] = [at |-> "scan", rooms |-> listed,
                                           missed |-> <<>>]]
           /\ excused' = excused \cup UNION { Unread(r) : r \in Rooms \ seen }
    /\ UNCHANGED <<posted, link, wire, order, marks, dirty, disk, saver,
                   outages, crashes, took, ever, gap, overtaken>>

\* channel.history(after=last, limit=Limit, oldest_first=False).
Newest(ids) == { m \in ids : Cardinality({ n \in ids : n > m }) < Limit }
Behind(r, last) == { m \in posted : RoomOf[m] = r /\ m > last }
History(r, last) == Newest(Behind(r, last))

\* missed.reverse(): the room reads in order.
OldestFirst(ids) ==
    [i \in 1..Cardinality(ids) |->
        CHOOSE m \in ids : Cardinality({ n \in ids : n < m }) = i - 1]

Scanning(t) == task[t].at = "scan" /\ task[t].missed = <<>> /\ task[t].rooms # <<>>

ScanRoom(t) ==
    /\ Scanning(t)
    /\ LET next == Head(task[t].rooms)
           missed == History(next.room, next.last)
       IN  /\ task' = [task EXCEPT ![t].rooms = Tail(@), ![t].missed = OldestFirst(missed)]
           \* What the limit leaves out is meant to stay unanswered, also what
           \* the gateway has still to deliver and may yet drop.
           /\ excused' = excused \cup (Behind(next.room, next.last) \ missed)
    /\ UNCHANGED <<posted, link, wire, order, marks, dirty, disk, saver,
                   outages, crashes, took, ever, gap, overtaken>>

\* The channel is not in the cache, may not be read, or the request fails.
ScanFails(t) ==
    /\ Scanning(t)
    /\ task' = [task EXCEPT ![t].rooms = Tail(@)]
    /\ excused' = excused \cup Unread(Head(task[t].rooms).room)
    /\ UNCHANGED <<posted, link, wire, order, marks, dirty, disk, saver,
                   outages, crashes, took, ever, gap, overtaken>>

Replay(t) ==
    /\ task[t].at = "scan" /\ task[t].missed # <<>>
    /\ OnMessage(Head(task[t].missed))
    /\ task' = [task EXCEPT ![t].missed = Tail(@)]
    /\ UNCHANGED <<discord, disk, saver, history>>

RecoveryEnds(t) ==
    /\ task[t].at = "scan" /\ task[t].missed = <<>> /\ task[t].rooms = <<>>
    /\ SaveNow
    /\ task' = [task EXCEPT ![t] = NoTask]
    /\ UNCHANGED <<discord, order, marks, took, ever, history>>
-----------------------------------------------------------------------------
(* _watermark_save_loop: save() in a thread, beside the event loop.        *)
SaveBegins ==
    /\ ~saver.busy /\ dirty
    /\ saver' = [busy |-> TRUE, payload |-> marks, raced |-> FALSE]
    /\ UNCHANGED <<discord, reading, disk, task, history>>

\* The replace succeeds and dirty is cleared, whatever was noted meanwhile.
SaveLands ==
    /\ saver.busy
    /\ disk' = saver.payload /\ dirty' = FALSE
    /\ saver' = NotSaving
    /\ UNCHANGED <<discord, order, marks, took, ever, task, history>>

\* The write fails. After a race the temporary file was renamed under the
\* thread, whose payload then went into the live file, on top of the other.
SaveFails ==
    /\ saver.busy
    /\ disk' \in IF saver.raced THEN {disk, saver.payload, NoMarks} ELSE {disk}
    /\ saver' = NotSaving
    /\ UNCHANGED <<discord, reading, task, history>>

\* The save of the shutdown; messages may still arrive until the process ends.
ShutdownSaves ==
    /\ link # "off" /\ crashes < MaxCrashes /\ dirty
    /\ SaveNow
    /\ UNCHANGED <<discord, order, marks, took, ever, task, history>>

\* The process ends, killed or shut down, and starts again: load().
Restart ==
    /\ link # "off" /\ crashes < MaxCrashes
    /\ crashes' = crashes + 1
    /\ link' = "off" /\ wire' = {} /\ gap' = gap \cup Owed(wire, disk)
    /\ order' = <<>> /\ took' = <<>>
    /\ marks' = disk /\ dirty' = FALSE /\ saver' = NotSaving
    /\ task' = [t \in Tasks |-> NoTask]
    /\ UNCHANGED <<posted, disk, outages, ever, history>>
-----------------------------------------------------------------------------
Next ==
    \/ \E m \in Messages : Post(m) \/ Deliver(m)
    \/ \E replayed \in SUBSET posted : Resume(replayed)
    \/ \E t \in Tasks : \/ Connected(t) \/ Wakes(t) \/ ScanRoom(t)
                        \/ ScanFails(t) \/ Replay(t) \/ RecoveryEnds(t)
    \/ Drop \/ Restart
    \/ SaveBegins \/ SaveLands \/ SaveFails \/ ShutdownSaves

Spec == Init /\ [][Next]_vars
-----------------------------------------------------------------------------
TaskStates ==
    [at : {"none", "settle", "scan"},
     rooms : Seq([room : Rooms, last : posted]), missed : Seq(posted)]

\* The type of every variable.
TypeOK ==
    /\ posted \subseteq Messages /\ wire \subseteq posted
    /\ link \in {"up", "down", "replaying", "off"}
    /\ order \in Seq(Messages) /\ took \in Seq(Messages)
    /\ ever \cup gap \cup excused \subseteq posted /\ overtaken \subseteq gap
    /\ marks \in Marks /\ disk \in Marks /\ dirty \in BOOLEAN
    /\ saver \in [busy : BOOLEAN, payload : Marks, raced : BOOLEAN]
    /\ task \in [Tasks -> TaskStates]
    /\ outages \in 0..MaxOutages /\ crashes \in 0..MaxCrashes

\* One reply per message id: however often the gateway redelivers and however
\* many recoveries overlap, a process takes a message again only after more
\* than half of the window's worth of others (InboundDedup.check_and_add).
NoEarlyRepeat ==
    \A i, j \in DOMAIN took :
        i < j /\ took[i] = took[j] => j - i > Capacity \div 2

\* Neither the watermarks nor the file, through races and restarts, ever claim
\* that a room was read further than some process really read it: a recovery
\* that starts from them skips nothing it does not have to (Watermarks.note).
NeverAhead ==
    \A r \in Rooms : \A w \in {marks, disk, saver.payload} :
        w[r] # 0 => w[r] \in ever /\ RoomOf[w[r]] = r

\* With the session up and no recovery under way.
Settled == link = "up" /\ wire = {} /\ Alive = {}

\* A message the gateway dropped is read after the next recovery, restarts
\* during a recovery included, unless a later one of its room was delivered
\* before the recovery looked, or the recovery's own limits leave it out
\* (_recover_missed_messages).
OnlyOvertakenAreLost == Settled => gap \subseteq ever \cup overtaken \cup excused

-----------------------------------------------------------------------------
\* What the documentation promises without that condition: "a reconnect can
\* replay what the gateway missed" (message_pipeline.py:27-28).
GapRecovered == Settled => gap \subseteq ever \cup excused

\* "They have to be on disk before the crash" (bot.py:3870): a save in the
\* thread that succeeds and leaves nothing to save leaves the watermarks in the
\* file.
SavedIsOnDisk == [][SaveLands => disk' = marks']_vars
=============================================================================
