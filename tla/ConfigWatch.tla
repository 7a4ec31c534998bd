----------------------------- MODULE ConfigWatch -----------------------------
(***************************************************************************)
(* The config watcher of yay_watch (main_watch.cpp): an inotify watch on   *)
(* the config directory, a debounce, and one `yay_apply --<mode>` after    *)
(* another for the files that changed.                                     *)
(*                                                                         *)
(* A file is its index in MAPPINGS.  version[f] counts its finished        *)
(* changes; while an editor rewrites it in place its text is incomplete    *)
(* and no config.  The model begins when the boot's yay_apply has read all *)
(* the files and service.sh starts the watcher.                            *)
(*                                                                         *)
(* Bounds: MaxEdits changes of a file; QueueSize stands for                *)
(* max_queued_events and ReadMax for the events one read() returns.  Other *)
(* files of the directory may change at any time and without end.          *)
(***************************************************************************)
EXTENDS Integers, Sequences

CONSTANTS FileCount,   \* kModeCount
          MaxEdits,    \* bound: changes of one file
          QueueSize,   \* events the kernel queues before it drops one
          ReadMax,     \* events one read() returns at most
          MayFail      \* may a system call of the watcher fail, or a yay_apply die before it loads?

ASSUME WatchAssumption ==
    /\ FileCount \in Nat /\ MaxEdits \in Nat
    /\ QueueSize \in Nat \ {0} /\ ReadMax \in Nat \ {0}
    /\ MayFail \in BOOLEAN

Files == 1..FileCount
Other == 0                   \* a name no entry of MAPPINGS has
NoFile == 0

VARIABLES
    pc,         \* "starting", "top", "poll", "debounce", "spawn", "wait", "stopped"
    stop,       \* g_stop
    triggered,  \* triggered, without what was already spawned
    child,      \* whom waitpid waits for: the file its yay_apply is to load
    childReads, \* has that yay_apply still to load its file?
    queue,      \* the inotify queue: names of changed files
    version,    \* finished changes of each file
    writing,    \* is an editor in the middle of rewriting it?
    loaded,     \* the version a yay_apply loaded last
    lost        \* history: files whose last change nobody will be told of

watcher == <<pc, stop, triggered>>
apply   == <<child, childReads, loaded>>
files   == <<version, writing>>
vars    == <<watcher, apply, files, queue, lost>>

TypeOK ==
    /\ pc \in {"starting", "top", "poll", "debounce", "spawn", "wait", "stopped"}
    /\ stop \in BOOLEAN /\ triggered \in SUBSET Files
    /\ child \in Files \cup {NoFile} /\ childReads \in BOOLEAN
    /\ queue \in Seq(Files \cup {Other}) /\ Len(queue) <= QueueSize
    /\ version \in [Files -> 0..MaxEdits] /\ loaded \in [Files -> 0..MaxEdits]
    /\ writing \in [Files -> BOOLEAN]
    /\ lost \in SUBSET Files

Init ==
    /\ pc = "starting" /\ stop = FALSE /\ triggered = {}
    /\ child = NoFile /\ childReads = FALSE
    /\ queue = <<>>
    /\ version = [f \in Files |-> 0] /\ loaded = [f \in Files |-> 0]
    /\ writing = [f \in Files |-> FALSE]
    /\ lost = {}

Queued(f) == \E i \in 1..Len(queue) : queue[i] = f

-----------------------------------------------------------------------------
(* The watcher's main thread.                                              *)

Min2(a, b) == IF a < b THEN a ELSE b

AddWatch ==
    /\ pc = "starting"
    /\ pc' = "top"
    /\ UNCHANGED <<stop, triggered, apply, files, queue, lost>>

\* No inotify descriptor, no watch, or a poll error: the watcher ends.
GivesUp ==
    /\ MayFail /\ pc \in {"starting", "poll"}
    /\ pc' = "stopped"
    /\ UNCHANGED <<stop, triggered, apply, files, queue, lost>>

Stops_Never == FALSE
Stops == stop

LoopTop ==
    /\ pc = "top"
    /\ pc' = IF Stops THEN "stopped" ELSE "poll"
    /\ UNCHANGED <<stop, triggered, apply, files, queue, lost>>

\* poll saw nothing for 5 s or was interrupted by a signal.
PollIdle ==
    /\ pc = "poll" /\ (queue = <<>> \/ stop)
    /\ pc' = "top"
    /\ UNCHANGED <<stop, triggered, apply, files, queue, lost>>

\* scan_events over the first n queued events.
Scanned_FirstOnly(n) == {queue[1]} \cap Files
Scanned_Ignored(n) == IF pc = "poll" THEN {queue[i] : i \in 1..n} \cap Files ELSE {}
Scanned_AnyName(n) == {queue[i] : i \in 1..n}
Scanned(n) == {queue[i] : i \in 1..n} \cap Files

ReadEvents ==
    LET n == Min2(ReadMax, Len(queue))
    IN /\ queue # <<>>
       /\ triggered' = triggered \cup Scanned(n)
       /\ queue' = SubSeq(queue, n + 1, Len(queue))

\* Events only for names that are no config bring the loop back to its top.
PollRead ==
    /\ pc = "poll" /\ ReadEvents
    /\ pc' = IF triggered' = {} THEN "top" ELSE "debounce"
    /\ UNCHANGED <<stop, apply, files, lost>>

\* The debounce loop never looks at g_stop.
Drain ==
    /\ pc = "debounce" /\ ReadEvents
    /\ UNCHANGED <<pc, stop, apply, files, lost>>

\* DEBOUNCE_MS without an event, or a poll error such as an interrupting signal.
DebounceOver ==
    /\ pc = "debounce" /\ (queue = <<>> \/ stop \/ MayFail)
    /\ pc' = "spawn"
    /\ UNCHANGED <<stop, triggered, apply, files, queue, lost>>

First(f) == f \in triggered /\ \A g \in triggered : f <= g

\* spawn_apply: fork, then an untimed waitpid.
Spawn(f) ==
    /\ pc = "spawn" /\ First(f)
    /\ triggered' = triggered \ {f}
    /\ child' = f /\ childReads' = TRUE
    /\ pc' = "wait"
    /\ UNCHANGED <<stop, loaded, files, queue, lost>>

ForkFails(f) ==
    /\ MayFail /\ pc = "spawn" /\ First(f)
    /\ triggered' = triggered \ {f}
    /\ lost' = IF Queued(f) THEN lost ELSE lost \cup {f}
    /\ UNCHANGED <<pc, stop, apply, files, queue>>

SpawnsDone ==
    /\ pc = "spawn" /\ triggered = {}
    /\ pc' = "top"
    /\ UNCHANGED <<stop, triggered, apply, files, queue, lost>>

-----------------------------------------------------------------------------
(* The spawned yay_apply, seen from here: it loads its file, and it exits. *)

\* load_and_validate rejects a file it finds half-written.
ChildLoads ==
    /\ pc = "wait" /\ childReads
    /\ childReads' = FALSE
    /\ loaded' = IF writing[child] THEN loaded
                 ELSE [loaded EXCEPT ![child] = version[child]]
    /\ UNCHANGED <<watcher, child, files, queue, lost>>

ChildExits ==
    /\ pc = "wait" /\ (~childReads \/ MayFail)
    /\ child' = NoFile /\ childReads' = FALSE
    /\ lost' = IF childReads /\ ~Queued(child) THEN lost \cup {child} ELSE lost
    /\ pc' = "spawn"
    /\ UNCHANGED <<stop, triggered, loaded, files, queue>>

-----------------------------------------------------------------------------
(* Whoever changes the directory, the kernel's queue, and the signal.      *)

Full == Len(queue) >= QueueSize

\* The kernel merges an event into an equal one at the end of the queue, and
\* drops it when the queue is full (the overflow event it puts there has no
\* name, and scan_events skips it).
Merged(e)  == queue # <<>> /\ queue[Len(queue)] = e
Dropped(e) == pc = "starting" \/ (~Merged(e) /\ Full)

Notify(e) ==
    queue' = IF Dropped(e) \/ Merged(e) THEN queue ELSE Append(queue, e)

Changed(f) ==
    /\ version' = [version EXCEPT ![f] = @ + 1]
    /\ Notify(f)
    /\ lost' = IF Dropped(f) THEN (IF Queued(f) THEN lost ELSE lost \cup {f}) ELSE lost \ {f}

BeginWrite(f) ==
    /\ ~writing[f] /\ version[f] < MaxEdits
    /\ writing' = [writing EXCEPT ![f] = TRUE]
    /\ UNCHANGED <<watcher, apply, version, queue, lost>>

\* IN_CLOSE_WRITE.
CloseWrite(f) ==
    /\ writing[f]
    /\ writing' = [writing EXCEPT ![f] = FALSE]
    /\ Changed(f)
    /\ UNCHANGED <<watcher, apply>>

\* IN_MOVED_TO: an editor renames a finished file over the old one.
MoveIn(f) ==
    /\ ~writing[f] /\ version[f] < MaxEdits
    /\ Changed(f)
    /\ UNCHANGED <<watcher, apply, writing>>

Touch ==
    /\ pc # "starting"
    /\ Notify(Other)
    /\ UNCHANGED <<watcher, apply, files, lost>>

Signal ==
    /\ ~stop /\ pc # "stopped"
    /\ stop' = TRUE
    /\ UNCHANGED <<pc, triggered, apply, files, queue, lost>>

Loop == \/ AddWatch \/ GivesUp \/ LoopTop \/ PollIdle \/ PollRead \/ Drain \/ DebounceOver
        \/ (\E f \in Files : Spawn(f) \/ ForkFails(f)) \/ SpawnsDone
Child == ChildLoads \/ ChildExits
World == (\E f \in Files : BeginWrite(f) \/ CloseWrite(f) \/ MoveIn(f)) \/ Touch \/ Signal

Finished == pc = "stopped" /\ UNCHANGED vars

Next == Loop \/ Child \/ World \/ Finished

Spec == Init /\ [][Next]_vars

\* The watcher is scheduled, and a yay_apply it waits for comes to its end.
FairSpec == Spec /\ WF_vars(Loop) /\ WF_vars(Child)

-----------------------------------------------------------------------------
(* What must hold.                                                         *)

\* A finished change that no yay_apply has loaded is still on its way: its event
\* is queued, the file is marked, its yay_apply is about to load it, or an
\* editor has the file open and will cause another event.  The exceptions are a
\* change before the watch was added, one dropped from a full queue, and a
\* yay_apply that could not be started or died.
NoLostEdit ==
    \A f \in Files :
        pc # "stopped" /\ version[f] > loaded[f] =>
            \/ Queued(f) \/ f \in triggered \/ writing[f]
            \/ child = f /\ childReads
            \/ f \in lost

\* The debounce loop ends only on a pause in the events of the whole directory, and
\* that is nothing the watcher can bring about.
DebouncesEnd == []<>(pc # "debounce")

\* Once nobody changes the config files any more, every one of them has its last
\* version loaded, as long as the watcher lives and its debounces end, however
\* often other files of the directory change.
Converges ==
    DebouncesEnd /\ [](~stop /\ pc # "stopped") =>
        <>[](\A f \in Files : loaded[f] = version[f] \/ writing[f] \/ f \in lost)

\* A signal ends the watcher ("keeps g_stop check responsive"), whatever it was
\* doing and whatever goes on in the directory, unless a debounce never ends: its
\* loop does not look at g_stop.
StopHonoured == DebouncesEnd => (stop ~> pc = "stopped")

\* README: "If inotify watcher is enabled, changes apply immediately": a change
\* the watcher has noticed is handed to yay_apply.  A directory where something
\* changes more often than every DEBOUNCE_MS keeps it from that.
NoticedIsApplied == \A f \in Files : f \in triggered ~> f \notin triggered

\* What the proof of NoLostEdit rests on.
IndInv ==
    /\ TypeOK
    /\ NoLostEdit
    /\ child = NoFile <=> pc # "wait"
    /\ \A f \in Files : writing[f] => version[f] < MaxEdits
=============================================================================
