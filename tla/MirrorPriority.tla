---------------------------- MODULE MirrorPriority ----------------------------
(***************************************************************************)
(* mirror_priority.cpp: the thread of yay_watch that gives adbd, and the   *)
(* server of scrcpy, a better priority whenever adbd has been started.     *)
(*                                                                         *)
(* The thread is told of a start by the property init.svc.adbd and looks   *)
(* for the process in /proc.  Android's init forks, sets the property, and *)
(* the child executes adbd after that: until then it is not called adbd.   *)
(* An adbd is the number of its start.                                     *)
(*                                                                         *)
(* Bounds: MaxStarts starts of adbd; a scan of at most ScanTurns turns.    *)
(***************************************************************************)
EXTENDS Naturals

CONSTANTS MaxStarts,  \* bound: starts of adbd
          ScanTurns   \* kScrcpyPollBudget / kScrcpyPollInterval

ASSUME MirrorAssumption == MaxStarts \in Nat /\ ScanTurns \in Nat \ {0}

VARIABLES
    value,    \* init.svc.adbd: "absent", "running", "stopped"
    serial,   \* of the property: how often it was set
    starts,   \* how often adbd was started; the last one is number `starts'
    child,    \* that process: "none", "forked", "adbd", "dead"
    server,   \* is there a server of scrcpy?
    thread,   \* where run() is
    seen,     \* its serial
    adbd_pid, \* what it has found, 0 for none
    turns,    \* the turns of its scan
    reniced,  \* the processes it has reniced
    early     \* history: the starts for which the last look came before the exec

system == <<value, serial, starts, child, server>>
locals == <<thread, seen, adbd_pid, turns>>
mirrorVars == <<system, locals, reniced, early>>

Starts == 1..MaxStarts

MirrorTypeOK ==
    /\ value \in {"absent", "running", "stopped"} /\ serial \in 0..2 * MaxStarts
    /\ starts \in 0..MaxStarts /\ child \in {"none", "forked", "adbd", "dead"}
    /\ server \in BOOLEAN
    /\ thread \in {"begin", "first read", "wait", "read", "find", "renice", "scan"}
    /\ seen \in 0..serial /\ adbd_pid \in 0..starts /\ turns \in 0..ScanTurns
    /\ reniced \subseteq Starts /\ early \subseteq Starts

\* The property is not there yet; the thread may begin as late as it likes.
MirrorInit ==
    /\ value = "absent" /\ serial = 0 /\ starts = 0 /\ child = "none" /\ server = FALSE
    /\ thread = "begin" /\ seen = 0 /\ adbd_pid = 0 /\ turns = 0
    /\ reniced = {} /\ early = {}

-----------------------------------------------------------------------------
(* Android's init, adbd, and a user who mirrors the screen or does not.    *)

SetTo(v) == value' = v /\ serial' = serial + 1

StartAdbd ==
    /\ child = "none" /\ starts < MaxStarts
    /\ starts' = starts + 1 /\ child' = "forked" /\ SetTo("running")
    /\ UNCHANGED server

ExecAdbd == child = "forked" /\ child' = "adbd" /\ UNCHANGED <<value, serial, starts, server>>

\* A dead adbd takes scrcpy's server with it ...
AdbdDies ==
    /\ child \in {"forked", "adbd"} /\ child' = "dead" /\ server' = FALSE
    /\ UNCHANGED <<value, serial, starts>>

\* ... and is called adbd until init has waited for it.
ReapAdbd ==
    /\ child = "dead" /\ child' = "none" /\ SetTo("stopped")
    /\ UNCHANGED <<starts, server>>

Mirroring ==
    /\ child = "adbd" /\ server' = ~server /\ UNCHANGED <<value, serial, starts, child>>

Around == /\ StartAdbd \/ ExecAdbd \/ AdbdDies \/ ReapAdbd \/ Mirroring
          /\ UNCHANGED <<locals, reniced, early>>

-----------------------------------------------------------------------------
(* run()                                                                   *)

\* The property is waited for until it is there; then any serial is new.
FindProperty ==
    /\ thread = "begin" /\ value # "absent"
    /\ thread' = "first read" /\ seen' = 0
    /\ UNCHANGED <<adbd_pid, turns, reniced, early>>

Changed == serial # seen

Wait ==
    /\ thread = "wait" /\ Changed
    /\ thread' = "read" /\ seen' = serial
    /\ UNCHANGED <<adbd_pid, turns, reniced, early>>

\* The value is read after the serial, and may be a later one.
ReadValue ==
    /\ thread \in {"first read", "read"}
    /\ thread' = IF value = "running" THEN "find" ELSE "wait"
    /\ UNCHANGED <<seen, adbd_pid, turns, reniced, early>>

find_adbd_pid == IF child \in {"adbd", "dead"} THEN starts ELSE 0

FindAdbd ==
    /\ thread = "find" /\ adbd_pid' = find_adbd_pid
    /\ thread' = IF adbd_pid' > 0 THEN "renice" ELSE "scan"
    /\ turns' = 0
    /\ early' = IF child = "forked" /\ ~Changed THEN early \cup {starts} ELSE early
    /\ UNCHANGED <<seen, reniced>>

\* It may be gone by now.
Renice ==
    /\ thread = "renice" /\ thread' = "scan"
    /\ reniced' = IF adbd_pid = starts /\ child = "adbd"
                  THEN reniced \cup {adbd_pid} ELSE reniced
    /\ UNCHANGED <<seen, adbd_pid, turns, early>>

\* The serial the next wait compares with: changes during the scan count.
SeenAfterScan_Current == serial
SeenAfterScan == seen

\* One look for the server in /proc, then a sleep; no changes are waited for.
Scan ==
    /\ thread = "scan"
    /\ IF server \/ turns = ScanTurns
       THEN thread' = "wait" /\ seen' = SeenAfterScan /\ UNCHANGED turns
       ELSE turns' = turns + 1 /\ UNCHANGED <<thread, seen>>
    /\ UNCHANGED <<adbd_pid, reniced, early>>

Thread == /\ FindProperty \/ Wait \/ ReadValue \/ FindAdbd \/ Renice \/ Scan
          /\ UNCHANGED system

MirrorNext == Around \/ Thread

\* The thread is scheduled; nothing is assumed of init and of adbd.
MirrorFairness == WF_mirrorVars(Thread)
MirrorSpec == MirrorInit /\ [][MirrorNext]_mirrorVars /\ MirrorFairness

-----------------------------------------------------------------------------
(* Properties.                                                             *)

\* An adbd that stays up is reniced in the end, however often it was restarted while
\* the thread was scanning for scrcpy and waiting for nothing; unless the thread has
\* looked for it before its exec, since nothing tells it of that
\* (renice_adbd_and_scan_for_scrcpy, run).
AdbdReniced == []<>(child = "adbd" => starts \in reniced \cup early)

=============================================================================
