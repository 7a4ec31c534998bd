---------------------------- MODULE SettingsPage ----------------------------
(***************************************************************************)
(* The settings page: two switches, each for a flag file that service.sh   *)
(* and yay_watch look for at the next boot, and the export of the logs.    *)
(*                                                                         *)
(* A switch shows the user's tap at once and takes it back if the write of *)
(* the flag file is rejected.  The calls that wait for the host are in     *)
(* `jobs', in the order of their issue; the answer of one is the rest of   *)
(* its function.                                                           *)
(*                                                                         *)
(* The timer that clears the result of an export runs as long as the       *)
(* export's modal fades out, and the fading starts a frame later: the      *)
(* timer is taken to fire first.                                           *)
(*                                                                         *)
(* Bounds: MaxToggles taps on the switches, MaxExports exports.            *)
(***************************************************************************)
EXTENDS Bridge, Sequences, SequencesExt

CONSTANTS MaxToggles, MaxExports  \* bounds: taps on the switches, exports

ASSUME SettingsAssumption == MaxToggles \in Nat /\ MaxExports \in Nat

VARIABLES
    flag,    \* which flag files exist
    on,      \* watcherEnabled and mirrorPriorityEnabled
    ready,   \* not watcherLoading, not mirrorPriorityLoading
    jobs,    \* the calls that wait for the host
    toggles, exports,  \* history: how many there were
    rough,   \* history: a call for the switch went wrong behind the page's back
    exportModal,   \* "closed", "open", "leaving"
    exportStatus,  \* "idle", "loading", "success", "error"
    timers,  \* the timers of closeExportModal still to fire
    hasty    \* history: a tap on the modal while it faded out

switchVars == <<flag, on, ready, toggles, rough>>
exportVars == <<exports, exportModal, exportStatus, timers, hasty>>
settingsVars == <<host, switchVars, jobs, exportVars>>

Switches == {"watch", "mirror"}
Jobs == [verb : {"probe", "enable", "disable", "export"}, sw : Switches,
         st : {"issued", "answered"}, ok : BOOLEAN]
Job(verb, sw) == [verb |-> verb, sw |-> sw, st |-> "issued", ok |-> TRUE]

SettingsTypeOK ==
    /\ host \in Hosts /\ jobs \in Seq(Jobs)
    /\ {flag, on, ready, rough} \subseteq [Switches -> BOOLEAN]
    /\ toggles \in 0..MaxToggles /\ exports \in 0..MaxExports
    /\ exportModal \in {"closed", "open", "leaving"}
    /\ exportStatus \in {"idle", "loading", "success", "error"}
    /\ timers \in 0..MaxExports + 1 /\ hasty \in BOOLEAN

SettingsInit ==
    /\ host \in Hosts
    /\ flag \in [Switches -> BOOLEAN]
    /\ on = [sw \in Switches |-> FALSE] /\ ready = [sw \in Switches |-> FALSE]
    /\ jobs = <<>> /\ toggles = 0 /\ exports = 0 /\ rough = [sw \in Switches |-> FALSE]
    /\ exportModal = "closed" /\ exportStatus = "idle" /\ timers = 0 /\ hasty = FALSE

Instant == FilesVia(host) = "interface"
Switching(i, sw) == jobs[i].verb # "export" /\ jobs[i].sw = sw
Pending(sw) == \E i \in DOMAIN jobs : Switching(i, sw)

-----------------------------------------------------------------------------
(* The switches.                                                           *)

Mounted == jobs # <<>> \/ \E sw \in Switches : ready[sw]

\* onMounted looks for one file after the other.
ProbeFirst ==
    /\ ~Mounted
    /\ IF Instant
       THEN on' = flag /\ ready' = [sw \in Switches |-> TRUE] /\ UNCHANGED jobs
       ELSE jobs' = <<Job("probe", "watch")>> /\ UNCHANGED <<on, ready>>
    /\ UNCHANGED <<host, flag, toggles, rough, exportVars>>

\* A spinner stands in for a switch until its file was looked for.
Usable(sw) == ready[sw] /\ exportModal = "closed"

\* toggleWatcher and toggleMirrorPriority, up to the answer.  The file interface
\* writes at once, before an `rm' the shell has yet to run.
ToggleSwitch(sw) ==
    /\ Usable(sw) /\ toggles < MaxToggles /\ toggles' = toggles + 1
    /\ on' = [on EXCEPT ![sw] = ~@]
    /\ IF Instant /\ ~on[sw]
       THEN /\ flag' = [flag EXCEPT ![sw] = TRUE]
            /\ rough' = [rough EXCEPT ![sw] = @ \/ Pending(sw)]
            /\ UNCHANGED jobs
       ELSE /\ jobs' = Append(jobs, Job(IF on[sw] THEN "disable" ELSE "enable", sw))
            /\ UNCHANGED <<flag, rough>>
    /\ UNCHANGED <<host, ready, exportVars>>

\* What a command does to the file, and what it then answers.
Effect(job) ==
    CASE job.verb = "enable" -> [flag EXCEPT ![job.sw] = TRUE]
      [] job.verb = "disable" /\ ExecVia(host) = "shell" -> [flag EXCEPT ![job.sw] = FALSE]
      [] OTHER -> flag

Ran(i, ok) == jobs' = [jobs EXCEPT ![i].st = "answered", ![i].ok = ok]

\* A probe answers with the file it has found, in `ok'.
RunJob(i) ==
    /\ flag' = Effect(jobs[i])
    /\ Ran(i, jobs[i].verb = "probe" => flag[jobs[i].sw])
    /\ UNCHANGED rough

\* A failed probe says there is no file, a failed `rm' says nothing, and a failed
\* write may have created the file.
FailJob(i) ==
    /\ isKSU(host) /\ Ran(i, FALSE)
    /\ \/ jobs[i].verb \in {"enable", "export"} /\ UNCHANGED <<flag, rough>>
       \/ /\ jobs[i].verb # "export" /\ rough' = [rough EXCEPT ![jobs[i].sw] = TRUE]
          /\ flag' = IF jobs[i].verb = "enable" THEN Effect(jobs[i]) ELSE flag

Host(i) ==
    /\ jobs[i].st = "issued"
    /\ InTurn(i, {j \in DOMAIN jobs : jobs[j].st = "issued"})
    /\ RunJob(i) \/ FailJob(i)
    /\ UNCHANGED <<host, on, ready, toggles, exportVars>>

Answers(i, verbs) == /\ jobs[i].st = "answered" /\ jobs[i].verb \in verbs
                     /\ InTurn(i, DOMAIN jobs)

Probed(i) ==
    LET sw == jobs[i].sw
    IN  /\ Answers(i, {"probe"})
        /\ on' = [on EXCEPT ![sw] = jobs[i].ok] /\ ready' = [ready EXCEPT ![sw] = TRUE]
        /\ jobs' = IF sw = "watch" THEN Append(RemoveAt(jobs, i), Job("probe", "mirror"))
                                   ELSE RemoveAt(jobs, i)
        /\ UNCHANGED <<host, flag, toggles, rough, exportVars>>

\* The catch block of toggleWatcher: the switch goes back to !value.
RolledBack_Not(sw) == on
RolledBack(sw) == [on EXCEPT ![sw] = FALSE]

\* The errno of `rm' is not looked at.  A rollback that comes after another tap on
\* the switch takes that one back.
Switched(i) ==
    LET sw == jobs[i].sw
        rejected == jobs[i].verb = "enable" /\ ~jobs[i].ok
    IN  /\ Answers(i, {"enable", "disable"})
        /\ on' = IF rejected THEN RolledBack(sw) ELSE on
        /\ rough' = [rough EXCEPT ![sw] =
                        @ \/ (rejected /\ \E j \in DOMAIN jobs \ {i} : Switching(j, sw))]
        /\ jobs' = RemoveAt(jobs, i)
        /\ UNCHANGED <<host, flag, ready, toggles, exportVars>>

-----------------------------------------------------------------------------
(* The export.                                                             *)

OpenExport ==
    /\ Mounted /\ exportModal = "closed" /\ exports < MaxExports /\ exports' = exports + 1
    /\ exportModal' = "open" /\ exportStatus' = "loading"
    /\ jobs' = Append(jobs, Job("export", "watch"))
    /\ UNCHANGED <<host, switchVars, timers, hasty>>

Exported(i) ==
    /\ Answers(i, {"export"})
    /\ exportStatus' = IF jobs[i].ok THEN "success" ELSE "error"
    /\ jobs' = RemoveAt(jobs, i)
    /\ UNCHANGED <<host, switchVars, exports, exportModal, timers, hasty>>

\* There is no button, and a tap outside does nothing, while the export is loading.
CloseShown_Always == TRUE
CloseShown == exportStatus # "loading"

CloseExport ==
    /\ CloseShown /\ exportModal \in {"open", "leaving"} /\ timers <= MaxExports
    /\ exportModal' = "leaving" /\ timers' = timers + 1
    /\ hasty' = (hasty \/ exportModal = "leaving")
    /\ UNCHANGED <<host, switchVars, jobs, exports, exportStatus>>

Timeout ==
    /\ timers > 0 /\ timers' = timers - 1
    /\ exportStatus' = IF exportStatus = "loading" THEN exportStatus ELSE "idle"
    /\ UNCHANGED <<host, switchVars, jobs, exports, exportModal, hasty>>

\* The first timer is the one that was started with the fading.
ExportFaded ==
    /\ exportModal = "leaving" /\ exportModal' = "closed"
    /\ timers = 0 \/ hasty
    /\ UNCHANGED <<host, switchVars, jobs, exports, exportStatus, timers, hasty>>

SettingsNext ==
    \/ ProbeFirst \/ (\E sw \in Switches : ToggleSwitch(sw))
    \/ \E i \in DOMAIN jobs : Host(i) \/ Probed(i) \/ Switched(i) \/ Exported(i)
    \/ OpenExport \/ CloseExport \/ Timeout \/ ExportFaded

SettingsSpec == SettingsInit /\ [][SettingsNext]_settingsVars

-----------------------------------------------------------------------------
(* Properties.                                                             *)

\* On a host with a shell that keeps the order, a switch at rest shows whether its
\* flag file exists, whatever was tapped and rejected in the meantime
\* (toggleWatcher, setWatcherEnabled); unless an `rm' or a look for the file failed,
\* which the page does not notice, a write failed half way or its rollback hit a
\* later tap, or the file interface has overtaken an `rm'.
SwitchTruth ==
    host.ksu /\ host.serial =>
        \A sw \in Switches :
            ready[sw] /\ ~Pending(sw) /\ ~rough[sw] => on[sw] = flag[sw]

\* The result of an export stays on the modal until the user closes it: neither an
\* older export nor the timer of an older closing changes it, if the modal is not
\* tapped while it fades out (openExportModal, closeExportModal).
ResultKept ==
    [][(exportStatus \in {"success", "error"} /\ exportModal = "open"
        /\ exportModal' = "open" /\ ~hasty) => exportStatus' = exportStatus]_settingsVars

=============================================================================
