------------------------------ MODULE RulesApply ------------------------------
(***************************************************************************)
(* `yay_apply --rules`: run_rules (main_apply.cpp), apply_rules            *)
(* (rules_engine.cpp) and the hash cache (hash_util.cpp).  Several         *)
(* yay_apply processes may run at once (the boot script, the watcher and   *)
(* the web UI each start one, and nothing locks), while rules.json is      *)
(* edited and the phone may reboot at any moment.                          *)
(*                                                                         *)
(* A content of rules.json is a value, and its hash is that value: djb2    *)
(* collisions are left out.  A batch of commands takes effect at once;     *)
(* `ran` records whose commands were last run, not that Android accepted   *)
(* them.  Every writer opens the same path <cache>.tmp, and a rename moves  *)
(* the file under a writer's feet: `fd` says which path names it by now.   *)
(***************************************************************************)
EXTENDS Integers, FiniteSets

CONSTANTS Procs,         \* who starts yay_apply --rules: the watcher, the web UI...
          ModesOf,       \* the flags each of them passes
          Configs,       \* contents that load and pass validate_config_shape
          Broken,        \* any content that does not: empty, cut short, wrong shape
          Missing,       \* no such file
          Torn,          \* the text of a cache file that is no hash: empty or cut short
          MayCrash,      \* may the phone reboot, or a process be killed?
          MayEditInside, \* may an edit fall between the load and the hash?
          MayFailWrite   \* may opening, writing or renaming the temporary file fail?

ASSUME RulesAssumption ==
    /\ ModesOf \in [Procs -> SUBSET {"plain", "force", "dry"}]
    /\ Configs \cap {Broken, Missing, Torn} = {}
    /\ Broken # Missing /\ Torn \notin {Broken, Missing}
    /\ MayCrash \in BOOLEAN /\ MayEditInside \in BOOLEAN /\ MayFailWrite \in BOOLEAN

Hashes == Configs \cup {Broken}
Texts  == Hashes \cup {Torn, Missing}
Groups == {"components", "appops"}
Saving == {"open", "write", "rename"}

VARIABLES
    file,      \* what rules.json holds
    cache,     \* text of rules.hash
    tmp,       \* text of rules.hash.tmp
    ran,       \* for each group, the config whose commands were run last
    pc,        \* where each process stands
    mode,      \* "plain", "force" or "dry" (--rules, --rules --force, --rules --dry-run)
    cfg,       \* the config it loaded
    hash,      \* current_hash
    fd,        \* what names the temporary file it opened: "tmp", "cache", or "gone"
    passed,    \* history: configs of which a process ran both batches to the end
    slipped,   \* history: configs hashed by a run that had loaded another one
    incident   \* history: "overlap" once two runs overlapped, else "lone" once an edit,
               \* a crash or a failed write hit a run, else "none"

disk  == <<cache, tmp>>
local == <<mode, cfg, hash, fd>>
past  == <<passed, slipped, incident>>
vars  == <<file, disk, ran, pc, local, past>>

LoneIncident == incident' = IF incident = "none" THEN "lone" ELSE incident

Idle(p)   == pc[p] = "idle"
Active(p) == ~Idle(p) /\ mode[p] # "dry"

TypeOK ==
    /\ file \in Configs \cup {Broken, Missing}
    /\ cache \in Texts /\ tmp \in Texts
    /\ ran \in [Groups -> Configs \cup {Missing}]
    /\ pc \in [Procs -> {"idle", "hash", "components", "appops", "open", "write",
                         "rename"}]
    /\ mode \in [Procs -> {"plain", "force", "dry"}]
    /\ cfg \in [Procs -> Configs \cup {Missing}]
    /\ hash \in [Procs -> Hashes \cup {Missing}]
    /\ fd \in [Procs -> {"none", "tmp", "cache", "gone"}]
    /\ passed \in SUBSET Configs /\ slipped \in SUBSET Configs
    /\ incident \in {"none", "lone", "overlap"}

Init ==
    /\ file \in Configs \cup {Missing}
    /\ cache = Missing /\ tmp = Missing
    /\ ran = [g \in Groups |-> Missing]
    /\ pc = [p \in Procs |-> "idle"] /\ mode = [p \in Procs |-> "plain"]
    /\ cfg = [p \in Procs |-> Missing] /\ hash = [p \in Procs |-> Missing]
    /\ fd = [p \in Procs |-> "none"]
    /\ passed = {} /\ slipped = {} /\ incident = "none"

-----------------------------------------------------------------------------
(* One yay_apply process.                                                  *)

Goto(p, where) == pc' = [pc EXCEPT ![p] = where]

\* Leaving the process forgets what it had in memory, save `fd`.
Forget(p) ==
    /\ Goto(p, "idle")
    /\ cfg' = [cfg EXCEPT ![p] = Missing] /\ hash' = [hash EXCEPT ![p] = Missing]
    /\ mode' = [mode EXCEPT ![p] = "plain"]

Loads_Unvalidated(f) == f # Missing
Loads(f) == f \in Configs

\* The process starts and load_and_validate reads the file; a file it rejects
\* ends the run before it has done anything.
Launch(p, m) ==
    /\ Idle(p) /\ m \in ModesOf[p] /\ Loads(file)
    /\ Goto(p, "hash") /\ mode' = [mode EXCEPT ![p] = m]
    /\ cfg' = [cfg EXCEPT ![p] = file]
    /\ incident' = IF m # "dry" /\ \E q \in Procs : Active(q) THEN "overlap" ELSE incident
    /\ UNCHANGED <<file, disk, ran, hash, fd, passed, slipped>>

Skips_Always(h) == cache # Missing
Skips(h) == cache = h

AfterHash_Publish == "open"
AfterHash == "components"

\* hash_file opens the path again and sees the file as it is now; without
\* --force and --dry-run the cached hash may end the run.
HashFile(p) ==
    /\ pc[p] = "hash"
    /\ IF file = Missing \/ (mode[p] = "plain" /\ Skips(file))
       THEN Forget(p) /\ UNCHANGED slipped
       ELSE /\ hash' = [hash EXCEPT ![p] = file]
            /\ slipped' = IF file # cfg[p] /\ mode[p] # "dry"
                          THEN slipped \cup ({file} \cap Configs) ELSE slipped
            /\ Goto(p, AfterHash)
            /\ UNCHANGED <<mode, cfg>>
    /\ UNCHANGED <<file, disk, ran, fd, passed, incident>>

Runs_EvenDry(p) == TRUE
Runs(p) == mode[p] # "dry"

ApplyComponents(p) ==
    /\ pc[p] = "components"
    /\ ran' = IF Runs(p) THEN [ran EXCEPT !["components"] = cfg[p]] ELSE ran
    /\ Goto(p, "appops")
    /\ UNCHANGED <<file, disk, local, past>>

\* A dry run returns after its second preview.
ApplyAppops(p) ==
    /\ pc[p] = "appops"
    /\ IF Runs(p)
       THEN /\ ran' = [ran EXCEPT !["appops"] = cfg[p]]
            /\ passed' = passed \cup {cfg[p]}
            /\ Goto(p, "open") /\ cfg' = [cfg EXCEPT ![p] = Missing]
            /\ UNCHANGED <<mode, hash>>
       ELSE Forget(p) /\ UNCHANGED <<ran, passed>>
    /\ UNCHANGED <<file, disk, fd, slipped, incident>>

-----------------------------------------------------------------------------
(* write_hash_cache_atomic.                                                *)

\* O_CREAT | O_TRUNC on <cache>.tmp: another process's temporary file, or one a
\* crash left behind, is taken over and emptied.
OpenTmp_InPlace(p) ==
    /\ pc[p] = "open"
    /\ cache' = Torn /\ fd' = [fd EXCEPT ![p] = "cache"]
    /\ Goto(p, "write")
    /\ UNCHANGED <<file, tmp, ran, mode, cfg, hash, past>>

OpenTmp(p) ==
    /\ pc[p] = "open"
    /\ tmp' = Torn /\ fd' = [fd EXCEPT ![p] = "tmp"]
    /\ Goto(p, "write")
    /\ UNCHANGED <<file, cache, ran, mode, cfg, hash, past>>

\* The text goes to the open file, wherever a rename has taken it meanwhile.
WriteTmp(p) ==
    /\ pc[p] = "write"
    /\ tmp' = IF fd[p] = "tmp" THEN hash[p] ELSE tmp
    /\ cache' = IF fd[p] = "cache" THEN hash[p] ELSE cache
    /\ Goto(p, "rename")
    /\ UNCHANGED <<file, ran, local, past>>

\* A failed open; or a failed write, fsync or rename, and the path is unlinked.
WriteFails(p) ==
    /\ pc[p] \in Saving /\ MayFailWrite
    /\ IF pc[p] = "open"
       THEN UNCHANGED <<tmp, fd>>
       ELSE /\ tmp' = Missing
            /\ fd' = [q \in Procs |-> IF q = p THEN "none"
                                      ELSE IF fd[q] = "tmp" THEN "gone" ELSE fd[q]]
    /\ LoneIncident /\ Forget(p)
    /\ UNCHANGED <<file, cache, ran, passed, slipped>>

\* rename publishes whatever the path names by now; with nothing there it fails.
RenameTmp(p) ==
    /\ pc[p] = "rename"
    /\ cache' = IF tmp = Missing THEN cache ELSE tmp
    /\ tmp' = Missing
    /\ fd' = [q \in Procs |-> IF q = p THEN "none"
                              ELSE IF tmp # Missing /\ fd[q] = "tmp" THEN "cache"
                              ELSE IF tmp # Missing /\ fd[q] = "cache" THEN "gone"
                              ELSE fd[q]]
    /\ Forget(p)
    /\ UNCHANGED <<file, ran, past>>

-----------------------------------------------------------------------------
(* The world around it.                                                    *)

\* The file changes: bridge.js truncates and rewrites it in place (Broken, then
\* a config), an editor renames a new one over it, a user deletes it.
Edit(c) ==
    /\ file # c
    /\ LET inside == \E p \in Procs : pc[p] = "hash" /\ mode[p] # "dry"
       IN /\ inside => MayEditInside
          /\ IF inside THEN LoneIncident ELSE UNCHANGED incident
    /\ file' = c
    /\ UNCHANGED <<disk, ran, pc, local, passed, slipped>>

\* A reboot: every process dies, the files and Android's settings stay.
Crash ==
    /\ MayCrash /\ \E p \in Procs : ~Idle(p)
    /\ pc' = [p \in Procs |-> "idle"] /\ mode' = [p \in Procs |-> "plain"]
    /\ cfg' = [p \in Procs |-> Missing] /\ hash' = [p \in Procs |-> Missing]
    /\ fd' = [p \in Procs |-> "none"]
    /\ IF \E p \in Procs : Active(p) THEN LoneIncident ELSE UNCHANGED incident
    /\ UNCHANGED <<file, disk, ran, passed, slipped>>

Step(p) == \/ HashFile(p)
           \/ ApplyComponents(p) \/ ApplyAppops(p)
           \/ OpenTmp(p) \/ WriteTmp(p) \/ WriteFails(p) \/ RenameTmp(p)

Next == \/ \E p \in Procs : Step(p) \/ \E m \in {"plain", "force", "dry"} : Launch(p, m)
        \/ \E c \in Configs \cup {Broken, Missing} : Edit(c)
        \/ Crash

Spec == Init /\ [][Next]_vars

\* A started process runs.
FairSpec == Spec /\ \A p \in Procs : WF_vars(Step(p))

-----------------------------------------------------------------------------
(* What must hold.                                                         *)

Quiet == \A p \in Procs : ~Active(p)

\* README: rules.hash is the "hash of last applied rules.json".  A later boot
\* skips the rules on the strength of it.
HashOfLastApplied ==
    \A h \in Hashes : Quiet /\ cache = h => \A g \in Groups : ran[g] = h

\* It holds until one of exactly four things happens: an edit between the load
\* and the hash, two overlapping runs, a run cut off by a reboot, or a hash
\* that could not be written.
CacheMeansApplied == incident = "none" => HashOfLastApplied

\* Through crashes, failed writes and overlaps alike, the hash of a config is
\* never in the cache before some process has run both batches of that very
\* config.  The one way around it is an edit between a run's load and its hash:
\* the run then hashes a config it has not loaded, and publishes it (rules_edit
\* shows what comes of that).
PublishedAfterPass == \A c \in Configs : cache = c => c \in passed \cup slipped

\* Unless two runs share the temporary file, a reboot at any moment leaves the
\* old hash or the new one, never a cut one.
CacheWhole == incident # "overlap" => cache # Torn

\* A dry run neither runs a command nor touches the cache or its temporary file
\* (README, "Dry-run mode"), whatever runs beside it.
DryRunPure ==
    [][\A p \in Procs : mode[p] = "dry" /\ pc'[p] # pc[p] =>
                        UNCHANGED <<ran, disk>>]_vars

\* The hash guard never leaves a file that has stopped changing unapplied, as
\* long as runs keep being started and none of the four incidents occurs.
GuardConverges ==
    \A c \in Configs :
        /\ [](incident = "none") /\ <>[](file = c)
        /\ []<>(\E p \in Procs : pc[p] = "hash" /\ mode[p] = "plain")
        => <>[](\A g \in Groups : ran[g] = c)

\* What the proofs rest on: a run works for the config it hashed, unless that
\* slipped in; a config's hash on its way to the cache has been passed or has
\* slipped in; a run that nobody overlaps has the temporary file to itself; and
\* without an incident each step of a run works for the config that is in the
\* file, and until its first batch the cache is still right.
IndInv ==
    /\ TypeOK
    /\ PublishedAfterPass
    /\ CacheWhole
    /\ \A c \in Configs : tmp = c => c \in passed \cup slipped
    /\ \A p \in Procs : pc[p] \in {"hash", "components", "appops"} => cfg[p] \in Configs
    /\ \A p \in Procs : Active(p) /\ pc[p] \in {"components", "appops"} =>
           hash[p] \in {cfg[p], Broken} \cup slipped
    /\ \A p \in Procs : pc[p] \in Saving =>
           mode[p] # "dry" /\ (hash[p] \in Configs => hash[p] \in passed \cup slipped)
    /\ \A p \in Procs : pc[p] \notin {"idle", "hash"} => hash[p] # Missing
    /\ \A p \in Procs : fd[p] # "none" => pc[p] \in {"write", "rename"}
    /\ incident # "overlap" =>
           /\ \A p, q \in Procs : Active(p) /\ Active(q) => p = q
           /\ \A p \in Procs : /\ pc[p] = "write" => fd[p] = "tmp"
                               /\ pc[p] = "rename" => fd[p] = "tmp" /\ tmp = hash[p]
    /\ incident = "none" =>
           /\ \A p \in Procs : Active(p) =>
                 /\ pc[p] = "hash" => file = cfg[p]
                 /\ pc[p] \in {"components", "appops"} => hash[p] = cfg[p]
                 /\ pc[p] = "appops" => ran["components"] = cfg[p]
                 /\ pc[p] \in Saving => \A g \in Groups : ran[g] = hash[p]
           /\ (\A p \in Procs : Active(p) => pc[p] = "hash") =>
                 \A h \in Hashes : cache = h => \A g \in Groups : ran[g] = h
=============================================================================
