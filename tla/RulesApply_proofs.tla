-------------------------- MODULE RulesApply_proofs --------------------------
(***************************************************************************)
(* What the hash cache may hold, for every number of yay_apply processes   *)
(* and every set of configs, through overlaps, reboots and failed writes.  *)
(***************************************************************************)
EXTENDS RulesApply, TLAPS

LEMMA IndInit == Init => IndInv
BY RulesAssumption
   DEF Init, IndInv, TypeOK, PublishedAfterPass, CacheWhole, Texts, Hashes, Saving, Active, Idle

LEMMA IndStep == IndInv /\ [Next]_vars => IndInv'
<1> SUFFICES ASSUME IndInv, [Next]_vars PROVE IndInv'
  OBVIOUS
<1> USE RulesAssumption
    DEF IndInv, TypeOK, PublishedAfterPass, CacheWhole, Texts, Hashes, Saving, Active, Idle,
        vars, disk, local, past, Goto
<1>1. CASE UNCHANGED vars
  BY <1>1
<1>2. ASSUME NEW p \in Procs, NEW m \in {"plain", "force", "dry"}, Launch(p, m)
      PROVE  IndInv'
  BY <1>2 DEF Launch, Loads
<1>3. ASSUME NEW p \in Procs, HashFile(p) PROVE IndInv'
  BY <1>3 DEF HashFile, Skips, AfterHash, Forget
<1>4. ASSUME NEW p \in Procs, ApplyComponents(p) PROVE IndInv'
  BY <1>4 DEF ApplyComponents, Runs, Groups
<1>5. ASSUME NEW p \in Procs, ApplyAppops(p) PROVE IndInv'
  BY <1>5 DEF ApplyAppops, Runs, Groups, Forget
<1>6. ASSUME NEW p \in Procs, OpenTmp(p) PROVE IndInv'
  BY <1>6 DEF OpenTmp
<1>7. ASSUME NEW p \in Procs, WriteTmp(p) PROVE IndInv'
  BY <1>7 DEF WriteTmp
<1>8. ASSUME NEW p \in Procs, WriteFails(p) PROVE IndInv'
  BY <1>8 DEF WriteFails, Forget, LoneIncident
<1>9. ASSUME NEW p \in Procs, RenameTmp(p) PROVE IndInv'
  <2>1. TypeOK'
    BY <1>9 DEF RenameTmp, Forget
  <2>2. PublishedAfterPass' /\ CacheWhole'
    BY <1>9 DEF RenameTmp, Forget
  <2>3. /\ \A c \in Configs : tmp' = c => c \in passed' \cup slipped'
        /\ \A q \in Procs : pc'[q] \in {"hash", "components", "appops"} => cfg'[q] \in Configs
        /\ \A q \in Procs : Active(q)' /\ pc'[q] \in {"components", "appops"} =>
              hash'[q] \in {cfg'[q], Broken} \cup slipped'
        /\ \A q \in Procs : pc'[q] \in Saving =>
              mode'[q] # "dry" /\ (hash'[q] \in Configs => hash'[q] \in passed' \cup slipped')
        /\ \A q \in Procs : pc'[q] \notin {"idle", "hash"} => hash'[q] # Missing
        /\ \A q \in Procs : fd'[q] # "none" => pc'[q] \in {"write", "rename"}
    BY <1>9 DEF RenameTmp, Forget
  <2>4. incident' # "overlap" =>
           \A q \in Procs : Active(q)' => FALSE
    BY <1>9 DEF RenameTmp, Forget
  <2>5. incident' = "none" =>
           \A h \in Hashes : cache' = h => \A g \in Groups : ran'[g] = h
    <3>1. incident = "none" => tmp = hash[p] /\ \A g \in Groups : ran[g] = hash[p]
      BY <1>9 DEF RenameTmp
    <3>2. incident = "none" => cache' = hash[p]
      BY <1>9, <3>1 DEF RenameTmp
    <3>3. QED
      BY <1>9, <3>1, <3>2 DEF RenameTmp
  <2>6. QED
    BY <2>1, <2>2, <2>3, <2>4, <2>5
<1>10. ASSUME NEW c \in Configs \cup {Broken, Missing}, Edit(c) PROVE IndInv'
  BY <1>10 DEF Edit, LoneIncident
<1>11. CASE Crash
  BY <1>11 DEF Crash, LoneIncident
<1>12. QED
  BY <1>1, <1>2, <1>3, <1>4, <1>5, <1>6, <1>7, <1>8, <1>9, <1>10, <1>11
     DEF Next, Step

\* Type correctness and the inductive invariant itself.
THEOREM Inductive == Spec => []IndInv
BY IndInit, IndStep, PTL DEF Spec

\* Every variable keeps to its range.
THEOREM TypeCorrect == Spec => []TypeOK
<1>1. IndInv => TypeOK
  BY DEF IndInv
<1>2. QED
  BY <1>1, Inductive, PTL

\* Whatever crashes, fails or overlaps, a hash that write_hash_cache_atomic has
\* published is that of a config some process loaded and ran to the end, or one
\* that an edit slipped in between the load and the hash of a run.
THEOREM HashComesLast == Spec => []PublishedAfterPass
<1>1. IndInv => PublishedAfterPass
  BY DEF IndInv
<1>2. QED
  BY <1>1, Inductive, PTL

\* The rename keeps a reboot from leaving a cut hash in the cache, as long as
\* no two runs share the temporary file.
THEOREM CacheNeverCut == Spec => []CacheWhole
<1>1. IndInv => CacheWhole
  BY DEF IndInv
<1>2. QED
  BY <1>1, Inductive, PTL

\* The cache tells what was applied last until one of the four incidents occurs.
THEOREM CacheIsRight == Spec => []CacheMeansApplied
<1>1. IndInv => CacheMeansApplied
  BY DEF IndInv, CacheMeansApplied, HashOfLastApplied, Quiet
<1>2. QED
  BY <1>1, Inductive, PTL

\* A dry run of apply_rules changes neither Android's settings nor the cache.
THEOREM DryRunsArePure == Spec => DryRunPure
<1>1. ASSUME IndInv, [Next]_vars
      PROVE  [\A p \in Procs : mode[p] = "dry" /\ pc'[p] # pc[p] => UNCHANGED <<ran, disk>>]_vars
  <2> SUFFICES ASSUME Next, NEW p \in Procs, mode[p] = "dry", pc'[p] # pc[p]
               PROVE  UNCHANGED <<ran, disk>>
    BY <1>1 DEF vars
  <2>1. pc[p] \notin Saving
    BY <1>1 DEF IndInv
  <2>2. DOMAIN pc = Procs
    BY <1>1 DEF IndInv, TypeOK
  <2>3. ASSUME NEW q \in Procs, Step(q) PROVE UNCHANGED <<ran, disk>>
    <3>1. q = p
      BY <2>2, <2>3 DEF Step, HashFile, ApplyComponents, ApplyAppops, OpenTmp, WriteTmp,
                        WriteFails, RenameTmp, Goto, Forget
    <3>2. QED
      BY <2>1, <2>3, <3>1 DEF Step, HashFile, ApplyComponents, ApplyAppops, OpenTmp,
                              WriteTmp, WriteFails, RenameTmp, Runs, Saving
  <2>4. QED
    BY <2>3 DEF Next, Launch, Edit, Crash, disk
<1>2. QED
  BY <1>1, Inductive, PTL DEF Spec, DryRunPure
==============================================================================
