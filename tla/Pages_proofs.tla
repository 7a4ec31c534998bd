----------------------------- MODULE Pages_proofs -----------------------------
(***************************************************************************)
(* The settings page shows the truth about its flag files, the pickers     *)
(* show the package that is asked for, and what they add is kept by the    *)
(* rules engine, and the log page hides no line, on every kind of host and *)
(* for any number of taps, requests and lines.                             *)
(***************************************************************************)
EXTENDS SettingsPage, LogPage, Pickers, QueueLemmas

-----------------------------------------------------------------------------
(* The settings page.                                                      *)

\* A call for a switch, and what it leaves of the flag file if it did not go wrong.
IsFor(i, sw) == jobs[i].verb \in {"enable", "disable"} /\ jobs[i].sw = sw
Done(i) == jobs[i].st = "answered"
Leaves(i) == jobs[i].verb = "enable" /\ jobs[i].ok

\* A serial host answers in order.
JobOrder == host.serial => \A i, j \in DOMAIN jobs : i < j /\ Done(j) => Done(i)

\* One look for a file at a time, and no tap on a switch before its answer.
Probing ==
    /\ \A i, j \in DOMAIN jobs : jobs[i].verb = "probe" /\ jobs[j].verb = "probe" => i = j
    /\ \A i \in DOMAIN jobs :
          /\ jobs[i].verb = "probe" =>
                /\ ~ready[jobs[i].sw] /\ ~ready["mirror"]
                /\ Done(i) /\ ~rough[jobs[i].sw] => jobs[i].ok = flag[jobs[i].sw]
          /\ jobs[i].verb \in {"enable", "disable"} => ready[jobs[i].sw]

\* What the calls for a switch make of the flag file while nothing goes wrong with them:
\* the last one agrees with the switch, ...
LastShown(sw) ==
    \A i \in DOMAIN jobs :
        IsFor(i, sw) /\ (\A j \in DOMAIN jobs : IsFor(j, sw) => j <= i) =>
            (on[sw] <=> jobs[i].verb = "enable")
\* ... without any the file does, ...
AtRest(sw) ==
    ready[sw] /\ (\A i \in DOMAIN jobs : ~IsFor(i, sw)) => (on[sw] <=> flag[sw])
\* ... the file is as the last one that was answered left it, ...
LastLeft(sw) ==
    \A i \in DOMAIN jobs :
        IsFor(i, sw) /\ Done(i) /\ (\A j \in DOMAIN jobs : IsFor(j, sw) /\ i < j => ~Done(j)) =>
            (flag[sw] <=> Leaves(i))
\* ... is not there when a tap sets out to create it, ...
FirstEnables(sw) ==
    \A i \in DOMAIN jobs :
        IsFor(i, sw) /\ ~Done(i) /\ jobs[i].verb = "enable"
            /\ (\A j \in DOMAIN jobs : IsFor(j, sw) => i <= j) => ~flag[sw]
\* ... and the taps take turns.
Alternate(sw) ==
    \A i, j \in DOMAIN jobs :
        IsFor(i, sw) /\ IsFor(j, sw) /\ i < j
            /\ (\A k \in DOMAIN jobs : IsFor(k, sw) => k <= i \/ j <= k) =>
                  jobs[i].verb # jobs[j].verb

Follows(sw) == LastShown(sw) /\ AtRest(sw) /\ LastLeft(sw) /\ FirstEnables(sw) /\ Alternate(sw)

FlagFollows == host.ksu /\ host.serial => \A sw \in Switches : ~rough[sw] => Follows(sw)

\* One export at a time, as long as its modal is open, and no timer of an older closing.
OneExport ==
    /\ \A i, j \in DOMAIN jobs : jobs[i].verb = "export" /\ jobs[j].verb = "export" => i = j
    /\ (\E i \in DOMAIN jobs : jobs[i].verb = "export") =>
          exportModal = "open" /\ exportStatus = "loading"
    /\ ~hasty => /\ exportModal # "leaving" => timers = 0
                 /\ timers <= 1

SettingsInv == SettingsTypeOK /\ JobOrder /\ Probing /\ FlagFollows /\ OneExport

LEMMA SettingsTypes ==
    ASSUME SettingsTypeOK
    PROVE  /\ jobs \in Seq(Jobs) /\ Len(jobs) \in Nat /\ DOMAIN jobs = 1..Len(jobs)
           /\ \A i \in DOMAIN jobs : jobs[i] \in Jobs /\ jobs[i].sw \in Switches
                                     /\ jobs[i].ok \in BOOLEAN
           /\ flag \in [Switches -> BOOLEAN] /\ on \in [Switches -> BOOLEAN]
           /\ ready \in [Switches -> BOOLEAN] /\ rough \in [Switches -> BOOLEAN]
<1>1. jobs \in Seq(Jobs)
  BY DEF SettingsTypeOK
<1>2. Len(jobs) \in Nat /\ DOMAIN jobs = 1..Len(jobs) /\ \A i \in DOMAIN jobs : jobs[i] \in Jobs
  BY <1>1
<1>3. \A i \in DOMAIN jobs : jobs[i].sw \in Switches /\ jobs[i].ok \in BOOLEAN
  BY <1>2 DEF Jobs
<1>4. QED
  BY <1>1, <1>2, <1>3 DEF SettingsTypeOK

LEMMA JobType ==
    ASSUME NEW verb \in {"probe", "enable", "disable", "export"}, NEW sw \in Switches
    PROVE  /\ Job(verb, sw) \in Jobs /\ Job(verb, sw).verb = verb /\ Job(verb, sw).sw = sw
           /\ Job(verb, sw).st = "issued"
BY DEF Job, Jobs

\* A call is issued.
LEMMA JobIssued ==
    ASSUME SettingsTypeOK, NEW job \in Jobs, jobs' = Append(jobs, job)
    PROVE  \E L \in Nat :
              /\ jobs' \in Seq(Jobs) /\ DOMAIN jobs' = DOMAIN jobs \cup {L} /\ jobs'[L] = job
              /\ L \notin DOMAIN jobs
              /\ \A j \in DOMAIN jobs : jobs'[j] = jobs[j] /\ j < L /\ ~(L < j) /\ ~(L <= j)
<1>1. PICK L : L = Len(jobs) + 1
  OBVIOUS
<1>2. jobs \in Seq(Jobs) /\ Len(jobs) \in Nat /\ DOMAIN jobs = 1..Len(jobs)
  BY SettingsTypes
<1>3. /\ jobs' \in Seq(Jobs) /\ DOMAIN jobs' = DOMAIN jobs \cup {L} /\ jobs'[L] = job
      /\ \A j \in DOMAIN jobs : jobs'[j] = jobs[j] /\ j < L
  BY <1>1, <1>2, AppendAtEnd
<1>4. L \in Nat /\ L \notin DOMAIN jobs /\ \A j \in DOMAIN jobs : ~(L < j) /\ ~(L <= j)
  BY <1>1, <1>2
<1>5. QED
  BY <1>3, <1>4

\* A call for something else leaves a switch as it is.
LEMMA OtherIssued ==
    ASSUME SettingsTypeOK, NEW sw \in Switches, Follows(sw), NEW job \in Jobs,
           jobs' = Append(jobs, job), job.verb \notin {"enable", "disable"} \/ job.sw # sw,
           on'[sw] = on[sw], flag'[sw] = flag[sw], ready'[sw] = ready[sw]
    PROVE  Follows(sw)'
<1>1. PICK L \in Nat :
              /\ jobs' \in Seq(Jobs) /\ DOMAIN jobs' = DOMAIN jobs \cup {L} /\ jobs'[L] = job
              /\ L \notin DOMAIN jobs
              /\ \A j \in DOMAIN jobs : jobs'[j] = jobs[j] /\ j < L /\ ~(L < j) /\ ~(L <= j)
  BY JobIssued
<1>2. /\ ~IsFor(L, sw)'
      /\ \A j \in DOMAIN jobs : /\ IsFor(j, sw)' <=> IsFor(j, sw)
                                /\ Done(j)' <=> Done(j)
                                /\ Leaves(j)' <=> Leaves(j)
  BY <1>1 DEF IsFor, Done, Leaves
<1>3. LastShown(sw)'
  BY <1>1, <1>2 DEF Follows, LastShown
<1>4. AtRest(sw)'
  BY <1>1, <1>2 DEF Follows, AtRest
<1>5. LastLeft(sw)'
  BY <1>1, <1>2 DEF Follows, LastLeft
<1>6. FirstEnables(sw)'
  BY <1>1, <1>2 DEF Follows, FirstEnables
<1>7. Alternate(sw)'
  BY <1>1, <1>2 DEF Follows, Alternate
<1>8. QED
  BY <1>3, <1>4, <1>5, <1>6, <1>7 DEF Follows

\* A tap: the call undoes what the last one does.
LEMMA TapIssued ==
    ASSUME SettingsTypeOK, NEW sw \in Switches, Follows(sw), ready[sw],
           NEW job \in Jobs, job.verb = (IF on[sw] THEN "disable" ELSE "enable"),
           job.sw = sw, job.st = "issued",
           jobs' = Append(jobs, job), on'[sw] = ~on[sw], flag'[sw] = flag[sw]
    PROVE  Follows(sw)'
<1>1. PICK L \in Nat :
              /\ jobs' \in Seq(Jobs) /\ DOMAIN jobs' = DOMAIN jobs \cup {L} /\ jobs'[L] = job
              /\ L \notin DOMAIN jobs
              /\ \A j \in DOMAIN jobs : jobs'[j] = jobs[j] /\ j < L /\ ~(L < j) /\ ~(L <= j)
  BY JobIssued
<1>2. /\ IsFor(L, sw)' /\ ~Done(L)' /\ (jobs'[L].verb = "enable" <=> ~on[sw])
      /\ L \in DOMAIN jobs' /\ (on'[sw] <=> ~on[sw])
      /\ \A j \in DOMAIN jobs : /\ IsFor(j, sw)' <=> IsFor(j, sw)
                                /\ Done(j)' <=> Done(j)
                                /\ Leaves(j)' <=> Leaves(j)
                                /\ jobs'[j].verb = jobs[j].verb
  BY <1>1 DEF IsFor, Done, Leaves
<1>3. LastShown(sw)'
  BY <1>1, <1>2 DEF LastShown
<1>4. AtRest(sw)'
  BY <1>2 DEF AtRest
<1>5. LastLeft(sw)'
  BY <1>1, <1>2 DEF Follows, LastLeft
<1>6. FirstEnables(sw)'
  <2>1. \A i \in DOMAIN jobs : ~IsFor(i, sw) \/ IsFor(i, sw)
    OBVIOUS
  <2>2. CASE \A i \in DOMAIN jobs : ~IsFor(i, sw)
    <3>1. on[sw] <=> flag[sw]
      BY <2>2 DEF Follows, AtRest
    <3>2. QED
      BY <1>1, <1>2, <2>2, <3>1 DEF FirstEnables
  <2>3. CASE \E i \in DOMAIN jobs : IsFor(i, sw)
    BY <1>1, <1>2, <2>3 DEF Follows, FirstEnables
  <2>4. QED
    BY <2>2, <2>3
<1>7. Alternate(sw)'
  <2> SUFFICES ASSUME NEW i \in DOMAIN jobs', NEW j \in DOMAIN jobs', IsFor(i, sw)', IsFor(j, sw)',
                      i < j, \A k \in DOMAIN jobs' : IsFor(k, sw)' => k <= i \/ j <= k
               PROVE  jobs'[i].verb # jobs'[j].verb
    BY DEF Alternate
  <2>1. i \in DOMAIN jobs
    BY <1>1
  <2>2. CASE j \in DOMAIN jobs
    BY <1>1, <1>2, <2>1, <2>2 DEF Follows, Alternate
  <2>3. CASE j = L
    <3>1. on[sw] <=> jobs[i].verb = "enable"
      BY <1>1, <1>2, <2>1, <2>3 DEF Follows, LastShown
    <3>2. QED
      BY <1>1, <1>2, <2>1, <2>3, <3>1
  <2>4. QED
    BY <1>1, <2>2, <2>3
<1>8. QED
  BY <1>3, <1>4, <1>5, <1>6, <1>7 DEF Follows

\* The host runs a call: the call is answered, and nothing else changes in the queue.
LEMMA JobAnswered ==
    ASSUME SettingsTypeOK, NEW i \in DOMAIN jobs, NEW ok \in BOOLEAN, Ran(i, ok)
    PROVE  /\ jobs' \in Seq(Jobs) /\ DOMAIN jobs' = DOMAIN jobs
           /\ \A j \in DOMAIN jobs \ {i} : jobs'[j] = jobs[j]
           /\ \A j \in DOMAIN jobs : jobs'[j].verb = jobs[j].verb /\ jobs'[j].sw = jobs[j].sw
           /\ jobs'[i].st = "answered" /\ jobs'[i].ok = ok
<1> DEFINE job == [jobs[i] EXCEPT !.st = "answered", !.ok = ok]
<1>1. jobs \in Seq(Jobs) /\ jobs[i] \in Jobs
  BY SettingsTypes
<1>2. /\ job \in Jobs /\ job.verb = jobs[i].verb /\ job.sw = jobs[i].sw
      /\ job.st = "answered" /\ job.ok = ok
  BY <1>1 DEF Jobs
<1>3. jobs' = [jobs EXCEPT ![i] = job]
  BY DEF Ran
<1> HIDE DEF job
<1>4. jobs' \in Seq(Jobs)
  BY <1>1, <1>2, <1>3
<1>5. DOMAIN jobs' = DOMAIN jobs /\ jobs'[i] = job /\ \A j \in DOMAIN jobs \ {i} : jobs'[j] = jobs[j]
  BY <1>1, <1>3
<1>6. QED
  BY <1>2, <1>4, <1>5

\* The next call of a serial host does to the flag file what it says, or to that of the
\* switch nothing, if it is a write that is rejected or a call for something else.
LEMMA HostKeeps ==
    ASSUME SettingsTypeOK, JobOrder, host.serial, NEW sw \in Switches, Follows(sw),
           NEW i \in DOMAIN jobs, NEW ok \in BOOLEAN, Ran(i, ok),
           ~Done(i), \A j \in DOMAIN jobs : ~Done(j) => i <= j,
           on' = on, ready' = ready,
           ~IsFor(i, sw) => flag'[sw] = flag[sw],
           IsFor(i, sw) => \/ ok /\ (flag'[sw] <=> jobs[i].verb = "enable")
                           \/ ~ok /\ jobs[i].verb = "enable" /\ flag'[sw] = flag[sw]
    PROVE  Follows(sw)'
<1>1. /\ DOMAIN jobs' = DOMAIN jobs /\ DOMAIN jobs = 1..Len(jobs) /\ Len(jobs) \in Nat
      /\ \A j \in DOMAIN jobs \ {i} : /\ Done(j)' <=> Done(j)
                                      /\ Leaves(j)' <=> Leaves(j)
      /\ \A j \in DOMAIN jobs : /\ IsFor(j, sw)' <=> IsFor(j, sw)
                                /\ jobs'[j].verb = jobs[j].verb
      /\ Done(i)' /\ (Leaves(i)' <=> (jobs[i].verb = "enable" /\ ok))
  BY JobAnswered, SettingsTypes DEF IsFor, Done, Leaves
<1>2. \A j \in DOMAIN jobs : j < i <=> Done(j)
  <2>1. \A j \in DOMAIN jobs : j < i => Done(j)
    BY <1>1
  <2>2. \A j \in DOMAIN jobs : Done(j) => j < i
    BY <1>1 DEF JobOrder
  <2>3. QED
    BY <2>1, <2>2
<1>3. LastShown(sw)'
  BY <1>1 DEF Follows, LastShown
<1>4. AtRest(sw)'
  BY <1>1 DEF Follows, AtRest
<1>5. Alternate(sw)'
  BY <1>1 DEF Follows, Alternate
<1>6. FirstEnables(sw)'
  <2> SUFFICES ASSUME NEW j \in DOMAIN jobs, IsFor(j, sw), ~Done(j)', jobs[j].verb = "enable",
                      \A k \in DOMAIN jobs : IsFor(k, sw) => j <= k
               PROVE  ~flag'[sw]
    BY <1>1 DEF FirstEnables
  <2>1. j # i /\ i < j
    BY <1>1, <1>2
  <2>2. ~IsFor(i, sw)
    BY <1>1, <2>1
  <2>3. QED
    BY <1>1, <2>1, <2>2 DEF Follows, FirstEnables
<1>7. LastLeft(sw)'
  <2> SUFFICES ASSUME NEW j \in DOMAIN jobs, IsFor(j, sw), Done(j)',
                      \A k \in DOMAIN jobs : IsFor(k, sw) /\ j < k => ~Done(k)'
               PROVE  flag'[sw] <=> Leaves(j)'
    BY <1>1 DEF LastLeft
  <2>1. CASE j # i
    <3>1. ~IsFor(i, sw)
      BY <1>1, <1>2, <2>1
    <3>2. \A k \in DOMAIN jobs : IsFor(k, sw) /\ j < k => ~Done(k)
      BY <1>1, <3>1
    <3>3. QED
      BY <1>1, <2>1, <3>1, <3>2 DEF Follows, LastLeft
  <2>2. CASE j = i /\ ok
    BY <1>1, <2>2
  <2>3. CASE j = i /\ ~ok
    <3>1. jobs[i].verb = "enable" /\ flag'[sw] = flag[sw] /\ ~Leaves(i)' /\ IsFor(i, sw)
      BY <1>1, <2>3
    <3>2. CASE \A k \in DOMAIN jobs : IsFor(k, sw) => i <= k
      BY <2>3, <3>1, <3>2 DEF Follows, FirstEnables
    <3>3. CASE \E k \in DOMAIN jobs : IsFor(k, sw) /\ ~(i <= k)
      <4>1. PICK S : S = {k \in DOMAIN jobs : IsFor(k, sw) /\ k < i}
        OBVIOUS
      <4>2. S \subseteq 0..Len(jobs) /\ S # {}
        BY <1>1, <3>3, <4>1
      <4>3. PICK m \in S : \A k \in S : k <= m
        BY <1>1, <4>2, HasGreatest
      <4>4. /\ m \in DOMAIN jobs /\ IsFor(m, sw) /\ m < i
            /\ \A k \in DOMAIN jobs : IsFor(k, sw) => k <= m \/ i <= k
        BY <1>1, <4>1, <4>3
      <4>5. jobs[m].verb # "enable"
        BY <3>1, <4>4 DEF Follows, Alternate
      <4>6. Done(m) /\ \A k \in DOMAIN jobs : IsFor(k, sw) /\ m < k => ~Done(k)
        BY <1>1, <1>2, <4>4
      <4>7. flag[sw] <=> Leaves(m)
        BY <4>4, <4>6 DEF Follows, LastLeft
      <4>8. QED
        BY <2>3, <3>1, <4>5, <4>7 DEF Leaves
    <3>4. QED
      BY <3>2, <3>3
  <2>4. QED
    BY <2>1, <2>2, <2>3
<1>8. QED
  BY <1>3, <1>4, <1>5, <1>6, <1>7 DEF Follows

\* What is left in the queue when the answer to the first call has come: f tells where
\* each call was, and a further look for a file may have been issued behind them.
Remain(X, f, i) ==
    /\ jobs' \in Seq(Jobs) /\ X \subseteq DOMAIN jobs' /\ Left([k \in X |-> jobs'[k]], jobs, i, f)
    /\ \A k \in DOMAIN jobs' \ X : /\ jobs'[k].verb = "probe" /\ ~Done(k)'
                                   /\ \A l \in X : l < k /\ ~(k < l)
    /\ \A k, l \in DOMAIN jobs' \ X : k = l

LEMMA RemainFacts ==
    ASSUME SettingsTypeOK, NEW i \in DOMAIN jobs, NEW X, NEW f, Remain(X, f, i)
    PROVE  /\ f \in [X -> DOMAIN jobs \ {i}] /\ X \subseteq DOMAIN jobs'
           /\ \A k \in X : /\ jobs'[k] = jobs[f[k]] /\ f[k] \in DOMAIN jobs /\ f[k] # i
                           /\ Done(k)' <=> Done(f[k])
                           /\ Leaves(k)' <=> Leaves(f[k])
           /\ \A k \in X : \A sw : IsFor(k, sw)' <=> IsFor(f[k], sw)
           /\ \A k \in DOMAIN jobs' \ X : \A sw : ~IsFor(k, sw)'
           /\ \A k, l \in X : (k < l <=> f[k] < f[l]) /\ (f[k] = f[l] => k = l)
                              /\ (k <= l <=> f[k] <= f[l])
           /\ \A j \in DOMAIN jobs \ {i} : \E k \in X : f[k] = j
<1>1. /\ f \in [X -> DOMAIN jobs \ {i}] /\ X \subseteq DOMAIN jobs'
      /\ \A k \in X : jobs'[k] = jobs[f[k]]
      /\ \A k, l \in X : (k < l <=> f[k] < f[l]) /\ (f[k] = f[l] => k = l)
      /\ \A j \in DOMAIN jobs \ {i} : \E k \in X : f[k] = j
  BY DEF Remain, Left
<1>2. \A k \in X : f[k] \in DOMAIN jobs /\ f[k] # i
  BY <1>1
<1>3. \A k, l \in X : k <= l <=> f[k] <= f[l]
  <2>1. DOMAIN jobs = 1..Len(jobs) /\ DOMAIN jobs' = 1..Len(jobs') /\ Len(jobs') \in Nat
        /\ Len(jobs) \in Nat
    BY SettingsTypes DEF Remain
  <2>2. \A k, l \in X : k \in Int /\ l \in Int /\ f[k] \in Int /\ f[l] \in Int
    BY <1>1, <1>2, <2>1
  <2>3. QED
    BY <1>1, <2>2
<1>4. \A k \in DOMAIN jobs' \ X : jobs'[k].verb = "probe"
  BY DEF Remain
<1>5. QED
  BY <1>1, <1>2, <1>3, <1>4 DEF IsFor, Done, Leaves

LEMMA RemovedRemain ==
    ASSUME SettingsTypeOK, NEW i \in DOMAIN jobs, jobs' = RemoveAt(jobs, i)
    PROVE  \E f : Remain(DOMAIN jobs', f, i)
<1>1. jobs \in Seq(Jobs) /\ jobs' \in Seq(Jobs)
  BY SettingsTypes, RemoveAtProperties
<1>2. PICK f : Left(jobs', jobs, i, f)
  BY <1>1, RemoveAtLeaves
<1>3. jobs' = [k \in DOMAIN jobs' |-> jobs'[k]]
  BY <1>1
<1>4. Remain(DOMAIN jobs', f, i)
  BY <1>1, <1>2, <1>3 DEF Remain
<1>5. QED
  BY <1>4

LEMMA ReplacedRemain ==
    ASSUME SettingsTypeOK, NEW i \in DOMAIN jobs, NEW sw \in Switches,
           jobs' = Append(RemoveAt(jobs, i), Job("probe", sw))
    PROVE  \E X, f, L : /\ Remain(X, f, i) /\ DOMAIN jobs' = X \cup {L} /\ L \notin X
                        /\ jobs'[L] = Job("probe", sw)
<1>1. jobs \in Seq(Jobs) /\ RemoveAt(jobs, i) \in Seq(Jobs)
  BY SettingsTypes, RemoveAtProperties
<1>2. PICK R \in Seq(Jobs) : R = RemoveAt(jobs, i)
  BY <1>1
<1>3. PICK f : Left(R, jobs, i, f)
  BY <1>1, <1>2, RemoveAtLeaves
<1>4. PICK L : L = Len(R) + 1
  OBVIOUS
<1>5. /\ Job("probe", sw) \in Jobs /\ Job("probe", sw).verb = "probe"
      /\ Job("probe", sw).st = "issued"
  BY JobType
<1>6. /\ jobs' \in Seq(Jobs) /\ DOMAIN jobs' = DOMAIN R \cup {L} /\ jobs'[L] = Job("probe", sw)
      /\ \A k \in DOMAIN R : jobs'[k] = R[k] /\ k < L
  BY <1>2, <1>4, <1>5, AppendAtEnd
<1>7. L \notin DOMAIN R /\ \A k \in DOMAIN R : ~(L < k)
  BY <1>2, <1>4
<1>8. R = [k \in DOMAIN R |-> jobs'[k]]
  BY <1>2, <1>6
<1>9. Remain(DOMAIN R, f, i)
  BY <1>3, <1>5, <1>6, <1>7, <1>8 DEF Remain, Done
<1>10. QED
  BY <1>6, <1>7, <1>9

\* The answer to the first call: a rejected write takes the tap back if it was the last.
LEMMA AnswerKeeps ==
    ASSUME SettingsTypeOK, JobOrder, host.serial, NEW sw \in Switches, Follows(sw),
           NEW i \in DOMAIN jobs, Done(i), \A j \in DOMAIN jobs : i <= j,
           NEW X, NEW f, Remain(X, f, i), flag'[sw] = flag[sw],
           \/ /\ IsFor(i, sw) /\ (Leaves(i) \/ jobs[i].verb = "disable") /\ on'[sw] = on[sw]
           \/ /\ IsFor(i, sw) /\ ~Leaves(i) /\ ~on'[sw]
              /\ \A j \in DOMAIN jobs \ {i} : ~IsFor(j, sw)
           \/ ~IsFor(i, sw) /\ on'[sw] = on[sw] /\ ready'[sw] = ready[sw]
           \/ (\A j \in DOMAIN jobs : ~IsFor(j, sw)) /\ (on'[sw] <=> flag[sw])
    PROVE  Follows(sw)'
<1>1. /\ DOMAIN jobs = 1..Len(jobs) /\ Len(jobs) \in Nat
      /\ \A j \in DOMAIN jobs \ {i} : i < j
  BY SettingsTypes
<1>2. /\ X \subseteq DOMAIN jobs'
      /\ \A k \in X : /\ jobs'[k].verb = jobs[f[k]].verb /\ f[k] \in DOMAIN jobs /\ f[k] # i
                      /\ Done(k)' <=> Done(f[k])
                      /\ Leaves(k)' <=> Leaves(f[k])
                      /\ IsFor(k, sw)' <=> IsFor(f[k], sw)
      /\ \A k \in DOMAIN jobs' \ X : ~IsFor(k, sw)'
      /\ \A k, l \in X : (k < l <=> f[k] < f[l]) /\ (k <= l <=> f[k] <= f[l])
      /\ \A j \in DOMAIN jobs \ {i} : \E k \in X : f[k] = j
  BY RemainFacts
<1>3. LastShown(sw)'
  <2> SUFFICES ASSUME NEW k \in X, IsFor(f[k], sw), \A l \in X : IsFor(f[l], sw) => l <= k
               PROVE  on'[sw] <=> jobs[f[k]].verb = "enable"
    BY <1>2 DEF LastShown
  <2>1. \A j \in DOMAIN jobs : IsFor(j, sw) => j <= f[k]
    BY <1>1, <1>2
  <2>2. on[sw] <=> jobs[f[k]].verb = "enable"
    BY <1>2, <2>1 DEF Follows, LastShown
  <2>3. on'[sw] = on[sw]
    BY <1>2
  <2>4. QED
    BY <2>2, <2>3
<1>4. AtRest(sw)'
  <2> SUFFICES ASSUME ready'[sw], \A k \in X : ~IsFor(f[k], sw)
               PROVE  on'[sw] <=> flag[sw]
    BY <1>2 DEF AtRest
  <2>1. \A j \in DOMAIN jobs \ {i} : ~IsFor(j, sw)
    BY <1>2
  <2>2. CASE IsFor(i, sw)
    <3>1. on[sw] <=> jobs[i].verb = "enable"
      BY <1>1, <2>1, <2>2 DEF Follows, LastShown
    <3>2. flag[sw] <=> Leaves(i)
      BY <1>1, <2>1, <2>2 DEF Follows, LastLeft
    <3>3. QED
      BY <2>2, <3>1, <3>2 DEF Leaves
  <2>3. CASE ~IsFor(i, sw)
    BY <2>1, <2>3 DEF Follows, AtRest
  <2>4. QED
    BY <2>2, <2>3
<1>5. LastLeft(sw)'
  <2> SUFFICES ASSUME NEW k \in X, IsFor(f[k], sw), Done(f[k]),
                      \A l \in X : IsFor(f[l], sw) /\ k < l => ~Done(f[l])
               PROVE  flag[sw] <=> Leaves(f[k])
    BY <1>2 DEF LastLeft
  <2>1. \A j \in DOMAIN jobs : IsFor(j, sw) /\ f[k] < j => ~Done(j)
    BY <1>1, <1>2
  <2>2. QED
    BY <1>2, <2>1 DEF Follows, LastLeft
<1>6. FirstEnables(sw)'
  <2> SUFFICES ASSUME NEW k \in X, IsFor(f[k], sw), ~Done(f[k]), jobs[f[k]].verb = "enable",
                      \A l \in X : IsFor(f[l], sw) => k <= l
               PROVE  ~flag[sw]
    BY <1>2 DEF FirstEnables
  <2>1. \A j \in DOMAIN jobs : IsFor(j, sw) => j = i \/ f[k] <= j
    BY <1>1, <1>2
  <2>2. CASE ~IsFor(i, sw)
    BY <1>2, <2>1, <2>2 DEF Follows, FirstEnables
  <2>3. CASE IsFor(i, sw)
    <3>1. \A j \in DOMAIN jobs : IsFor(j, sw) => j <= i \/ f[k] <= j
      BY <1>1, <2>1
    <3>2. jobs[i].verb # "enable"
      BY <1>1, <1>2, <2>3, <3>1 DEF Follows, Alternate
    <3>3. \A j \in DOMAIN jobs : IsFor(j, sw) /\ i < j => ~Done(j)
      <4> SUFFICES ASSUME NEW j \in DOMAIN jobs, IsFor(j, sw), i < j, Done(j) PROVE FALSE
        OBVIOUS
      <4>1. f[k] = j \/ f[k] < j
        BY <1>1, <1>2, <2>1
      <4>2. QED
        BY <1>2, <4>1 DEF JobOrder
    <3>4. QED
      BY <2>3, <3>2, <3>3 DEF Follows, LastLeft, Leaves
  <2>4. QED
    BY <2>2, <2>3
<1>7. Alternate(sw)'
  <2> SUFFICES ASSUME NEW k \in X, NEW l \in X, IsFor(f[k], sw), IsFor(f[l], sw), k < l,
                      \A m \in X : IsFor(f[m], sw) => m <= k \/ l <= m
               PROVE  jobs[f[k]].verb # jobs[f[l]].verb
    BY <1>2 DEF Alternate
  <2>1. \A j \in DOMAIN jobs : IsFor(j, sw) => j <= f[k] \/ f[l] <= j
    BY <1>1, <1>2
  <2>2. QED
    BY <1>2, <2>1 DEF Follows, Alternate
<1>8. QED
  BY <1>3, <1>4, <1>5, <1>6, <1>7 DEF Follows

LEMMA StillFollows ==
    ASSUME NEW sw, Follows(sw), jobs' = jobs, on'[sw] = on[sw], flag'[sw] = flag[sw],
           ready'[sw] = ready[sw]
    PROVE  Follows(sw)'
<1>1. \A i \in DOMAIN jobs : /\ IsFor(i, sw)' <=> IsFor(i, sw)
                             /\ Done(i)' <=> Done(i)
                             /\ Leaves(i)' <=> Leaves(i)
  BY DEF IsFor, Done, Leaves
<1>2. LastShown(sw)' /\ AtRest(sw)' /\ LastLeft(sw)'
  BY <1>1 DEF Follows, LastShown, AtRest, LastLeft
<1>3. FirstEnables(sw)' /\ Alternate(sw)'
  BY <1>1 DEF Follows, FirstEnables, Alternate
<1>4. QED
  BY <1>2, <1>3 DEF Follows

\* What a command does to the flag files.
LEMMA EffectOf ==
    ASSUME SettingsTypeOK, NEW i \in DOMAIN jobs
    PROVE  /\ Effect(jobs[i]) \in [Switches -> BOOLEAN]
           /\ \A sw \in Switches : ~IsFor(i, sw) => Effect(jobs[i])[sw] = flag[sw]
           /\ \A sw \in Switches : host.ksu /\ IsFor(i, sw) =>
                 (Effect(jobs[i])[sw] <=> jobs[i].verb = "enable")
<1>1. flag \in [Switches -> BOOLEAN] /\ jobs[i].sw \in Switches
  BY SettingsTypes
<1>2. CASE jobs[i].verb = "enable"
  <2>1. Effect(jobs[i]) = [flag EXCEPT ![jobs[i].sw] = TRUE]
    BY <1>2 DEF Effect
  <2>2. QED
    BY <1>1, <1>2, <2>1 DEF IsFor
<1>3. CASE jobs[i].verb = "disable" /\ ExecVia(host) = "shell"
  <2>1. Effect(jobs[i]) = [flag EXCEPT ![jobs[i].sw] = FALSE]
    BY <1>3 DEF Effect
  <2>2. QED
    BY <1>1, <1>3, <2>1 DEF IsFor
<1>4. CASE jobs[i].verb # "enable" /\ ~(jobs[i].verb = "disable" /\ ExecVia(host) = "shell")
  <2>1. Effect(jobs[i]) = flag
    BY <1>4 DEF Effect
  <2>2. host.ksu => jobs[i].verb # "disable"
    BY <1>4 DEF ExecVia, isKSU
  <2>3. QED
    BY <1>1, <1>4, <2>1, <2>2 DEF IsFor
<1>5. QED
  BY <1>2, <1>3, <1>4

\* onMounted
LEMMA ProbeFirstKeeps ==
    ASSUME SettingsInv, ProbeFirst
    PROVE  SettingsInv'
<1>1. /\ jobs = <<>> /\ DOMAIN jobs = {} /\ \A sw \in Switches : ~ready[sw]
      /\ UNCHANGED <<host, flag, toggles, rough, exportVars>>
  <2>1. jobs = <<>> /\ \A sw \in Switches : ~ready[sw]
    BY DEF ProbeFirst, Mounted
  <2>2. UNCHANGED <<host, flag, toggles, rough, exportVars>>
    BY DEF ProbeFirst
  <2>3. QED
    BY <2>1, <2>2
<1>2. flag \in [Switches -> BOOLEAN]
  BY SettingsTypes DEF SettingsInv
<1>3. CASE Instant
  <2>1. on' = flag /\ ready' = [sw \in Switches |-> TRUE] /\ jobs' = jobs
    BY <1>3 DEF ProbeFirst
  <2>2. SettingsTypeOK'
    BY <1>1, <1>2, <2>1 DEF SettingsInv, SettingsTypeOK, exportVars
  <2>3. JobOrder' /\ Probing' /\ OneExport'
    BY <1>1, <2>1 DEF SettingsInv, JobOrder, Probing, OneExport, exportVars
  <2>4. \A sw \in Switches : Follows(sw)'
    BY <1>1, <2>1 DEF Follows, LastShown, AtRest, LastLeft, FirstEnables, Alternate
  <2>5. QED
    BY <2>2, <2>3, <2>4 DEF SettingsInv, FlagFollows
<1>4. CASE ~Instant
  <2>1. jobs' = <<Job("probe", "watch")>> /\ on' = on /\ ready' = ready
    BY <1>4 DEF ProbeFirst
  <2>2. /\ Job("probe", "watch") \in Jobs /\ Job("probe", "watch").verb = "probe"
        /\ Job("probe", "watch").sw = "watch" /\ Job("probe", "watch").st = "issued"
        /\ {"watch", "mirror"} \subseteq Switches
    BY JobType DEF Switches
  <2>3. jobs' \in Seq(Jobs) /\ DOMAIN jobs' = {1} /\ jobs'[1] = Job("probe", "watch")
    BY <2>1, <2>2
  <2>4. SettingsTypeOK'
    BY <1>1, <2>1, <2>3 DEF SettingsInv, SettingsTypeOK, exportVars
  <2>5. JobOrder' /\ Probing' /\ OneExport'
    BY <1>1, <2>1, <2>2, <2>3 DEF SettingsInv, JobOrder, Probing, OneExport, exportVars, Done
  <2>6. \A sw \in Switches : Follows(sw)'
    BY <1>1, <2>1, <2>2, <2>3
       DEF Follows, LastShown, AtRest, LastLeft, FirstEnables, Alternate, IsFor
  <2>7. QED
    BY <2>4, <2>5, <2>6 DEF SettingsInv, FlagFollows
<1>5. QED
  BY <1>3, <1>4

\* toggleWatcher and toggleMirrorPriority, up to the answer.
LEMMA ToggleKeeps ==
    ASSUME SettingsInv, NEW sw \in Switches, ToggleSwitch(sw)
    PROVE  SettingsInv'
<1>1. /\ ready[sw] /\ toggles' \in 0..MaxToggles /\ on' = [on EXCEPT ![sw] = ~@]
      /\ UNCHANGED <<host, ready, exportVars>>
  BY SettingsAssumption DEF ToggleSwitch, Usable, SettingsInv, SettingsTypeOK
<1>2. /\ flag \in [Switches -> BOOLEAN] /\ on \in [Switches -> BOOLEAN]
      /\ ready \in [Switches -> BOOLEAN] /\ rough \in [Switches -> BOOLEAN]
  BY SettingsTypes DEF SettingsInv
<1>3. /\ on' \in [Switches -> BOOLEAN] /\ on'[sw] = ~on[sw]
      /\ \A t \in Switches \ {sw} : on'[t] = on[t]
  BY <1>1, <1>2
<1>4. CASE Instant /\ ~on[sw]
  <2>1. /\ flag' = [flag EXCEPT ![sw] = TRUE] /\ rough' = [rough EXCEPT ![sw] = @ \/ Pending(sw)]
        /\ jobs' = jobs
    BY <1>4 DEF ToggleSwitch
  <2>2. /\ flag' \in [Switches -> BOOLEAN] /\ flag'[sw] /\ rough' \in [Switches -> BOOLEAN]
        /\ \A t \in Switches \ {sw} : flag'[t] = flag[t] /\ rough'[t] = rough[t]
        /\ rough'[sw] <=> rough[sw] \/ Pending(sw)
    BY <1>2, <2>1
  <2>3. SettingsTypeOK'
    BY <1>1, <1>3, <2>1, <2>2 DEF SettingsInv, SettingsTypeOK, exportVars
  <2>4. JobOrder' /\ OneExport'
    BY <1>1, <2>1 DEF SettingsInv, JobOrder, OneExport, Done, exportVars
  <2>5. Probing'
    <3>1. \A i \in DOMAIN jobs : jobs[i].verb = "probe" =>
             flag'[jobs[i].sw] = flag[jobs[i].sw] /\ rough'[jobs[i].sw] = rough[jobs[i].sw]
      BY <1>1, <2>2, SettingsTypes DEF SettingsInv, Probing
    <3>2. QED
      BY <1>1, <2>1, <3>1 DEF SettingsInv, Probing, Done
  <2>6. FlagFollows'
    <3> SUFFICES ASSUME host.ksu, host.serial, NEW t \in Switches, ~rough'[t] PROVE Follows(t)'
      BY <1>1 DEF FlagFollows
    <3>1. CASE t = sw
      <4>1. \A i \in DOMAIN jobs : ~IsFor(i, sw)'
        BY <2>1, <2>2, <3>1 DEF Pending, Switching, IsFor
      <4>2. on'[sw] /\ flag'[sw]
        BY <1>3, <1>4, <2>2
      <4>3. QED
        BY <2>1, <3>1, <4>1, <4>2
           DEF Follows, LastShown, AtRest, LastLeft, FirstEnables, Alternate
    <3>2. CASE t # sw
      <4>1. Follows(t)
        BY <2>2, <3>2 DEF SettingsInv, FlagFollows
      <4>2. QED
        BY <1>1, <1>3, <2>1, <2>2, <3>2, <4>1, StillFollows
    <3>3. QED
      BY <3>1, <3>2
  <2>7. QED
    BY <2>3, <2>4, <2>5, <2>6 DEF SettingsInv
<1>5. CASE ~(Instant /\ ~on[sw])
  <2>1. PICK job : job = Job(IF on[sw] THEN "disable" ELSE "enable", sw)
    OBVIOUS
  <2>2. /\ job \in Jobs /\ job.verb = (IF on[sw] THEN "disable" ELSE "enable") /\ job.sw = sw
        /\ job.st = "issued"
    BY <2>1, JobType
  <2>3. jobs' = Append(jobs, job) /\ UNCHANGED <<flag, rough>>
    BY <1>5, <2>1 DEF ToggleSwitch
  <2>4. PICK L \in Nat :
          /\ jobs' \in Seq(Jobs) /\ DOMAIN jobs' = DOMAIN jobs \cup {L} /\ jobs'[L] = job
          /\ L \notin DOMAIN jobs
          /\ \A j \in DOMAIN jobs : jobs'[j] = jobs[j] /\ j < L /\ ~(L < j) /\ ~(L <= j)
    BY <2>2, <2>3, JobIssued DEF SettingsInv
  <2>5. SettingsTypeOK'
    BY <1>1, <1>3, <2>3, <2>4 DEF SettingsInv, SettingsTypeOK, exportVars
  <2>6. JobOrder'
    BY <1>1, <2>2, <2>4 DEF SettingsInv, JobOrder, Done
  <2>7. Probing'
    BY <1>1, <2>2, <2>3, <2>4 DEF SettingsInv, Probing, Done
  <2>8. OneExport'
    BY <1>1, <2>2, <2>4 DEF SettingsInv, OneExport, exportVars
  <2>9. FlagFollows'
    <3> SUFFICES ASSUME host.ksu, host.serial, NEW t \in Switches, ~rough[t] PROVE Follows(t)'
      BY <1>1, <2>3 DEF FlagFollows
    <3>1. Follows(t) /\ SettingsTypeOK
      BY DEF SettingsInv, FlagFollows
    <3>2. CASE t = sw
      BY <1>1, <1>3, <2>2, <2>3, <3>1, <3>2, TapIssued
    <3>3. CASE t # sw
      BY <1>1, <1>3, <2>2, <2>3, <3>1, <3>3, OtherIssued
    <3>4. QED
      BY <3>2, <3>3
  <2>10. QED
    BY <2>5, <2>6, <2>7, <2>8, <2>9 DEF SettingsInv
<1>6. QED
  BY <1>4, <1>5

\* The host runs a call, or a shell that does not.
LEMMA SettingsHostKeeps ==
    ASSUME SettingsInv, NEW i \in DOMAIN jobs, Host(i)
    PROVE  SettingsInv'
<1>1. PICK ok \in BOOLEAN :
        /\ Ran(i, ok) /\ (RunJob(i) \/ (FailJob(i) /\ ~ok))
        /\ RunJob(i) => (ok <=> (jobs[i].verb = "probe" => flag[jobs[i].sw]))
  <2>1. CASE RunJob(i)
    <3>1. (jobs[i].verb = "probe" => flag[jobs[i].sw]) \in BOOLEAN
      OBVIOUS
    <3>2. QED
      BY <2>1, <3>1 DEF RunJob
  <2>2. CASE FailJob(i) /\ ~RunJob(i)
    BY <2>2 DEF FailJob
  <2>3. QED
    BY <2>1, <2>2 DEF Host
<1>2. /\ SettingsTypeOK /\ ~Done(i) /\ UNCHANGED <<host, on, ready, toggles, exportVars>>
      /\ host.serial => \A j \in DOMAIN jobs : ~Done(j) => i <= j
  <2>1. \A j \in DOMAIN jobs : ~Done(j) => jobs[j].st = "issued"
    BY SettingsTypes DEF SettingsInv, Done, Jobs
  <2>2. QED
    BY <2>1 DEF SettingsInv, Host, InTurn, Done
<1>3. /\ jobs' \in Seq(Jobs) /\ DOMAIN jobs' = DOMAIN jobs
      /\ \A j \in DOMAIN jobs \ {i} : jobs'[j] = jobs[j]
      /\ \A j \in DOMAIN jobs : jobs'[j].verb = jobs[j].verb /\ jobs'[j].sw = jobs[j].sw
      /\ jobs'[i].st = "answered" /\ jobs'[i].ok = ok
  BY <1>1, <1>2, JobAnswered
<1>4. /\ flag \in [Switches -> BOOLEAN] /\ rough \in [Switches -> BOOLEAN]
      /\ \A j \in DOMAIN jobs : jobs[j] \in Jobs /\ jobs[j].sw \in Switches
      /\ DOMAIN jobs = 1..Len(jobs)
  BY <1>2, SettingsTypes
<1>5. /\ flag' \in [Switches -> BOOLEAN] /\ rough' \in [Switches -> BOOLEAN]
      /\ \A t \in Switches : ~IsFor(i, t) => flag'[t] = flag[t]
      /\ \A t \in Switches : ~rough'[t] => ~rough[t]
      /\ host.ksu => \A t \in Switches : IsFor(i, t) /\ ~rough'[t] =>
            \/ ok /\ (flag'[t] <=> jobs[i].verb = "enable")
            \/ ~ok /\ jobs[i].verb = "enable" /\ flag'[t] = flag[t]
      /\ jobs[i].verb = "probe" /\ ~rough'[jobs[i].sw] => (ok <=> flag[jobs[i].sw])
  <2>1. CASE RunJob(i)
    <3>1. flag' = Effect(jobs[i]) /\ rough' = rough
      BY <2>1 DEF RunJob
    <3>2. \A t \in Switches : IsFor(i, t) => ok
      BY <1>1, <2>1 DEF IsFor
    <3>3. jobs[i].verb = "probe" => (ok <=> flag[jobs[i].sw])
      BY <1>1, <2>1
    <3>4. QED
      BY <1>2, <1>4, <3>1, <3>2, <3>3, EffectOf
  <2>2. CASE FailJob(i) /\ ~ok
    <3>1. CASE jobs[i].verb \in {"enable", "export"} /\ UNCHANGED <<flag, rough>>
      BY <1>4, <2>2, <3>1 DEF IsFor
    <3>2. CASE /\ jobs[i].verb # "export" /\ rough' = [rough EXCEPT ![jobs[i].sw] = TRUE]
               /\ flag' = IF jobs[i].verb = "enable" THEN Effect(jobs[i]) ELSE flag
      <4>1. /\ rough' \in [Switches -> BOOLEAN] /\ rough'[jobs[i].sw]
            /\ \A t \in Switches : ~rough'[t] => ~rough[t]
        BY <1>4, <3>2
      <4>2. flag' \in [Switches -> BOOLEAN] /\ \A t \in Switches : ~IsFor(i, t) => flag'[t] = flag[t]
        BY <1>2, <1>4, <3>2, EffectOf
      <4>3. \A t \in Switches : IsFor(i, t) => rough'[t]
        BY <4>1 DEF IsFor
      <4>4. QED
        BY <1>4, <4>1, <4>2, <4>3
    <3>3. QED
      BY <2>2, <3>1, <3>2 DEF FailJob
  <2>3. QED
    BY <1>1, <2>1, <2>2
<1>6. SettingsTypeOK'
  BY <1>2, <1>3, <1>5 DEF SettingsTypeOK, exportVars
<1>7. JobOrder'
  <2> SUFFICES ASSUME host.serial, NEW j \in DOMAIN jobs, NEW k \in DOMAIN jobs, j < k, Done(k)'
               PROVE  Done(j)'
    BY <1>2, <1>3 DEF JobOrder
  <2>1. CASE k = i
    BY <1>2, <1>3, <1>4, <2>1 DEF Done
  <2>2. CASE k # i
    BY <1>2, <1>3, <2>2 DEF SettingsInv, JobOrder, Done
  <2>3. QED
    BY <2>1, <2>2
<1>8. Probing'
  <2>1. ASSUME NEW j \in DOMAIN jobs, jobs[j].verb = "probe", Done(j)', ~rough'[jobs[j].sw]
        PROVE  jobs'[j].ok = flag'[jobs[j].sw]
    <3>1. ~IsFor(i, jobs[j].sw)
      BY <1>4, <2>1 DEF SettingsInv, Probing, IsFor
    <3>2. flag'[jobs[j].sw] = flag[jobs[j].sw] /\ ~rough[jobs[j].sw]
      BY <1>4, <1>5, <2>1, <3>1
    <3>3. CASE j = i
      BY <1>3, <1>4, <1>5, <2>1, <3>2, <3>3
    <3>4. CASE j # i
      BY <1>3, <2>1, <3>2, <3>4 DEF SettingsInv, Probing, Done
    <3>5. QED
      BY <3>3, <3>4
  <2>2. QED
    BY <1>2, <1>3, <2>1 DEF SettingsInv, Probing
<1>9. OneExport'
  BY <1>2, <1>3 DEF SettingsInv, OneExport, exportVars
<1>10. FlagFollows'
  <2> SUFFICES ASSUME host.ksu, host.serial, NEW t \in Switches, ~rough'[t] PROVE Follows(t)'
    BY <1>2 DEF FlagFollows
  <2>1. Follows(t) /\ JobOrder
    BY <1>5 DEF SettingsInv, FlagFollows
  <2>2. QED
    BY <1>1, <1>2, <1>5, <2>1, HostKeeps
<1>11. QED
  BY <1>6, <1>7, <1>8, <1>9, <1>10 DEF SettingsInv

\* What an answer leaves of the queue is in order, and has an export if it had another one.
LEMMA RemainOrder ==
    ASSUME SettingsInv, NEW i \in DOMAIN jobs, NEW X, NEW f, Remain(X, f, i), host' = host
    PROVE  /\ JobOrder'
           /\ \A j, k \in DOMAIN jobs' : jobs'[j].verb = "export" /\ jobs'[k].verb = "export" => j = k
           /\ \A k \in DOMAIN jobs' : jobs'[k].verb = "export" =>
                 \E j \in DOMAIN jobs \ {i} : jobs[j].verb = "export"
           /\ \A k \in X : \E j \in DOMAIN jobs \ {i} : jobs'[k] = jobs[j]
<1>1. /\ f \in [X -> DOMAIN jobs \ {i}] /\ X \subseteq DOMAIN jobs'
      /\ \A k \in X : /\ jobs'[k] = jobs[f[k]] /\ f[k] \in DOMAIN jobs /\ f[k] # i
                      /\ Done(k)' <=> Done(f[k])
      /\ \A k, l \in X : (k < l <=> f[k] < f[l]) /\ (f[k] = f[l] => k = l)
  BY RemainFacts DEF SettingsInv
<1>2. \A k \in DOMAIN jobs' \ X : /\ jobs'[k].verb = "probe" /\ ~Done(k)'
                                  /\ \A l \in X : l < k /\ ~(k < l)
  BY DEF Remain
<1>3. JobOrder'
  <2> SUFFICES ASSUME host.serial, NEW j \in DOMAIN jobs', NEW k \in DOMAIN jobs', j < k, Done(k)'
               PROVE  Done(j)'
    BY DEF JobOrder
  <2>1. k \in X /\ j \in X
    BY <1>2
  <2>2. QED
    BY <1>1, <2>1 DEF SettingsInv, JobOrder
<1>4. \A k \in DOMAIN jobs' : jobs'[k].verb = "export" => k \in X
  BY <1>2
<1>5. ASSUME NEW j \in X, NEW k \in X, jobs'[j].verb = "export", jobs'[k].verb = "export"
      PROVE  j = k
  <2>1. f[j] = f[k]
    BY <1>1, <1>5 DEF SettingsInv, OneExport
  <2>2. QED
    BY <1>1, <2>1
<1>6. QED
  BY <1>1, <1>3, <1>4, <1>5

LEMMA RemainProbes ==
    ASSUME SettingsInv, NEW i \in DOMAIN jobs, NEW f, Remain(DOMAIN jobs', f, i),
           UNCHANGED <<host, flag, ready>>, \A t \in Switches : rough[t] => rough'[t]
    PROVE  Probing'
<1>1. \A j, k \in DOMAIN jobs' : jobs'[j].verb = "probe" /\ jobs'[k].verb = "probe" => j = k
  <2> SUFFICES ASSUME NEW j \in DOMAIN jobs', NEW k \in DOMAIN jobs', jobs'[j].verb = "probe",
                      jobs'[k].verb = "probe"
               PROVE  j = k
    OBVIOUS
  <2>1. /\ jobs'[j] = jobs[f[j]] /\ jobs'[k] = jobs[f[k]] /\ (f[j] = f[k] => j = k)
        /\ f[j] \in DOMAIN jobs /\ f[k] \in DOMAIN jobs
    BY RemainFacts DEF SettingsInv
  <2>2. QED
    BY <2>1 DEF SettingsInv, Probing
<1>2. ASSUME NEW k \in DOMAIN jobs'
      PROVE  /\ jobs'[k].verb = "probe" =>
                   /\ ~ready'[jobs'[k].sw] /\ ~ready'["mirror"]
                   /\ Done(k)' /\ ~rough'[jobs'[k].sw] => jobs'[k].ok = flag'[jobs'[k].sw]
             /\ jobs'[k].verb \in {"enable", "disable"} => ready'[jobs'[k].sw]
  <2>1. PICK j \in DOMAIN jobs : jobs'[k] = jobs[j]
    BY RemainOrder
  <2>2. jobs[j].sw \in Switches /\ (Done(k)' <=> Done(j))
    BY <2>1, SettingsTypes DEF SettingsInv, Done
  <2>3. QED
    BY <2>1, <2>2 DEF SettingsInv, Probing
<1>3. QED
  BY <1>1, <1>2 DEF Probing

\* The answers: the rest of the functions of the page.
LEMMA ProbedKeeps ==
    ASSUME SettingsInv, NEW i \in DOMAIN jobs, Probed(i)
    PROVE  SettingsInv'
<1>1. PICK sw \in Switches : sw = jobs[i].sw
  BY SettingsTypes DEF SettingsInv
<1>2. /\ Done(i) /\ jobs[i].verb = "probe" /\ (host.serial => \A j \in DOMAIN jobs : i <= j)
      /\ on' = [on EXCEPT ![sw] = jobs[i].ok] /\ ready' = [ready EXCEPT ![sw] = TRUE]
      /\ UNCHANGED <<host, flag, toggles, rough, exportVars>>
  BY <1>1 DEF Probed, Answers, InTurn, Done
<1>3. /\ flag \in [Switches -> BOOLEAN] /\ on' \in [Switches -> BOOLEAN]
      /\ ready' \in [Switches -> BOOLEAN] /\ on'[sw] = jobs[i].ok
      /\ \A t \in Switches \ {sw} : on'[t] = on[t] /\ ready'[t] = ready[t]
      /\ \A t \in Switches : ready[t] => ready'[t]
      /\ SettingsTypeOK /\ "mirror" \in Switches /\ "watch" \in Switches
  BY <1>2, SettingsTypes DEF SettingsInv, Switches
<1>4. /\ ~ready[sw] /\ ~ready["mirror"] /\ (~rough[sw] => jobs[i].ok = flag[sw])
      /\ \A j \in DOMAIN jobs \ {i} : jobs[j].verb # "probe"
  BY <1>1, <1>2 DEF SettingsInv, Probing
<1>5. PICK X, f : /\ Remain(X, f, i)
                  /\ \A k \in DOMAIN jobs' \ X : sw = "watch" /\ jobs'[k].sw = "mirror"
  <2>1. CASE sw = "watch"
    <3>1. jobs' = Append(RemoveAt(jobs, i), Job("probe", "mirror"))
      BY <1>1, <2>1 DEF Probed
    <3>2. PICK X, f, L : /\ Remain(X, f, i) /\ DOMAIN jobs' = X \cup {L}
                         /\ jobs'[L] = Job("probe", "mirror")
      BY <1>3, <3>1, ReplacedRemain
    <3>3. Job("probe", "mirror").sw = "mirror"
      BY <1>3, JobType
    <3>4. QED
      BY <2>1, <3>2, <3>3
  <2>2. CASE sw # "watch"
    <3>1. jobs' = RemoveAt(jobs, i)
      BY <1>1, <2>2 DEF Probed
    <3>2. PICK f : Remain(DOMAIN jobs', f, i)
      BY <1>3, <3>1, RemovedRemain
    <3>3. QED
      BY <3>2
  <2>3. QED
    BY <2>1, <2>2
<1>6. /\ JobOrder'
      /\ \A j, k \in DOMAIN jobs' : jobs'[j].verb = "export" /\ jobs'[k].verb = "export" => j = k
      /\ \A k \in DOMAIN jobs' : jobs'[k].verb = "export" =>
            \E j \in DOMAIN jobs \ {i} : jobs[j].verb = "export"
      /\ \A k \in X : \E j \in DOMAIN jobs \ {i} : jobs'[k] = jobs[j]
  BY <1>2, <1>5, RemainOrder
<1>7. /\ X \subseteq DOMAIN jobs' /\ jobs' \in Seq(Jobs)
      /\ \A k \in DOMAIN jobs' \ X : jobs'[k].verb = "probe" /\ ~Done(k)'
      /\ \A k, l \in DOMAIN jobs' \ X : k = l
  BY <1>5 DEF Remain
<1>8. SettingsTypeOK'
  BY <1>2, <1>3, <1>7 DEF SettingsTypeOK, exportVars
<1>9. Probing'
  <2>1. \A k \in X : /\ jobs'[k].verb # "probe"
                     /\ jobs'[k].verb \in {"enable", "disable"} => ready'[jobs'[k].sw]
    BY <1>3, <1>4, <1>6, SettingsTypes DEF SettingsInv, Probing
  <2>2. \A k \in DOMAIN jobs' \ X : ~ready'[jobs'[k].sw] /\ ~ready'["mirror"]
    BY <1>3, <1>4, <1>5
  <2>3. QED
    BY <1>7, <2>1, <2>2 DEF Probing
<1>10. OneExport'
  BY <1>2, <1>6 DEF SettingsInv, OneExport, exportVars
<1>11. FlagFollows'
  <2> SUFFICES ASSUME host.ksu, host.serial, NEW t \in Switches, ~rough[t] PROVE Follows(t)'
    BY <1>2 DEF FlagFollows
  <2>1. Follows(t) /\ JobOrder /\ flag'[t] = flag[t] /\ \A j \in DOMAIN jobs : i <= j
    BY <1>2 DEF SettingsInv, FlagFollows
  <2>2. CASE t = sw
    <3>1. \A j \in DOMAIN jobs : ~IsFor(j, t)
      BY <1>4, <2>2 DEF SettingsInv, Probing, IsFor
    <3>2. on'[t] <=> flag[t]
      BY <1>3, <1>4, <2>2
    <3>3. QED
      BY <1>2, <1>3, <1>5, <2>1, <3>1, <3>2, AnswerKeeps
  <2>3. CASE t # sw
    <3>1. ~IsFor(i, t) /\ on'[t] = on[t] /\ ready'[t] = ready[t]
      BY <1>1, <1>3, <2>3 DEF IsFor
    <3>2. QED
      BY <1>2, <1>3, <1>5, <2>1, <3>1, AnswerKeeps
  <2>4. QED
    BY <2>2, <2>3
<1>12. QED
  BY <1>6, <1>8, <1>9, <1>10, <1>11 DEF SettingsInv

LEMMA SwitchedKeeps ==
    ASSUME SettingsInv, NEW i \in DOMAIN jobs, Switched(i)
    PROVE  SettingsInv'
<1>1. PICK sw \in Switches : sw = jobs[i].sw
  BY SettingsTypes DEF SettingsInv
<1>2. PICK rejected \in BOOLEAN : rejected <=> jobs[i].verb = "enable" /\ ~jobs[i].ok
  OBVIOUS
<1>3. /\ Done(i) /\ IsFor(i, sw) /\ (host.serial => \A j \in DOMAIN jobs : i <= j)
      /\ on' = IF rejected THEN [on EXCEPT ![sw] = FALSE] ELSE on
      /\ rough' = [rough EXCEPT ![sw] = @ \/ (rejected /\ \E j \in DOMAIN jobs \ {i} : Switching(j, sw))]
      /\ jobs' = RemoveAt(jobs, i)
      /\ UNCHANGED <<host, flag, ready, toggles, exportVars>>
  BY <1>1, <1>2 DEF Switched, RolledBack, Answers, InTurn, Done, IsFor
<1>4. /\ flag \in [Switches -> BOOLEAN] /\ on' \in [Switches -> BOOLEAN]
      /\ rough' \in [Switches -> BOOLEAN] /\ (rejected => ~on'[sw]) /\ (~rejected => on' = on)
      /\ \A t \in Switches \ {sw} : on'[t] = on[t]
      /\ \A t \in Switches : rough[t] => rough'[t]
      /\ ~rough'[sw] /\ rejected => \A j \in DOMAIN jobs \ {i} : ~Switching(j, sw)
      /\ SettingsTypeOK
  BY <1>3, SettingsTypes DEF SettingsInv
<1>5. PICK f : Remain(DOMAIN jobs', f, i)
  BY <1>3, <1>4, RemovedRemain
<1>6. /\ JobOrder'
      /\ \A j, k \in DOMAIN jobs' : jobs'[j].verb = "export" /\ jobs'[k].verb = "export" => j = k
      /\ \A k \in DOMAIN jobs' : jobs'[k].verb = "export" =>
            \E j \in DOMAIN jobs \ {i} : jobs[j].verb = "export"
      /\ \A k \in DOMAIN jobs' : \E j \in DOMAIN jobs \ {i} : jobs'[k] = jobs[j]
  BY <1>3, <1>5, RemainOrder
<1>7. SettingsTypeOK'
  BY <1>3, <1>4, <1>5 DEF SettingsTypeOK, exportVars, Remain
<1>8. Probing'
  BY <1>3, <1>4, <1>5, RemainProbes
<1>9. OneExport'
  BY <1>3, <1>6 DEF SettingsInv, OneExport, exportVars
<1>10. FlagFollows'
  <2> SUFFICES ASSUME host.ksu, host.serial, NEW t \in Switches, ~rough'[t] PROVE Follows(t)'
    BY <1>3 DEF FlagFollows
  <2>1. Follows(t) /\ JobOrder /\ flag'[t] = flag[t] /\ \A j \in DOMAIN jobs : i <= j
    BY <1>3, <1>4 DEF SettingsInv, FlagFollows
  <2>2. CASE t = sw /\ rejected
    <3>1. \A j \in DOMAIN jobs \ {i} : ~IsFor(j, t)
      BY <1>4, <2>2 DEF IsFor, Switching
    <3>2. ~Leaves(i) /\ ~on'[t] /\ IsFor(i, t)
      BY <1>2, <1>3, <1>4, <2>2 DEF Leaves
    <3>3. QED
      BY <1>3, <1>4, <1>5, <2>1, <3>1, <3>2, AnswerKeeps
  <2>3. CASE t = sw /\ ~rejected
    <3>1. IsFor(i, t) /\ (Leaves(i) \/ jobs[i].verb = "disable") /\ on'[t] = on[t]
      BY <1>2, <1>3, <1>4, <2>3 DEF Leaves, IsFor
    <3>2. QED
      BY <1>3, <1>4, <1>5, <2>1, <3>1, AnswerKeeps
  <2>4. CASE t # sw
    <3>1. ~IsFor(i, t) /\ on'[t] = on[t] /\ ready'[t] = ready[t]
      BY <1>1, <1>3, <1>4, <2>4 DEF IsFor
    <3>2. QED
      BY <1>3, <1>4, <1>5, <2>1, <3>1, AnswerKeeps
  <2>5. QED
    BY <2>2, <2>3, <2>4
<1>11. QED
  BY <1>6, <1>7, <1>8, <1>9, <1>10 DEF SettingsInv

LEMMA ExportedKeeps ==
    ASSUME SettingsInv, NEW i \in DOMAIN jobs, Exported(i)
    PROVE  SettingsInv'
<1>1. /\ Done(i) /\ jobs[i].verb = "export" /\ (host.serial => \A j \in DOMAIN jobs : i <= j)
      /\ exportStatus' \in {"success", "error"} /\ jobs' = RemoveAt(jobs, i)
      /\ UNCHANGED <<host, switchVars, exports, exportModal, timers, hasty>>
  BY DEF Exported, Answers, InTurn, Done
<1>2. SettingsTypeOK
  BY DEF SettingsInv
<1>3. PICK f : Remain(DOMAIN jobs', f, i)
  BY <1>1, <1>2, RemovedRemain
<1>4. /\ JobOrder'
      /\ \A k \in DOMAIN jobs' : jobs'[k].verb # "export"
  <2>1. /\ JobOrder'
        /\ \A k \in DOMAIN jobs' : jobs'[k].verb = "export" =>
              \E j \in DOMAIN jobs \ {i} : jobs[j].verb = "export"
    BY <1>1, <1>3, RemainOrder
  <2>2. QED
    BY <1>1, <2>1 DEF SettingsInv, OneExport
<1>5. SettingsTypeOK'
  BY <1>1, <1>2, <1>3 DEF SettingsTypeOK, switchVars, Remain
<1>6. Probing'
  BY <1>1, <1>3, RemainProbes DEF switchVars
<1>7. OneExport'
  BY <1>1, <1>4 DEF SettingsInv, OneExport
<1>8. FlagFollows'
  <2> SUFFICES ASSUME host.ksu, host.serial, NEW t \in Switches, ~rough[t] PROVE Follows(t)'
    BY <1>1 DEF FlagFollows, switchVars
  <2>1. Follows(t) /\ JobOrder /\ flag'[t] = flag[t] /\ (\A j \in DOMAIN jobs : i <= j)
        /\ on'[t] = on[t] /\ ready'[t] = ready[t] /\ ~IsFor(i, t)
    BY <1>1 DEF SettingsInv, FlagFollows, switchVars, IsFor
  <2>2. QED
    BY <1>1, <1>2, <1>3, <2>1, AnswerKeeps
<1>9. QED
  BY <1>4, <1>5, <1>6, <1>7, <1>8 DEF SettingsInv

\* The export's modal.
LEMMA ExportModalKeeps ==
    ASSUME SettingsInv, OpenExport \/ CloseExport \/ Timeout \/ ExportFaded
    PROVE  SettingsInv'
<1>1. /\ UNCHANGED <<host, flag, on, ready, toggles, rough>> /\ SettingsTypeOK
      /\ timers \in 0..MaxExports + 1 /\ MaxExports \in Nat
  BY SettingsAssumption
     DEF OpenExport, CloseExport, Timeout, ExportFaded, switchVars, SettingsInv, SettingsTypeOK
<1>2. CASE OpenExport
  <2>1. PICK job : job = Job("export", "watch")
    OBVIOUS
  <2>2. job \in Jobs /\ job.verb = "export" /\ job.st = "issued"
    BY <2>1, JobType DEF Switches
  <2>3. /\ jobs' = Append(jobs, job) /\ exports' \in 0..MaxExports /\ exportModal = "closed"
        /\ exportModal' = "open" /\ exportStatus' = "loading" /\ UNCHANGED <<timers, hasty>>
    <3>1. exports \in 0..MaxExports
      BY <1>1 DEF SettingsTypeOK
    <3>2. QED
      BY <1>1, <1>2, <2>1, <3>1 DEF OpenExport
  <2>4. PICK L \in Nat :
          /\ jobs' \in Seq(Jobs) /\ DOMAIN jobs' = DOMAIN jobs \cup {L} /\ jobs'[L] = job
          /\ L \notin DOMAIN jobs
          /\ \A j \in DOMAIN jobs : jobs'[j] = jobs[j] /\ j < L /\ ~(L < j) /\ ~(L <= j)
    BY <1>1, <2>2, <2>3, JobIssued
  <2>5. SettingsTypeOK'
    BY <1>1, <2>3, <2>4 DEF SettingsTypeOK
  <2>6. JobOrder' /\ Probing'
    BY <1>1, <2>2, <2>4 DEF SettingsInv, JobOrder, Probing, Done
  <2>7. OneExport'
    <3>1. \A j \in DOMAIN jobs : jobs[j].verb # "export"
      BY <2>3 DEF SettingsInv, OneExport
    <3>2. QED
      BY <2>2, <2>3, <2>4, <3>1 DEF SettingsInv, OneExport
  <2>8. FlagFollows'
    <3> SUFFICES ASSUME host.ksu, host.serial, NEW t \in Switches, ~rough[t] PROVE Follows(t)'
      BY <1>1 DEF FlagFollows
    <3>1. Follows(t) /\ on'[t] = on[t] /\ flag'[t] = flag[t] /\ ready'[t] = ready[t]
      BY <1>1 DEF SettingsInv, FlagFollows
    <3>2. QED
      BY <1>1, <2>2, <2>3, <3>1, OtherIssued
  <2>9. QED
    BY <2>5, <2>6, <2>7, <2>8 DEF SettingsInv
<1>3. CASE CloseExport \/ Timeout \/ ExportFaded
  <2>1. jobs' = jobs /\ exports' = exports
    BY <1>3 DEF CloseExport, Timeout, ExportFaded
  <2>2. JobOrder' /\ Probing'
    BY <1>1, <2>1 DEF SettingsInv, JobOrder, Probing, Done
  <2>3. FlagFollows'
    <3> SUFFICES ASSUME host.ksu, host.serial, NEW t \in Switches, ~rough[t] PROVE Follows(t)'
      BY <1>1 DEF FlagFollows
    <3>1. Follows(t)
      BY DEF SettingsInv, FlagFollows
    <3>2. QED
      BY <1>1, <2>1, <3>1, StillFollows
  <2>4. CASE CloseExport
    <3>1. /\ exportStatus # "loading" /\ exportModal' = "leaving" /\ timers' = timers + 1
          /\ timers <= MaxExports /\ (hasty' <=> hasty \/ exportModal = "leaving")
          /\ hasty' \in BOOLEAN
          /\ exportStatus' = exportStatus
      BY <2>4 DEF CloseExport, CloseShown
    <3>2. SettingsTypeOK'
      BY <1>1, <2>1, <3>1 DEF SettingsTypeOK
    <3>3. OneExport'
      BY <1>1, <2>1, <3>1 DEF SettingsInv, OneExport
    <3>4. QED
      BY <2>2, <2>3, <3>2, <3>3 DEF SettingsInv
  <2>5. CASE Timeout
    <3>1. /\ timers > 0 /\ timers' = timers - 1 /\ UNCHANGED <<exportModal, hasty>>
          /\ exportStatus' = IF exportStatus = "loading" THEN exportStatus ELSE "idle"
      BY <2>5 DEF Timeout
    <3>2. SettingsTypeOK'
      BY <1>1, <2>1, <3>1 DEF SettingsTypeOK
    <3>3. OneExport'
      BY <1>1, <2>1, <3>1 DEF SettingsInv, OneExport
    <3>4. QED
      BY <2>2, <2>3, <3>2, <3>3 DEF SettingsInv
  <2>6. CASE ExportFaded
    <3>1. /\ exportModal = "leaving" /\ exportModal' = "closed" /\ (timers = 0 \/ hasty)
          /\ UNCHANGED <<exportStatus, timers, hasty>>
      BY <2>6 DEF ExportFaded
    <3>2. SettingsTypeOK'
      BY <1>1, <2>1, <3>1 DEF SettingsTypeOK
    <3>3. OneExport'
      BY <1>1, <2>1, <3>1 DEF SettingsInv, OneExport
    <3>4. QED
      BY <2>2, <2>3, <3>2, <3>3 DEF SettingsInv
  <2>7. QED
    BY <1>3, <2>4, <2>5, <2>6
<1>4. QED
  BY <1>2, <1>3

LEMMA SettingsInitially ==
    ASSUME SettingsInit
    PROVE  SettingsInv
<1>1. jobs = <<>> /\ DOMAIN jobs = {} /\ \A sw \in Switches : ~ready[sw]
  BY DEF SettingsInit
<1>2. SettingsTypeOK
  <2>1. MaxToggles \in Nat /\ MaxExports \in Nat /\ jobs \in Seq(Jobs)
    BY <1>1, SettingsAssumption
  <2>2. QED
    <3>1. /\ flag \in [Switches -> BOOLEAN] /\ on \in [Switches -> BOOLEAN]
          /\ ready \in [Switches -> BOOLEAN] /\ rough \in [Switches -> BOOLEAN]
      BY DEF SettingsInit
    <3>2. toggles \in 0..MaxToggles /\ exports \in 0..MaxExports /\ timers \in 0..MaxExports + 1
      BY <2>1 DEF SettingsInit
    <3>3. QED
      BY <2>1, <3>1, <3>2 DEF SettingsInit, SettingsTypeOK
<1>3. JobOrder /\ Probing /\ OneExport
  BY <1>1 DEF SettingsInit, JobOrder, Probing, OneExport
<1>4. FlagFollows
  BY <1>1 DEF FlagFollows, Follows, LastShown, AtRest, LastLeft, FirstEnables, Alternate
<1>5. QED
  BY <1>2, <1>3, <1>4 DEF SettingsInv

LEMMA SettingsStep ==
    ASSUME SettingsInv, [SettingsNext]_settingsVars
    PROVE  SettingsInv'
<1>1. CASE UNCHANGED settingsVars
  <2>1. UNCHANGED <<host, flag, on, ready, toggles, rough, jobs, exports, exportModal,
                    exportStatus, timers, hasty>>
    BY <1>1 DEF settingsVars, switchVars, exportVars
  <2>2. SettingsTypeOK' /\ JobOrder' /\ Probing' /\ OneExport'
    BY <2>1 DEF SettingsInv, SettingsTypeOK, JobOrder, Probing, OneExport, Done
  <2>3. FlagFollows'
    BY <2>1, StillFollows DEF SettingsInv, FlagFollows
  <2>4. QED
    BY <2>2, <2>3 DEF SettingsInv
<1>2. CASE SettingsNext
  BY <1>2, ProbeFirstKeeps, ToggleKeeps, SettingsHostKeeps, ProbedKeeps, SwitchedKeeps,
     ExportedKeeps, ExportModalKeeps DEF SettingsNext
<1>3. QED
  BY <1>1, <1>2

\* The queue of the page's calls and the flag files agree.
THEOREM SettingsInductive == SettingsSpec => []SettingsInv
BY SettingsInitially, SettingsStep, PTL DEF SettingsSpec

\* A switch at rest shows whether its flag file exists, whatever was tapped, rejected and
\* taken back in the meantime (toggleWatcher, setWatcherEnabled and their likes).
THEOREM SwitchesTellTheTruth == SettingsSpec => []SwitchTruth
<1>1. SettingsInv => SwitchTruth
  <2> SUFFICES ASSUME SettingsInv, host.ksu, host.serial, NEW sw \in Switches, ready[sw],
                      ~Pending(sw), ~rough[sw]
               PROVE  on[sw] = flag[sw]
    BY DEF SwitchTruth
  <2>1. AtRest(sw)
    BY DEF SettingsInv, FlagFollows, Follows
  <2>2. on[sw] <=> flag[sw]
    BY <2>1 DEF AtRest, Pending, Switching, IsFor
  <2>3. on[sw] \in BOOLEAN /\ flag[sw] \in BOOLEAN
    BY SettingsTypes DEF SettingsInv
  <2>4. QED
    BY <2>2, <2>3
<1>2. QED
  BY <1>1, SettingsInductive, PTL

\* The result of an export stays on its modal until the user closes it: no older export
\* and no timer of an older closing touches it (openExportModal, closeExportModal).
LEMMA ResultStays ==
    ASSUME SettingsInv, [SettingsNext]_settingsVars, exportStatus \in {"success", "error"},
           exportModal = "open", exportModal' = "open", ~hasty
    PROVE  exportStatus' = exportStatus
<1>1. timers = 0 /\ \A i \in DOMAIN jobs : jobs[i].verb # "export"
  BY DEF SettingsInv, OneExport
<1>2. ~OpenExport /\ ~Timeout /\ \A i \in DOMAIN jobs : ~Exported(i)
  BY <1>1 DEF OpenExport, Timeout, Exported, Answers
<1>3. QED
  BY <1>2 DEF SettingsNext, settingsVars, exportVars, ProbeFirst, ToggleSwitch, Host, Probed,
              Switched, CloseExport, ExportFaded

THEOREM ResultsStay == SettingsSpec => ResultKept
<1>1. SettingsInv /\ [SettingsNext]_settingsVars =>
         [(exportStatus \in {"success", "error"} /\ exportModal = "open"
           /\ exportModal' = "open" /\ ~hasty) => exportStatus' = exportStatus]_settingsVars
  BY ResultStays
<1>2. QED
  BY <1>1, SettingsInductive, PTL DEF SettingsSpec, ResultKept

-----------------------------------------------------------------------------
(* The pickers.                                                            *)

\* A list is of the package that was asked for last.
QuietInv ==
    host.serial /\ picker /\ ~typed /\ ~failure =>
        IF requests = <<>> THEN loaded => items = Trim(field)
                           ELSE requests[Len(requests)].pkg = Trim(field)

PickerInv == PickerTypeOK /\ AddedIsKept /\ QuietInv

LEMMA MinMaxIn ==
    ASSUME NEW n \in Nat, NEW S, S \subseteq 1..n, S # {}
    PROVE  Min(S) \in S /\ Max(S) \in S /\ \A k \in S : Min(S) <= k /\ k <= Max(S)
<1>1. S \subseteq Nat /\ S \subseteq 0..n
  OBVIOUS
<1>2. \E x \in S : \A y \in S : x <= y
  BY <1>1, HasLeast
<1>3. Min(S) \in S /\ \A k \in S : Min(S) <= k
  BY <1>2 DEF Min
<1>4. PICK x \in S : \A y \in S : y <= x
  BY <1>1, HasGreatest
<1>5. \A y \in S : x >= y
  BY <1>1, <1>4
<1>6. Max(S) \in S /\ \A k \in S : Max(S) >= k
  BY <1>5 DEF Max
<1>7. QED
  BY <1>1, <1>3, <1>6

\* trim() leaves a text, and does not leave nothing of one that is more than blanks.
LEMMA TrimType ==
    ASSUME NEW t \in Seq(Chars)
    PROVE  /\ Trim(t) \in Seq(Chars)
           /\ (\E i \in DOMAIN t : t[i] # " ") => Trim(t) # Blank
<1>1. PICK inner : inner = {i \in DOMAIN t : t[i] # " "}
  OBVIOUS
<1>2. /\ Len(t) \in Nat /\ DOMAIN t = 1..Len(t) /\ \A k \in 1..Len(t) : t[k] \in Chars
      /\ inner \subseteq 1..Len(t)
  <2>1. Len(t) \in Nat /\ DOMAIN t = 1..Len(t)
    OBVIOUS
  <2>2. \A k \in 1..Len(t) : t[k] \in Chars
    BY ElementOfSeq
  <2>3. QED
    BY <1>1, <2>1, <2>2
<1>3. CASE inner = {}
  BY <1>1, <1>3, EmptySeq DEF Trim, Blank
<1>4. CASE inner # {}
  <2>1. PICK m, n : m = Min(inner) /\ n = Max(inner)
    OBVIOUS
  <2>2. m \in 1..Len(t) /\ n \in 1..Len(t) /\ m <= n
    BY <1>2, <1>4, <2>1, MinMaxIn
  <2>3. Trim(t) = SubSeq(t, m, n)
    BY <1>1, <1>4, <2>1 DEF Trim
  <2>4. SubSeq(t, m, n) \in Seq(Chars) /\ Len(SubSeq(t, m, n)) = IF m <= n THEN n - m + 1 ELSE 0
    BY <1>2, <2>2, SubSeqProperties
  <2>5. Len(SubSeq(t, m, n)) # 0 /\ Len(<<>>) = 0
    BY <2>2, <2>4
  <2>6. SubSeq(t, m, n) # <<>>
    BY <2>5
  <2>7. QED
    BY <2>3, <2>4, <2>6 DEF Blank
<1>5. QED
  BY <1>3, <1>4

Request == [pkg : Seq(Chars), st : {"issued", "answered"}, res : Results]

LEMMA PickerTypes ==
    ASSUME PickerTypeOK
    PROVE  /\ requests \in Seq(Request) /\ Len(requests) \in Nat
           /\ DOMAIN requests = 1..Len(requests)
           /\ \A i \in DOMAIN requests : /\ requests[i] \in Request
                                         /\ requests[i].pkg \in Seq(Chars)
                                         /\ requests[i].res \in Results
           /\ requests = <<>> <=> Len(requests) = 0
           /\ pkg \in Seq(Chars) /\ name \in Seq(Chars) /\ field \in Seq(Chars)
           /\ items \in Seq(Chars)
<1>1. requests \in Seq(Request)
  BY DEF PickerTypeOK, Request
<1>2. /\ Len(requests) \in Nat /\ DOMAIN requests = 1..Len(requests)
      /\ \A i \in DOMAIN requests : requests[i] \in Request
      /\ requests = <<>> <=> Len(requests) = 0
  BY <1>1
<1>3. \A r \in Request : r.pkg \in Seq(Chars) /\ r.res \in Results
  BY DEF Request
<1>4. QED
  BY <1>1, <1>2, <1>3 DEF PickerTypeOK

\* The engine keeps it, or it is a number of too many digits.
KeptOrLong(e) == Kept(e) \/ (e.value # "text" /\ Len(e.name) > SafeDigits)

\* What the Add button accepts, the engine keeps.
LEMMA EntryKept ==
    ASSUME PickerTypeOK, AddEnabled, NEW e \in Entries
    PROVE  KeptOrLong(e)
<1>1. isValidIdentifier(pkg) => looks_like_valid_identifier(pkg)
  BY DEF isValidIdentifier, looks_like_valid_identifier, StartsWith, EndsWith
<1>2. isValidIdentifier(name) => looks_like_valid_identifier(name)
  BY DEF isValidIdentifier, looks_like_valid_identifier, StartsWith, EndsWith
<1>3. isValidOp(name) => Over(Trim(name), {"0"}) \/ looks_like_valid_op_name(Trim(name))
  BY DEF isValidOp, looks_like_valid_op_name, StartsWith, EndsWith
<1>4. isValidIdentifier(pkg)
  BY DEF AddEnabled
<1>5. CASE kind = "comp"
  <2>1. e.pkg = pkg /\ e.name = name /\ isValidIdentifier(name)
    BY <1>5 DEF Entries, AddEnabled
  <2>2. QED
    BY <1>1, <1>2, <1>4, <1>5, <2>1 DEF Kept, KeptOrLong
<1>6. CASE kind = "appop"
  <2>1. PICK op : op = Trim(name)
    OBVIOUS
  <2>2. /\ e \in [pkg : {pkg}, name : {op}, value : Parsed(op)] /\ isValidOp(name)
    BY <1>6, <2>1 DEF Entries, AddEnabled
  <2>3. e.pkg = pkg /\ e.name = op /\ e.value \in Parsed(op)
    BY <2>2
  <2>4. CASE ~Over(op, {"0"})
    <3>1. e.value = "text" /\ looks_like_valid_op_name(op)
      BY <1>3, <2>1, <2>2, <2>3, <2>4 DEF Parsed
    <3>2. QED
      BY <1>1, <1>4, <1>6, <2>3, <3>1 DEF Kept, KeptOrLong
  <2>5. CASE Over(op, {"0"}) /\ Len(op) <= SafeDigits
    <3>1. e.value = "fits"
      BY <2>3, <2>5 DEF Parsed
    <3>2. QED
      BY <1>1, <1>4, <1>6, <2>3, <3>1 DEF Kept, KeptOrLong
  <2>6. CASE Over(op, {"0"}) /\ ~(Len(op) <= SafeDigits)
    <3>1. e.value # "text"
      BY <2>3, <2>6 DEF Parsed
    <3>2. Len(op) \in Nat
      <4>1. name \in Seq(Chars)
        BY PickerTypes
      <4>2. op \in Seq(Chars)
        BY <2>1, <4>1, TrimType
      <4>3. QED
        BY <4>2
    <3>3. Len(op) > SafeDigits
      BY <2>6, <3>2, PickerAssumption
    <3>4. QED
      BY <2>3, <3>1, <3>3 DEF KeptOrLong
  <2>7. QED
    BY <2>4, <2>5, <2>6
<1>7. QED
  BY <1>5, <1>6, PickerAssumption DEF PickerTypeOK

\* load() throws, or its request is the last one.
LEMMA LoadsForDoes ==
    ASSUME PickerTypeOK, NEW p \in Seq(Chars), NEW ready0 \in BOOLEAN, LoadsFor(p, ready0)
    PROVE  /\ waits' \in BOOLEAN /\ loaded' \in BOOLEAN /\ failure' \in BOOLEAN
           /\ sent' \in 0..MaxRequests /\ requests' \in Seq(Request)
           /\ failure' \/ (requests' # <<>> /\ requests'[Len(requests')].pkg = p)
<1>1. sent \in 0..MaxRequests /\ MaxRequests \in Nat /\ requests \in Seq(Request)
  BY PickerAssumption, PickerTypes DEF PickerTypeOK
<1>2. CASE Refused(p)
  BY <1>1, <1>2 DEF LoadsFor
<1>3. CASE ~Refused(p)
  <2>1. PICK r : r = [pkg |-> p, st |-> "issued", res |-> "full"]
    OBVIOUS
  <2>2. r \in Request /\ r.pkg = p
    BY <2>1 DEF Request, Results
  <2>3. /\ requests' = Append(requests, r) /\ sent' = sent + 1 /\ sent < MaxRequests
        /\ waits' = TRUE /\ loaded' = ready0 /\ failure' = FALSE
    BY <1>3, <2>1 DEF LoadsFor
  <2>4. /\ requests' \in Seq(Request) /\ Len(requests') = Len(requests) + 1
        /\ requests'[Len(requests) + 1] = r
    BY <1>1, <2>2, <2>3, AppendAtEnd
  <2>5. requests' # <<>> /\ requests'[Len(requests')].pkg = p
    BY <1>1, <2>2, <2>4
  <2>6. sent' \in 0..MaxRequests
    BY <1>1, <2>3
  <2>7. QED
    BY <2>3, <2>4, <2>5, <2>6
<1>4. QED
  BY <1>2, <1>3

LEMMA PickerBegins == PickerInit => PickerInv
<1> SUFFICES ASSUME PickerInit PROVE PickerInv
  OBVIOUS
<1>1. Blank \in Seq(Chars) /\ requests \in Seq(Request)
  BY DEF PickerInit, Blank
<1>2. {pkg, name, field, items} \subseteq Seq(Chars)
  BY <1>1 DEF PickerInit
<1>3. sent \in 0..MaxRequests
  BY PickerAssumption DEF PickerInit
<1>4. {adding, picker, waits, loaded, failure, typed} \subseteq BOOLEAN
  BY DEF PickerInit
<1>5. host \in Hosts /\ kind \in Kinds
      /\ added \subseteq [pkg : Seq(Chars), name : Seq(Chars), value : Values]
  BY DEF PickerInit, NoEntry
<1>6. PickerTypeOK
  BY <1>1, <1>2, <1>3, <1>4, <1>5 DEF PickerTypeOK, Request
<1>7. AddedIsKept /\ QuietInv
  BY DEF PickerInit, AddedIsKept, NoEntry, QuietInv
<1>8. QED
  BY <1>6, <1>7 DEF PickerInv

\* The form's own actions leave the picker's list alone.
LEMMA FormKeeps ==
    ASSUME PickerInv, OpenForm \/ TypePackage \/ TypeName \/ CancelForm \/ ConfirmEntry
    PROVE  PickerInv'
<1> USE DEF PickerInv
<1>1. UNCHANGED <<host, kind, picker, field, listOf>>
  BY DEF OpenForm, TypePackage, TypeName, CancelForm, ConfirmEntry
<1>2. QuietInv'
  BY <1>1 DEF QuietInv, listOf
<1>3. /\ adding' \in BOOLEAN /\ pkg' \in Seq(Chars) /\ name' \in Seq(Chars)
      /\ added' = added \/ added' = NoEntry \/ (\E e \in Entries : AddEnabled /\ added' = {e})
  <2>1. /\ pkg \in Seq(Chars) /\ name \in Seq(Chars) /\ Blank \in Seq(Chars)
        /\ PackageTexts \subseteq Seq(Chars) /\ NameTexts \subseteq Seq(Chars)
        /\ adding \in BOOLEAN
    BY PickerAssumption, PickerTypes DEF Blank, PickerTypeOK
  <2>2. CASE OpenForm
    BY <2>1, <2>2 DEF OpenForm
  <2>3. CASE TypePackage
    BY <2>1, <2>3 DEF TypePackage
  <2>4. CASE TypeName
    BY <2>1, <2>4 DEF TypeName
  <2>5. CASE CancelForm \/ ConfirmEntry
    BY <2>1, <2>5 DEF CancelForm, ConfirmEntry
  <2>6. QED
    BY <2>2, <2>3, <2>4, <2>5
<1>4. Entries \subseteq [pkg : Seq(Chars), name : Seq(Chars), value : Values]
  <2>1. pkg \in Seq(Chars) /\ name \in Seq(Chars) /\ Trim(name) \in Seq(Chars)
    BY PickerTypes, TrimType
  <2>2. Parsed(Trim(name)) \subseteq Values /\ "text" \in Values
    BY DEF Parsed, Values
  <2>3. QED
    BY <2>1, <2>2 DEF Entries
<1>5. \A e : KeptOrLong(e)' <=> KeptOrLong(e)
  BY <1>1 DEF Kept, KeptOrLong
<1>6. \A e \in added' : KeptOrLong(e)
  BY <1>3, EntryKept DEF AddedIsKept, KeptOrLong, NoEntry
<1>7. AddedIsKept'
  BY <1>5, <1>6 DEF AddedIsKept, KeptOrLong
<1>8. PickerTypeOK'
  BY <1>1, <1>3, <1>4 DEF PickerTypeOK, listOf, NoEntry
<1>9. QED
  BY <1>2, <1>7, <1>8

\* What an action of the picker has to leave right.
LEMMA PickerKeeps ==
    ASSUME PickerInv, UNCHANGED <<host, kind, adding, pkg, added>>,
           name' \in Seq(Chars), field' \in Seq(Chars), items' \in Seq(Chars),
           picker' \in BOOLEAN, typed' \in BOOLEAN, waits' \in BOOLEAN, loaded' \in BOOLEAN,
           failure' \in BOOLEAN, sent' \in 0..MaxRequests, requests' \in Seq(Request), QuietInv'
    PROVE  PickerInv'
<1>1. \A e : Kept(e)' <=> Kept(e)
  BY DEF Kept
<1>2. AddedIsKept'
  BY <1>1 DEF PickerInv, AddedIsKept
<1>3. {pkg', name', field', items'} \subseteq Seq(Chars)
  BY PickerTypes DEF PickerInv
<1>4. {adding', picker', waits', loaded', failure', typed'} \subseteq BOOLEAN
  BY DEF PickerInv, PickerTypeOK
<1>5. PickerTypeOK'
  BY <1>3, <1>4 DEF PickerInv, PickerTypeOK, Request
<1>6. QED
  BY <1>2, <1>5 DEF PickerInv

\* The types of what an action leaves alone.
LEMMA PickerHas ==
    ASSUME PickerInv
    PROVE  /\ name \in Seq(Chars) /\ field \in Seq(Chars) /\ items \in Seq(Chars)
           /\ pkg \in Seq(Chars) /\ picker \in BOOLEAN /\ typed \in BOOLEAN
           /\ waits \in BOOLEAN /\ loaded \in BOOLEAN /\ failure \in BOOLEAN
           /\ sent \in 0..MaxRequests /\ requests \in Seq(Request)
  BY PickerTypes DEF PickerInv, PickerTypeOK

\* The button of the form has a package for the picker to load, if it is for components.
LEMMA LoadsAlways ==
    ASSUME PickerInv, kind = "comp" => isValidIdentifier(pkg)
    PROVE  LoadsOnOpen(Trim(pkg))
<1>1. CASE kind = "comp"
  <2>1. pkg \in Seq(Chars) /\ pkg # Blank /\ \A i \in DOMAIN pkg : pkg[i] # " "
    BY <1>1, PickerHas DEF isValidIdentifier, Over
  <2>2. 1 \in DOMAIN pkg
    <3>1. pkg \in Seq(Chars) /\ pkg # <<>>
      BY <2>1 DEF Blank
    <3>2. Len(pkg) \in Nat /\ Len(pkg) # 0 /\ DOMAIN pkg = 1..Len(pkg)
      BY <3>1, EmptySeq
    <3>3. QED
      BY <3>2
  <2>3. Trim(pkg) # Blank
    BY <2>1, <2>2, TrimType
  <2>4. QED
    BY <2>3 DEF LoadsOnOpen
<1>2. CASE kind = "appop"
  BY <1>2 DEF LoadsOnOpen
<1>3. QED
  BY <1>1, <1>2, PickerAssumption DEF PickerInv, PickerTypeOK

\* A load of what is in the field is the last one, or fails.
LEMMA LoadsKeep ==
    ASSUME PickerInv, UNCHANGED <<host, formVars>>, picker', field' \in Seq(Chars),
           items' \in Seq(Chars), typed' = FALSE,
           NEW ready0 \in BOOLEAN, LoadsFor(Trim(field'), ready0)
    PROVE  PickerInv'
<1>1. PICK p : p = Trim(field')
  OBVIOUS
<1>2. p \in Seq(Chars)
  BY <1>1, TrimType
<1>3. LoadsFor(p, ready0)
  BY <1>1
<1>4. /\ waits' \in BOOLEAN /\ loaded' \in BOOLEAN /\ failure' \in BOOLEAN
      /\ sent' \in 0..MaxRequests /\ requests' \in Seq(Request)
      /\ failure' \/ (requests' # <<>> /\ requests'[Len(requests')].pkg = p)
  BY <1>2, <1>3, LoadsForDoes DEF PickerInv
<1>5. QuietInv'
  BY <1>1, <1>4 DEF QuietInv, Trim
<1>6. UNCHANGED <<host, kind, adding, pkg, added, name>> /\ name \in Seq(Chars)
  BY PickerHas DEF formVars
<1>7. picker' \in BOOLEAN /\ typed' \in BOOLEAN
  BY <1>4
<1>8. QED
  BY <1>4, <1>5, <1>6, <1>7, PickerKeeps

\* The answer to a request updates it in its place.
LEMMA InspectKeeps ==
    ASSUME PickerInv, NEW i \in DOMAIN requests, Inspect(i)
    PROVE  PickerInv'
<1>1. /\ UNCHANGED <<host, formVars, picker, field, waits, loaded, failure, items, sent, typed>>
      /\ \E res \in Outcomes :
            requests' = [requests EXCEPT ![i].st = "answered", ![i].res = res]
  BY DEF Inspect
<1>2. Outcomes \subseteq Results
  BY Zenon DEF Outcomes, Results, PickerInv, PickerTypeOK, isLive, isWebUIX, isKSU
<1>3. PICK r \in Results : requests' = [requests EXCEPT ![i].st = "answered", ![i].res = r]
  BY <1>1, <1>2
<1>4. /\ requests \in Seq(Request) /\ DOMAIN requests = 1..Len(requests)
      /\ Len(requests) \in Nat /\ \A k \in DOMAIN requests : requests[k] \in Request
      /\ requests = <<>> <=> Len(requests) = 0
  BY PickerTypes DEF PickerInv
<1>5. PICK new : new = [requests[i] EXCEPT !.st = "answered", !.res = r]
  OBVIOUS
<1>6. new \in Request /\ new.pkg = requests[i].pkg
  BY <1>3, <1>4, <1>5 DEF Request
<1>7. requests' = [requests EXCEPT ![i] = new]
  BY <1>3, <1>5
<1>8. requests' \in Seq(Request) /\ Len(requests') = Len(requests) /\ requests' # <<>>
  BY <1>4, <1>6, <1>7
<1>9. \A k \in DOMAIN requests : requests'[k].pkg = requests[k].pkg
  BY <1>4, <1>6, <1>7
<1>10. Len(requests) \in DOMAIN requests /\ requests # <<>>
  BY <1>4
<1>11. requests'[Len(requests')].pkg = requests[Len(requests)].pkg
  BY <1>8, <1>9, <1>10
<1>12. QuietInv => QuietInv'
  BY <1>1, <1>8, <1>10, <1>11 DEF QuietInv, Trim
<1>13. /\ UNCHANGED <<host, kind, adding, pkg, added, name, picker, field, waits, loaded>>
       /\ UNCHANGED <<failure, items, sent, typed>>
  BY <1>1 DEF formVars
<1>14. QED
  BY <1>8, <1>12, <1>13, PickerHas, PickerKeeps DEF PickerInv

\* The last request's answer is the list of its package; any other is not the last one yet.
LEMMA ListedKeeps ==
    ASSUME PickerInv, NEW i \in DOMAIN requests, Listed(i)
    PROVE  PickerInv'
<1>1. PICK r : r = requests[i]
  OBVIOUS
<1>2. /\ requests \in Seq(Request) /\ DOMAIN requests = 1..Len(requests)
      /\ Len(requests) \in Nat /\ r.pkg \in Seq(Chars)
  BY <1>1, PickerTypes DEF PickerInv
<1>3. /\ UNCHANGED <<host, kind, adding, pkg, added, name, picker, field, sent, typed>>
      /\ InTurn(i, DOMAIN requests) /\ requests' = RemoveAt(requests, i)
      /\ items' = IF r.res = "error" THEN items ELSE r.pkg
      /\ failure' = (failure \/ r.res # "full")
      /\ loaded' = (r.res # "error" \/ (loaded /\ kind = "appop"))
      /\ waits' = FALSE
  BY <1>1, Zenon DEF Listed, formVars, WaitsAfter
<1>4. /\ requests' \in Seq(Request) /\ Len(requests') = Len(requests) - 1
      /\ \A k \in 1..Len(requests) - 1 : requests'[k] = requests[Before(i, k)]
      /\ requests' = <<>> <=> Len(requests') = 0
  <2>1. PICK q : q = RemoveAt(requests, i)
    OBVIOUS
  <2>2. /\ q \in Seq(Request) /\ Len(q) = Len(requests) - 1 /\ DOMAIN q = 1..Len(requests) - 1
        /\ \A k \in DOMAIN q : q[k] = requests[Before(i, k)]
    <3>1. requests \in Seq(Request)
      BY <1>2
    <3>2. /\ RemoveAt(requests, i) \in Seq(Request)
          /\ Len(RemoveAt(requests, i)) = Len(requests) - 1
          /\ DOMAIN RemoveAt(requests, i) = 1..Len(requests) - 1
          /\ \A k \in DOMAIN RemoveAt(requests, i) :
                RemoveAt(requests, i)[k] = requests[Before(i, k)]
      BY <3>1, RemoveAtProperties
    <3>3. QED
      BY <2>1, <3>2
  <2>3. q = <<>> <=> Len(q) = 0
    BY <2>2, EmptySeq
  <2>4. requests' = q
    BY <1>3, <2>1
  <2>5. QED
    BY <2>2, <2>3, <2>4
<1>5. QuietInv'
  <2> SUFFICES ASSUME host.serial, picker, ~typed, ~failure'
               PROVE  IF requests' = <<>> THEN loaded' => items' = Trim(field)
                      ELSE requests'[Len(requests')].pkg = Trim(field)
    BY <1>3 DEF QuietInv, Trim
  <2>1. i = 1 /\ ~failure /\ requests # <<>>
    <3>1. \A j \in DOMAIN requests : i <= j
      BY <1>3 DEF InTurn
    <3>2. i \in 1..Len(requests) /\ 1 \in DOMAIN requests /\ 1 <= i /\ i \in Nat
      BY <1>2
    <3>3. i <= 1
      BY <3>1, <3>2
    <3>4. i = 1
      BY <3>2, <3>3
    <3>5. ~failure
      BY <1>3
    <3>6. requests # <<>>
      BY <1>2, EmptySeq
    <3>7. QED
      BY <3>4, <3>5, <3>6
  <2>2. requests[Len(requests)].pkg = Trim(field)
    BY <2>1 DEF PickerInv, QuietInv
  <2>3. r.res = "full"
    BY <1>3
  <2>4. CASE Len(requests) = 1
    BY <1>1, <1>3, <1>4, <2>1, <2>2, <2>3, <2>4
  <2>5. CASE Len(requests) # 1
    <3>1. Len(requests) - 1 \in 1..Len(requests) - 1 /\ Before(i, Len(requests) - 1) = Len(requests)
      <4>1. PICK n : n = Len(requests)
        OBVIOUS
      <4>2. n \in Nat /\ i \in 1..n
        BY <1>2, <4>1
      <4>3. i = 1 /\ n # 1
        BY <2>1, <2>5, <4>1
      <4>4. n - 1 \in 1..n - 1 /\ Before(i, n - 1) = n
        BY <4>2, <4>3 DEF Before
      <4>5. QED
        BY <4>1, <4>4
    <3>2. requests'[Len(requests')] = requests[Len(requests)] /\ requests' # <<>>
      BY <1>2, <1>4, <3>1
    <3>3. QED
      BY <2>2, <3>2
  <2>6. QED
    BY <2>4, <2>5
<1>6. items' \in Seq(Chars) /\ waits' \in BOOLEAN /\ loaded' \in BOOLEAN /\ failure' \in BOOLEAN
  BY <1>2, <1>3, PickerHas
<1>7. QED
  BY <1>3, <1>4, <1>5, <1>6, PickerHas, PickerKeeps

LEMMA PickerStep ==
    ASSUME PickerInv, [PickerNext]_pickerVars
    PROVE  PickerInv'
<1>1. CASE OpenForm \/ TypePackage \/ TypeName \/ CancelForm \/ ConfirmEntry
  BY <1>1, FormKeeps
<1>2. CASE OpenPicker
  <2>1. LoadsFor(Trim(pkg), FALSE)
    BY <1>2, LoadsAlways DEF OpenPicker
  <2>2. field' = pkg /\ picker' = TRUE /\ items' = Blank /\ typed' = FALSE
        /\ UNCHANGED <<host, formVars>>
    BY <1>2 DEF OpenPicker
  <2>3. picker' /\ field' \in Seq(Chars)
    BY <2>2, PickerHas
  <2>4. items' \in Seq(Chars)
    BY <2>2 DEF Blank
  <2>5. LoadsFor(Trim(field'), FALSE)
    BY <2>1, <2>2
  <2>6. QED
    BY <2>2, <2>3, <2>4, <2>5, LoadsKeep
<1>3. CASE TypeField
  <2>1. field' \in Seq(Chars) /\ typed' = TRUE
        /\ UNCHANGED <<host, kind, adding, pkg, added, name, picker, waits, loaded, failure>>
        /\ UNCHANGED <<items, requests, sent>>
    BY <1>3, PickerAssumption DEF TypeField, formVars
  <2>2. QuietInv'
    BY <2>1 DEF QuietInv
  <2>3. QED
    BY <2>1, <2>2, PickerHas, PickerKeeps
<1>4. CASE Submit
  <2>1. LoadsFor(Trim(field), loaded) /\ typed' = FALSE /\ picker
        /\ UNCHANGED <<host, formVars, picker, field, items>>
    BY <1>4 DEF Submit
  <2>2. LoadsFor(Trim(field'), loaded) /\ picker' /\ field' \in Seq(Chars) /\ items' \in Seq(Chars)
        /\ loaded \in BOOLEAN
    BY <2>1, PickerHas
  <2>3. QED
    BY <2>1, <2>2, LoadsKeep
<1>5. CASE ClosePicker \/ Pick
  <2>1. UNCHANGED <<host, kind, adding, pkg, added, field, listOf>> /\ picker' = FALSE
    BY <1>5 DEF ClosePicker, Pick, formVars
  <2>2. name' \in Seq(Chars)
    <3>1. Found \in Seq(Chars)
      <4>1. {"a", "."} \subseteq Chars /\ {"a", ":"} \subseteq Chars
        BY DEF Chars
      <4>2. <<"a", ".", "a">> \in Seq({"a", "."})
        OBVIOUS
      <4>3. <<"a", ":", "a">> \in Seq({"a", ":"})
        OBVIOUS
      <4>4. <<"a", ".", "a">> \in Seq(Chars)
        BY <4>1, <4>2, SeqMonotonic, Zenon
      <4>5. <<"a", ":", "a">> \in Seq(Chars)
        BY <4>1, <4>3, SeqMonotonic, Zenon
      <4>6. QED
        BY <4>4, <4>5 DEF Found
    <3>2. ClosePicker => name' = name
      BY DEF ClosePicker, formVars
    <3>3. Pick => name' = Found
      BY DEF Pick
    <3>4. QED
      BY <1>5, <3>1, <3>2, <3>3, PickerHas
  <2>3. QuietInv'
    BY <2>1 DEF QuietInv
  <2>4. QED
    BY <2>1, <2>2, <2>3, PickerHas, PickerKeeps DEF listOf
<1>6. CASE Answering
  BY <1>6, InspectKeeps, ListedKeeps DEF Answering
<1>7. CASE UNCHANGED pickerVars
  <2>1. UNCHANGED <<host, kind, adding, pkg, added, name, picker, field>> /\ UNCHANGED listOf
    BY <1>7 DEF pickerVars, formVars
  <2>2. QuietInv'
    BY <2>1 DEF PickerInv, QuietInv, listOf, Trim
  <2>3. QED
    BY <2>1, <2>2, PickerHas, PickerKeeps DEF listOf
<1>8. QED
  BY <1>1, <1>2, <1>3, <1>4, <1>5, <1>6, <1>7 DEF PickerNext

\* The inductive invariant of the form of "Add" and of its picker.
THEOREM PickerInductive == PickerSpec => []PickerInv
<1>1. PickerInit => PickerInv
  BY PickerBegins
<1>2. PickerInv /\ [PickerNext]_pickerVars => PickerInv'
  BY PickerStep
<1>3. QED
  BY <1>1, <1>2, PTL DEF PickerSpec

\* What the Add button accepts is not dropped by the rules engine (isValidIdentifier,
\* isValidOp, addAppop; apply_components, apply_appops), be the text ever so long, except
\* perhaps an op that is a number of more than SafeDigits digits.
THEOREM AddIsKept == PickerSpec => []AddedIsKept
<1>1. PickerInv => AddedIsKept
  BY DEF PickerInv
<1>2. QED
  BY <1>1, PickerInductive, PTL

\* The list on the screen is of the package in the field, however often the picker was
\* opened, closed and asked before the answers came.
THEOREM ListIsOfTheField == PickerSpec => []QuietList
<1>1. PickerInv => QuietList
  BY DEF PickerInv, QuietInv, QuietList, ListOnScreen
<1>2. QED
  BY <1>1, PickerInductive, PTL

\* A spinner spins only while there is a request to wait for, so that its answer ends it
\* (the finally block of load): the safety half of SpinnerEnds.
SpinsForARequest == waits => requests # <<>>

THEOREM SpinnerHasARequest == PickerSpec => []SpinsForARequest
<1>1. PickerInit => SpinsForARequest
  BY DEF PickerInit, SpinsForARequest
<1>2. ASSUME PickerInv, SpinsForARequest, [PickerNext]_pickerVars PROVE SpinsForARequest'
  <2>1. ASSUME NEW p \in Seq(Chars), NEW b \in BOOLEAN, LoadsFor(p, b) PROVE SpinsForARequest'
    <3>1. Refused(p) => ~waits'
      BY <2>1 DEF LoadsFor
    <3>2. ~Refused(p) => ~failure'
      BY <2>1 DEF LoadsFor
    <3>3. QED
      BY <1>2, <2>1, <3>1, <3>2, LoadsForDoes DEF PickerInv, SpinsForARequest
  <2>2. CASE OpenPicker
    BY <1>2, <2>1, <2>2, LoadsAlways, PickerHas, TrimType DEF OpenPicker
  <2>3. CASE Submit
    BY <1>2, <2>1, <2>3, PickerHas, TrimType DEF Submit
  <2>4. ASSUME NEW i \in DOMAIN requests, Inspect(i) PROVE SpinsForARequest'
    <3>1. DOMAIN requests' = DOMAIN requests /\ waits' = waits
      <4>1. PICK res : requests' = [requests EXCEPT ![i].st = "answered", ![i].res = res]
        BY <2>4 DEF Inspect
      <4>2. QED
        BY <2>4, <4>1 DEF Inspect
    <3>2. QED
      BY <2>4, <3>1 DEF SpinsForARequest
  <2>5. ASSUME NEW i \in DOMAIN requests, Listed(i) PROVE SpinsForARequest'
    BY <2>5 DEF Listed, WaitsAfter, SpinsForARequest
  <2>6. CASE OpenForm \/ TypePackage \/ TypeName \/ CancelForm \/ ConfirmEntry
    BY <1>2, <2>6 DEF OpenForm, TypePackage, TypeName, CancelForm, ConfirmEntry, listOf, SpinsForARequest
  <2>7. CASE TypeField \/ ClosePicker \/ Pick \/ UNCHANGED pickerVars
    BY <1>2, <2>7 DEF TypeField, ClosePicker, Pick, pickerVars, listOf, SpinsForARequest
  <2>8. QED
    BY <1>2, <2>2, <2>3, <2>4, <2>5, <2>6, <2>7 DEF PickerNext, Answering
<1>3. QED
  BY <1>1, <1>2, PickerInductive, PTL DEF PickerSpec

-----------------------------------------------------------------------------
(* The log page.                                                           *)

Answered(n, k) == reads[n][k].st = "answered"
Has(n, k) == reads[n][k].data

\* The files, and what was in them when a load began, hold no line still to be logged.
LogTypes ==
    /\ host \in Hosts /\ logged \in 0..MaxLines /\ loads \in 0..MaxLoads
    /\ files \in [Paths -> SUBSET (1..logged)]
    /\ atBegin \in [1..MaxLoads -> SUBSET (1..logged)]
    /\ DOMAIN reads \subseteq 1..loads /\ reads \in [DOMAIN reads -> [1..2 -> Reads]]
    /\ logs \in [Paths -> SUBSET Lines] /\ spinning \in BOOLEAN

\* The first read has what was there and still is in run.log, and the two have what was
\* there and still is in either file.
ReadSoFar(n) ==
    /\ Answered(n, 2) => Answered(n, 1)
    /\ Answered(n, 1) => atBegin[n] \cap files["run.log"] \subseteq Has(n, 1)
    /\ Answered(n, 2) => atBegin[n] \cap InFiles(files) \subseteq Has(n, 1) \cup Has(n, 2)

LogInv == LogTypes /\ (host.serial => \A n \in DOMAIN reads : ReadSoFar(n))

LEMMA OrderOfReads == ReadOrder[1] = "run.log" /\ ReadOrder[2] = "run.log.1"
  BY DEF ReadOrder

LEMMA LogBegins == LogInit => LogInv
<1> SUFFICES ASSUME LogInit PROVE LogInv
  OBVIOUS
<1>1. DOMAIN reads = {} /\ reads \in [DOMAIN reads -> [1..2 -> Reads]]
  BY DEF LogInit
<1>2. LogTypes
  <2>1. host \in Hosts /\ logged = 0 /\ loads = 0 /\ spinning = FALSE
    BY DEF LogInit
  <2>2. /\ files \in [Paths -> SUBSET (1..logged)] /\ logs \in [Paths -> SUBSET Lines]
        /\ atBegin \in [1..MaxLoads -> SUBSET (1..logged)]
    BY DEF LogInit
  <2>3. logged \in 0..MaxLines /\ loads \in 0..MaxLoads /\ DOMAIN reads \subseteq 1..loads
    BY <1>1, <2>1, LogAssumption
  <2>4. QED
    BY <1>1, <2>1, <2>2, <2>3 DEF LogTypes
<1>3. QED
  BY <1>1, <1>2 DEF LogInv

\* The loggers add newer lines, and a rotation brings no line back.
LEMMA LoggersKeep ==
    ASSUME LogInv, Log \/ Rotate
    PROVE  LogInv'
<1>1. UNCHANGED <<host, reads, loads, logs, spinning, atBegin>>
  BY DEF Log, Rotate
<1>2. /\ logged \in Nat /\ logged \in 0..MaxLines /\ MaxLines \in Nat
      /\ files \in [Paths -> SUBSET (1..logged)]
      /\ atBegin \in [1..MaxLoads -> SUBSET (1..logged)]
      /\ "run.log" \in Paths /\ "run.log.1" \in Paths
  BY LogAssumption DEF LogInv, LogTypes, Paths
<1>3. /\ logged' \in 0..MaxLines /\ 1..logged \subseteq 1..logged'
      /\ files' \in [Paths -> SUBSET (1..logged')]
      /\ \A l \in 1..logged : /\ l \in files'["run.log"] => l \in files["run.log"]
                              /\ l \in InFiles(files') => l \in InFiles(files)
  <2>1. CASE Log
    <3>1. logged < MaxLines /\ logged' = logged + 1
          /\ \E p \in Paths : files' = [files EXCEPT ![p] = @ \cup {logged + 1}]
      BY <2>1 DEF Log
    <3>2. logged' \in 0..MaxLines /\ logged + 1 \in 1..logged' /\ 1..logged \subseteq 1..logged'
          /\ \A l \in 1..logged : l # logged + 1
      BY <1>2, <3>1
    <3>3. PICK p \in Paths : files' = [files EXCEPT ![p] = @ \cup {logged + 1}]
      BY <3>1
    <3>4. \A q \in Paths : files'[q] = IF q = p THEN files[q] \cup {logged + 1} ELSE files[q]
      BY <1>2, <3>3
    <3>5. files' \in [Paths -> SUBSET (1..logged')]
      BY <1>2, <3>2, <3>3
    <3>6. \A q \in Paths : \A l \in 1..logged : l \in files'[q] => l \in files[q]
      BY <3>2, <3>4
    <3>7. QED
      BY <1>2, <3>2, <3>5, <3>6 DEF InFiles
  <2>2. CASE Rotate
    <3>1. /\ files' = [p \in Paths |-> IF p = "run.log" THEN {} ELSE files["run.log"]]
          /\ logged' = logged
      BY <2>2 DEF Rotate
    <3>2. files'["run.log"] = {} /\ files'["run.log.1"] = files["run.log"]
      BY <1>2, <3>1
    <3>3. files' \in [Paths -> SUBSET (1..logged')]
      BY <1>2, <3>1
    <3>4. QED
      BY <1>2, <3>1, <3>2, <3>3 DEF InFiles
  <2>3. QED
    BY <2>1, <2>2
<1>4. LogTypes'
  <2>1. atBegin' \in [1..MaxLoads -> SUBSET (1..logged')]
    BY <1>1, <1>2, <1>3
  <2>2. QED
    BY <1>1, <1>3, <2>1 DEF LogInv, LogTypes
<1>5. ASSUME NEW n \in DOMAIN reads, ReadSoFar(n) PROVE ReadSoFar(n)'
  <2>1. \A l \in atBegin[n] : l \in 1..logged
    <3>1. n \in 1..loads /\ loads \in 0..MaxLoads /\ MaxLoads \in Nat
      BY LogAssumption DEF LogInv, LogTypes
    <3>2. n \in 1..MaxLoads
      BY <3>1
    <3>3. QED
      BY <1>2, <3>2
  <2>2. /\ atBegin[n] \cap files'["run.log"] \subseteq atBegin[n] \cap files["run.log"]
        /\ atBegin[n] \cap InFiles(files') \subseteq atBegin[n] \cap InFiles(files)
    BY <1>3, <2>1
  <2>3. QED
    BY <1>1, <1>5, <2>2 DEF ReadSoFar, Answered, Has, InFiles
<1>6. QED
  BY <1>1, <1>4, <1>5 DEF LogInv

\* A load begins with two reads to come.
LEMMA LoadKeeps ==
    ASSUME LogInv, Load
    PROVE  LogInv'
<1>1. PICK n : n = loads + 1
  OBVIOUS
<1>2. /\ n <= MaxLoads /\ loads' = n /\ UNCHANGED <<host, files, logged>>
      /\ atBegin' = [atBegin EXCEPT ![n] = InFiles(files)]
      /\ \/ UNCHANGED reads
         \/ reads' = [m \in DOMAIN reads \cup {n} |-> IF m = n THEN NotYet ELSE reads[m]]
      /\ logs' = files \/ logs' = logs
      /\ spinning' \in BOOLEAN
  BY <1>1 DEF Load
<1>3. /\ loads \in 0..MaxLoads /\ MaxLoads \in Nat /\ logged \in 0..MaxLines /\ MaxLines \in Nat
      /\ files \in [Paths -> SUBSET (1..logged)] /\ logs \in [Paths -> SUBSET Lines]
      /\ atBegin \in [1..MaxLoads -> SUBSET (1..logged)]
      /\ DOMAIN reads \subseteq 1..loads /\ reads \in [DOMAIN reads -> [1..2 -> Reads]]
      /\ "run.log" \in Paths /\ "run.log.1" \in Paths
  BY LogAssumption DEF LogInv, LogTypes, Paths
<1>4. /\ n \in 1..MaxLoads /\ loads' \in 0..MaxLoads /\ n \in 1..loads'
      /\ DOMAIN reads \subseteq 1..loads' /\ n \notin DOMAIN reads
  BY <1>1, <1>2, <1>3
<1>5. atBegin' \in [1..MaxLoads -> SUBSET (1..logged)]
      /\ \A m \in DOMAIN reads : atBegin'[m] = atBegin[m]
  BY <1>2, <1>3, <1>4 DEF InFiles
<1>6. 1..logged \subseteq Lines
  BY <1>3 DEF Lines
<1>7. logs' \in [Paths -> SUBSET Lines]
  BY <1>2, <1>3, <1>6
<1>8. NotYet \in [1..2 -> Reads] /\ NotYet[1].st = "issued" /\ NotYet[2].st = "issued"
  BY DEF NotYet, Reads
<1>9. /\ reads' \in [DOMAIN reads' -> [1..2 -> Reads]] /\ DOMAIN reads' \subseteq 1..loads'
      /\ \A m \in DOMAIN reads' : (m \in DOMAIN reads /\ reads'[m] = reads[m]) \/ reads'[m] = NotYet
  BY <1>2, <1>3, <1>4, <1>8
<1>10. LogTypes'
  BY <1>2, <1>4, <1>5, <1>7, <1>9 DEF LogInv, LogTypes
<1>11. ASSUME NEW m \in DOMAIN reads', m \in DOMAIN reads => ReadSoFar(m) PROVE ReadSoFar(m)'
  BY <1>2, <1>5, <1>8, <1>9, <1>11 DEF ReadSoFar, Answered, Has, InFiles
<1>12. QED
  BY <1>2, <1>10, <1>11 DEF LogInv

\* A serial host answers the first read of a load before the second.
LEMMA ReadKeeps ==
    ASSUME LogInv, NEW n \in DOMAIN reads, NEW k \in 1..2, ReadFile(n, k)
    PROVE  LogInv'
<1>1. PICK d : d = files[ReadOrder[k]]
  OBVIOUS
<1>2. PICK new : new = [st |-> "answered", data |-> d]
  OBVIOUS
<1>3. /\ reads' = [reads EXCEPT ![n] = [@ EXCEPT ![k] = new]]
      /\ Issued(n, k) /\ InTurn(Turn(n, k), Waiting)
      /\ UNCHANGED <<host, files, logged, loads, logs, spinning, atBegin>>
  BY <1>1, <1>2 DEF ReadFile
<1>4. /\ reads \in [DOMAIN reads -> [1..2 -> Reads]] /\ DOMAIN reads \subseteq 1..loads
      /\ loads \in Nat /\ logged \in Nat /\ 1..logged \subseteq Lines
      /\ files \in [Paths -> SUBSET (1..logged)]
      /\ "run.log" \in Paths /\ "run.log.1" \in Paths
  BY LogAssumption DEF LogInv, LogTypes, Paths, Lines
<1>5. d \subseteq Lines
  <2>1. ReadOrder[k] \in Paths
    BY <1>4, OrderOfReads
  <2>2. QED
    BY <1>1, <1>4, <2>1
<1>6. new \in Reads /\ new.st = "answered" /\ new.data = d
  BY <1>2, <1>5 DEF Reads
<1>7. /\ reads' \in [DOMAIN reads -> [1..2 -> Reads]]
      /\ \A m \in DOMAIN reads \ {n} : reads'[m] = reads[m]
      /\ reads'[n] = [reads[n] EXCEPT ![k] = new] /\ reads[n] \in [1..2 -> Reads]
  BY <1>3, <1>4, <1>6
<1>8. LogTypes'
  BY <1>3, <1>7 DEF LogInv, LogTypes
<1>9. ASSUME host.serial, NEW m \in DOMAIN reads, ReadSoFar(m) PROVE ReadSoFar(m)'
  <2>1. CASE m # n
    BY <1>3, <1>7, <1>9, <2>1 DEF ReadSoFar, Answered, Has, InFiles
  <2>2. CASE m = n
    <3>1. ReadSoFar(n)
      BY <1>9, <2>2
    <3>2. CASE k = 1
      <4>1. reads'[n][1] = new /\ reads'[n][2] = reads[n][2] /\ d = files["run.log"]
        BY <1>1, <1>7, <3>2, OrderOfReads
      <4>2. ~Answered(n, 1)
        BY <1>3, <3>2 DEF Issued, Answered
      <4>3. ~Answered(n, 2)
        BY <3>1, <4>2 DEF ReadSoFar
      <4>4. QED
        BY <1>3, <1>6, <2>2, <4>1, <4>3 DEF ReadSoFar, Answered, Has, InFiles
    <3>3. CASE k = 2
      <4>1. reads'[n][2] = new /\ reads'[n][1] = reads[n][1] /\ d = files["run.log.1"]
        BY <1>1, <1>7, <3>3, OrderOfReads
      <4>2. Answered(n, 1)
        <5>1. SUFFICES ASSUME Issued(n, 1) PROVE FALSE
          BY <1>4, <1>7 DEF Issued, Answered, Reads
        <5>2. Turn(n, 1) \in Waiting
          BY <5>1 DEF Waiting
        <5>3. Turn(n, 2) <= Turn(n, 1)
          BY <1>3, <1>9, <3>3, <5>2 DEF InTurn
        <5>4. n \in Nat
          BY <1>4
        <5>5. QED
          BY <5>3, <5>4 DEF Turn
      <4>3. atBegin[n] \cap files["run.log"] \subseteq Has(n, 1)
        BY <3>1, <4>2 DEF ReadSoFar
      <4>4. QED
        BY <1>3, <1>6, <2>2, <4>1, <4>2, <4>3 DEF ReadSoFar, Answered, Has, InFiles
    <3>4. QED
      BY <3>2, <3>3
  <2>3. QED
    BY <2>1, <2>2
<1>10. DOMAIN reads' = DOMAIN reads
  BY <1>7
<1>11. QED
  BY <1>3, <1>8, <1>9, <1>10 DEF LogInv

\* A load that ends leaves the others alone, and shows what its reads have.
LEMMA EndKeeps ==
    ASSUME LogInv, NEW n \in DOMAIN reads, LoadEnds(n)
    PROVE  /\ LogInv'
           /\ host.serial => atBegin[n] \cap InFiles(files) \subseteq InFiles(logs')
           /\ \A m \in DOMAIN reads : m \notin DOMAIN reads' => m = n
<1>1. /\ (\A k \in 1..2 : ~Issued(n, k)) /\ reads' = Restrict(reads, DOMAIN reads \ {n})
      /\ UNCHANGED <<host, files, logged, loads, atBegin>>
      /\ logs' = [p \in Paths |-> AnswerTo(n, p)] /\ spinning' = FALSE
  BY DEF LoadEnds, Ends
<1>2. /\ reads \in [DOMAIN reads -> [1..2 -> Reads]]
      /\ "run.log" \in Paths /\ "run.log.1" \in Paths
      /\ \A p \in Paths : p = "run.log" \/ p = "run.log.1"
  BY DEF LogInv, LogTypes, Paths
<1>3. /\ DOMAIN reads' = DOMAIN reads \ {n}
      /\ \A m \in DOMAIN reads' : reads'[m] = reads[m]
      /\ reads' \in [DOMAIN reads' -> [1..2 -> Reads]]
  BY <1>1, <1>2 DEF Restrict
<1>4. AnswerTo(n, "run.log") = Has(n, 1) /\ AnswerTo(n, "run.log.1") = Has(n, 2)
  BY OrderOfReads DEF AnswerTo, Has
<1>5. Has(n, 1) \subseteq Lines /\ Has(n, 2) \subseteq Lines
  BY <1>2 DEF Has, Reads
<1>6. logs'["run.log"] = Has(n, 1) /\ logs'["run.log.1"] = Has(n, 2)
      /\ logs' \in [Paths -> SUBSET Lines]
  BY <1>1, <1>2, <1>4, <1>5
<1>7. LogTypes'
  BY <1>1, <1>3, <1>6 DEF LogInv, LogTypes
<1>8. ASSUME NEW m \in DOMAIN reads', ReadSoFar(m) PROVE ReadSoFar(m)'
  BY <1>1, <1>3, <1>8 DEF ReadSoFar, Answered, Has, InFiles
<1>9. LogInv'
  BY <1>1, <1>3, <1>7, <1>8 DEF LogInv
<1>10. Answered(n, 2)
  BY <1>1, <1>2 DEF Issued, Answered, Reads
<1>11. host.serial => atBegin[n] \cap InFiles(files) \subseteq InFiles(logs')
  BY <1>6, <1>10 DEF LogInv, ReadSoFar, InFiles
<1>12. QED
  BY <1>3, <1>9, <1>11

LEMMA LogStep ==
    ASSUME LogInv, [LogNext]_logVars
    PROVE  /\ LogInv'
           /\ \A n \in 1..MaxLoads :
                 host.serial /\ n \in DOMAIN reads \ DOMAIN reads' =>
                    atBegin[n] \cap InFiles(files) \subseteq InFiles(logs')
<1>1. CASE Log \/ Rotate
  <2>1. reads' = reads
    BY <1>1 DEF Log, Rotate
  <2>2. QED
    BY <1>1, <2>1, LoggersKeep
<1>2. CASE Load
  <2>1. DOMAIN reads \subseteq DOMAIN reads'
    BY <1>2 DEF Load
  <2>2. QED
    BY <1>2, <2>1, LoadKeeps
<1>3. ASSUME NEW n \in DOMAIN reads, NEW k \in 1..2, ReadFile(n, k)
      PROVE  LogInv' /\ DOMAIN reads' = DOMAIN reads
  BY <1>3, ReadKeeps DEF ReadFile
<1>4. CASE \E n \in DOMAIN reads : LoadEnds(n)
  BY <1>4, EndKeeps
<1>5. CASE UNCHANGED logVars
  BY <1>5 DEF logVars, LogInv, LogTypes, ReadSoFar, Answered, Has, InFiles
<1>6. QED
  BY <1>1, <1>2, <1>3, <1>4, <1>5 DEF LogNext

\* The inductive invariant of the log page and of the loggers.
THEOREM LogInductive == LogSpec => []LogInv
<1>1. LogInit => LogInv
  BY LogBegins
<1>2. LogInv /\ [LogNext]_logVars => LogInv'
  BY LogStep
<1>3. QED
  BY <1>1, <1>2, PTL DEF LogSpec

\* No rotation between the two reads of a load hides a line that was and still is there.
THEOREM NoLineIsHidden == LogSpec => LogWhole
<1>1. LogInv /\ [LogNext]_logVars =>
         [\A n \in 1..MaxLoads :
             host.serial /\ n \in DOMAIN reads \ DOMAIN reads' =>
                atBegin[n] \cap InFiles(files) \subseteq InFiles(logs')]_logVars
  BY LogStep
<1>2. QED
  BY <1>1, LogInductive, PTL DEF LogSpec, LogWhole

===============================================================================
