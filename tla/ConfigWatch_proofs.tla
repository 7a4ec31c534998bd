-------------------------- MODULE ConfigWatch_proofs --------------------------
(***************************************************************************)
(* No change of a config file is lost by the watcher, for every number of  *)
(* files and changes and every size of the queue and of the read buffer.   *)
(***************************************************************************)
EXTENDS ConfigWatch, TLAPS

LEMMA NoFileIsNone == NoFile \notin Files
BY DEF NoFile, Files

\* Reading n events moves every file among them to `triggered` and keeps the rest.
LEMMA ReadKeepsFiles ==
    ASSUME TypeOK, ReadEvents
    PROVE  /\ triggered' \in SUBSET Files
           /\ queue' \in Seq(Files \cup {Other}) /\ Len(queue') <= QueueSize
           /\ triggered \subseteq triggered'
           /\ \A f \in Files : Queued(f) => Queued(f)' \/ f \in triggered'
<1> DEFINE n == Min2(ReadMax, Len(queue))
<1>1. n \in 1..Len(queue)
  BY WatchAssumption DEF TypeOK, ReadEvents, Min2
<1>2. /\ queue' = SubSeq(queue, n + 1, Len(queue))
      /\ triggered' = triggered \cup ({queue[i] : i \in 1..n} \cap Files)
  BY DEF ReadEvents, Scanned
<1> HIDE DEF n
<1>3. /\ Len(queue') = Len(queue) - n
      /\ \A i \in 1..Len(queue') : queue'[i] = queue[n + i]
      /\ queue' \in Seq(Files \cup {Other})
  BY <1>1, <1>2 DEF TypeOK
<1>4. ASSUME NEW f \in Files, Queued(f)
      PROVE  Queued(f)' \/ f \in triggered'
  <2>1. PICK i \in 1..Len(queue) : queue[i] = f
    BY <1>4 DEF Queued
  <2>2. CASE i <= n
    BY <2>1, <2>2, <1>1, <1>2
  <2>3. CASE i > n
    <3>1. i - n \in 1..Len(queue') /\ queue'[i - n] = queue[i]
      BY <2>1, <2>3, <1>1, <1>3
    <3>2. QED
      BY <2>1, <3>1 DEF Queued
  <2>4. QED
    BY <2>1, <2>2, <2>3, <1>1
<1>5. triggered' \in SUBSET Files /\ triggered \subseteq triggered'
  BY <1>2 DEF TypeOK
<1>6. Len(queue') <= QueueSize
  BY <1>1, <1>3, WatchAssumption DEF TypeOK
<1>7. QED
  BY <1>3, <1>4, <1>5, <1>6

\* An event is dropped, or it is in the queue afterwards; none leaves it.
LEMMA NotifyKeepsQueue ==
    ASSUME TypeOK, NEW e \in Files \cup {Other}, Notify(e)
    PROVE  /\ queue' \in Seq(Files \cup {Other}) /\ Len(queue') <= QueueSize
           /\ \A f \in Files : Queued(f) => Queued(f)'
           /\ ~Dropped(e) => Queued(e)'
<1>1. CASE Dropped(e) \/ Merged(e)
  BY <1>1, WatchAssumption DEF TypeOK, Notify, Queued, Merged, Dropped
<1>2. CASE ~Dropped(e) /\ ~Merged(e)
  <2>1. queue' = Append(queue, e) /\ Len(queue) < QueueSize
    BY <1>2, WatchAssumption DEF Notify, Dropped, Full, TypeOK
  <2>2. /\ Len(queue') = Len(queue) + 1 /\ queue'[Len(queue) + 1] = e
        /\ \A i \in 1..Len(queue) : queue'[i] = queue[i]
        /\ queue' \in Seq(Files \cup {Other})
    BY <2>1 DEF TypeOK
  <2>3. QED
    BY <2>1, <2>2, WatchAssumption DEF TypeOK, Queued
<1>3. QED
  BY <1>1, <1>2

LEMMA IndInit == Init => IndInv
<1> SUFFICES ASSUME Init PROVE IndInv
  OBVIOUS
<1>1. TypeOK
  <2>1. queue \in Seq(Files \cup {Other}) /\ Len(queue) <= QueueSize
    BY WatchAssumption DEF Init
  <2>2. 0 \in 0..MaxEdits
    BY WatchAssumption
  <2>3. QED
    BY <2>1, <2>2 DEF Init, TypeOK, NoFile
<1>2. QED
  BY <1>1, WatchAssumption DEF Init, IndInv, NoLostEdit

\* A finished change is announced, or counted as lost.
LEMMA ChangedKeeps ==
    ASSUME IndInv, NEW f \in Files, Changed(f), version[f] < MaxEdits,
           writing' \in [Files -> BOOLEAN], ~writing'[f],
           \A g \in Files \ {f} : writing'[g] = writing[g],
           UNCHANGED <<watcher, apply>>
    PROVE  IndInv'
<1> USE DEF IndInv, watcher, apply
<1>1. Notify(f) /\ version' = [version EXCEPT ![f] = @ + 1]
  BY DEF Changed
<1>2. /\ queue' \in Seq(Files \cup {Other}) /\ Len(queue') <= QueueSize
      /\ \A g \in Files : Queued(g) => Queued(g)'
      /\ ~Dropped(f) => Queued(f)'
  BY <1>1, NotifyKeepsQueue
<1>3. /\ lost' \in SUBSET Files
      /\ f \in lost' \/ Queued(f)'
      /\ \A g \in Files \ {f} : g \in lost => g \in lost'
  BY <1>2 DEF Changed, TypeOK
<1>4. TypeOK'
  <2>1. version' \in [Files -> 0..MaxEdits]
    BY <1>1, WatchAssumption DEF TypeOK
  <2>2. QED
    BY <2>1, <1>2, <1>3 DEF TypeOK
<1>5. NoLostEdit'
  <2> SUFFICES ASSUME NEW g \in Files, pc # "stopped", version'[g] > loaded[g]
               PROVE  \/ Queued(g)' \/ g \in triggered \/ writing'[g]
                      \/ child = g /\ childReads
                      \/ g \in lost'
    BY DEF NoLostEdit
  <2>1. CASE g = f
    BY <2>1, <1>3
  <2>2. CASE g # f
    BY <2>2, <1>1, <1>2, <1>3 DEF NoLostEdit, TypeOK
  <2>3. QED
    BY <2>1, <2>2
<1>6. \A g \in Files : writing'[g] => version'[g] < MaxEdits
  BY <1>1 DEF TypeOK
<1>7. QED
  BY <1>4, <1>5, <1>6

LEMMA IndStep == IndInv /\ [Next]_vars => IndInv'
<1> SUFFICES ASSUME IndInv, [Next]_vars PROVE IndInv'
  OBVIOUS
<1> USE NoFileIsNone DEF IndInv, vars, watcher, apply, files
<1>1. CASE UNCHANGED vars
  BY <1>1 DEF TypeOK, NoLostEdit, Queued
<1>2. CASE AddWatch \/ GivesUp \/ LoopTop \/ PollIdle \/ DebounceOver \/ SpawnsDone \/ Signal
  BY <1>2 DEF AddWatch, GivesUp, LoopTop, Stops, PollIdle, DebounceOver, SpawnsDone, Signal,
              TypeOK, NoLostEdit, Queued
<1>3. CASE PollRead \/ Drain
  <2>1. ReadEvents
    BY <1>3 DEF PollRead, Drain
  <2>2. /\ triggered' \in SUBSET Files /\ triggered \subseteq triggered'
        /\ queue' \in Seq(Files \cup {Other}) /\ Len(queue') <= QueueSize
        /\ \A f \in Files : Queued(f) => Queued(f)' \/ f \in triggered'
    BY <2>1, ReadKeepsFiles
  <2>3. /\ pc # "wait" /\ pc' \in {"top", "debounce"} /\ pc # "stopped"
        /\ UNCHANGED <<stop, apply, files, lost>>
    BY <1>3 DEF PollRead, Drain
  <2>4. TypeOK'
    BY <2>2, <2>3 DEF TypeOK
  <2>5. NoLostEdit'
    BY <2>2, <2>3 DEF NoLostEdit
  <2>6. QED
    BY <2>3, <2>4, <2>5
<1>4. ASSUME NEW f \in Files, Spawn(f) PROVE IndInv'
  BY <1>4 DEF Spawn, First, TypeOK, NoLostEdit, Queued
<1>5. ASSUME NEW f \in Files, ForkFails(f) PROVE IndInv'
  BY <1>5 DEF ForkFails, First, TypeOK, NoLostEdit, Queued
<1>6. CASE ChildLoads
  <2>1. child \in Files /\ pc' = pc /\ child' = child
    BY <1>6 DEF ChildLoads, TypeOK
  <2>2. TypeOK'
    BY <1>6, <2>1, WatchAssumption DEF ChildLoads, TypeOK
  <2>3. NoLostEdit'
    BY <1>6, <2>1, <2>2, WatchAssumption DEF ChildLoads, TypeOK, NoLostEdit, Queued
  <2>4. QED
    BY <1>6, <2>1, <2>2, <2>3 DEF ChildLoads
<1>7. CASE ChildExits
  BY <1>7 DEF ChildExits, TypeOK, NoLostEdit, Queued
<1>8. ASSUME NEW f \in Files, BeginWrite(f) PROVE IndInv'
  BY <1>8 DEF BeginWrite, TypeOK, NoLostEdit, Queued
<1>9. ASSUME NEW f \in Files, CloseWrite(f) PROVE IndInv'
  BY <1>9, ChangedKeeps, WatchAssumption DEF CloseWrite, TypeOK
<1>10. ASSUME NEW f \in Files, MoveIn(f) PROVE IndInv'
  BY <1>10, ChangedKeeps, WatchAssumption DEF MoveIn, TypeOK
<1>11. CASE Touch
  <2>1. /\ queue' \in Seq(Files \cup {Other}) /\ Len(queue') <= QueueSize
        /\ \A f \in Files : Queued(f) => Queued(f)'
    BY <1>11, NotifyKeepsQueue DEF Touch
  <2>2. QED
    BY <1>11, <2>1, WatchAssumption DEF Touch, TypeOK, NoLostEdit
<1>12. QED
  BY <1>1, <1>2, <1>3, <1>4, <1>5, <1>6, <1>7, <1>8, <1>9, <1>10, <1>11
     DEF Next, Loop, Child, World, Finished

\* Type correctness and the inductive invariant itself.
THEOREM Inductive == Spec => []IndInv
BY IndInit, IndStep, PTL DEF Spec

\* Every variable keeps to its range.
THEOREM TypeCorrect == Spec => []TypeOK
<1>1. IndInv => TypeOK
  BY DEF IndInv
<1>2. QED
  BY <1>1, Inductive, PTL

\* No finished change of a config file goes unnoticed by the watcher of
\* main_watch.cpp but for the exceptions NoLostEdit names.
THEOREM NoEditLost == Spec => []NoLostEdit
<1>1. IndInv => NoLostEdit
  BY DEF IndInv
<1>2. QED
  BY <1>1, Inductive, PTL
===============================================================================
