--------------------------- MODULE ExecBatch_proofs ---------------------------
(***************************************************************************)
(* Theorems about exec_batch, for every number of commands, every limit    *)
(* and every behaviour of the children.  BatchAssumption is what they      *)
(* assume of the arguments; IndInv is the inductive invariant.             *)
(***************************************************************************)
EXTENDS ExecBatch, FiniteSetTheorems, TLAPS

\* The set of children in flight is finite, whatever the batch.
LEMMA CommandsFinite ==
    ASSUME NEW S \in SUBSET Commands
    PROVE  IsFiniteSet(S) /\ Cardinality(S) \in Nat
<1>1. IsFiniteSet(Commands)
    BY BatchAssumption, FS_Interval DEF Commands
<1>2. IsFiniteSet(S)
    BY <1>1, FS_Subset
<1> QED BY <1>2, FS_CardinalityType

\* Concurrency is a positive number of slots: a batch never starves itself.
LEMMA ConcurrencyPositive == Concurrency \in Nat \ {0}
BY BatchAssumption DEF Concurrency

-----------------------------------------------------------------------------
\* Every step keeps the types: next_to_start never passes the end of
\* `commands` by more than one and the reap loop only looks at children in
\* flight.
LEMMA TypeStep ==
    ASSUME TypeOK, pc \notin {"reap", "drain"} => toReap = {}, [Next]_vars
    PROVE  TypeOK'
<1> USE BatchAssumption DEF TypeOK, Commands, ExitCodes, Failed, program, kernel
<1>1. CASE StartBudget BY <1>1 DEF StartBudget
<1>2. CASE StartSkip BY <1>2 DEF StartSkip, HasRoom
<1>3. CASE StartFails BY <1>3 DEF StartFails, HasRoom
<1>4. CASE StartChild BY <1>4 DEF StartChild, HasRoom, FailuresAfterSuccess
<1>5. CASE StartDone BY <1>5 DEF StartDone
<1>6. CASE LoopDone \/ LoopBudget \/ LoopTurn
    BY <1>6 DEF LoopDone, LoopBudget, LoopTurn
<1>20. CASE PollFails BY <1>20 DEF PollFails
<1>7. CASE PollAndRead
  <2> PICK ready \in {{}, {c \in inFlight : pipe[c] > 0}} :
          /\ stdout' = [c \in Commands |-> IF c \in ready THEN stdout[c] + 1 ELSE stdout[c]]
          /\ pipe' = [c \in Commands |-> IF c \in ready THEN pipe[c] - 1 ELSE pipe[c]]
      BY <1>7 DEF PollAndRead
  <2>1. \A c \in ready : c \in Commands /\ pipe[c] > 0
      OBVIOUS
  <2>2. pipe' \in [Commands -> Nat] /\ stdout' \in [Commands -> Nat]
      BY <2>1
  <2> QED BY <1>7, <2>2 DEF PollAndRead
<1>8. ASSUME NEW c \in Commands, ReapExited(c) PROVE TypeOK'
    BY <1>8 DEF ReapExited
<1>9. ASSUME NEW c \in Commands, KillOverdue(c) PROVE TypeOK'
    BY <1>9 DEF KillOverdue
<1>10. ASSUME NEW c \in Commands, KeepRunning(c) PROVE TypeOK'
    BY <1>10 DEF KeepRunning
<1>11. ASSUME NEW c \in Commands, DrainRead(c) PROVE TypeOK'
    BY <1>11 DEF DrainRead
<1>12. ASSUME NEW c \in Commands, DrainEof(c) PROVE TypeOK'
    BY <1>12 DEF DrainEof, DrainedCode
<1>13. CASE ReapDone BY <1>13 DEF ReapDone
<1>14. CASE GiveUp BY <1>14 DEF GiveUp
<1>15. ASSUME NEW c \in Commands, Exit(c) PROVE TypeOK'
  <2> PICK s \in ExitCodes, h \in BOOLEAN :
          status' = [status EXCEPT ![c] = s] /\ heir' = [heir EXCEPT ![c] = h]
      BY <1>15 DEF Exit
  <2> QED BY <1>15 DEF Exit
<1>16. ASSUME NEW c \in Commands, Write(c) PROVE TypeOK'
  <2>1. pipe' = [pipe EXCEPT ![c] = @ + 1]
      BY <1>16 DEF Write
  <2>2. pipe' \in [Commands -> Nat]
      BY <2>1
  <2> QED BY <1>16, <2>2 DEF Write
<1>17. ASSUME NEW c \in Commands, HeirCloses(c) PROVE TypeOK'
    BY <1>17 DEF HeirCloses
<1>18. CASE Tick BY <1>18 DEF Tick
<1>19. CASE UNCHANGED vars BY <1>19 DEF vars
<1> QED
    BY <1>1, <1>2, <1>3, <1>4, <1>5, <1>6, <1>7, <1>8, <1>9, <1>10, <1>11,
       <1>12, <1>13, <1>14, <1>15, <1>16, <1>17, <1>18, <1>19, <1>20
    DEF Next, Program, Environment, Finished, TryStartNext, MainLoop, Reap

-----------------------------------------------------------------------------
\* Adding the next command keeps in_flight within the slots when there was room,
\* and removing one always does.
LEMMA RoomForOne ==
    ASSUME TypeOK, HasRoom, NEW c \in Commands
    PROVE  Cardinality(inFlight \cup {c}) <= Concurrency
<1>1. IsFiniteSet(inFlight) /\ Cardinality(inFlight) \in Nat
    BY CommandsFinite DEF TypeOK
<1>2. Cardinality(inFlight \cup {c}) =
          IF c \in inFlight THEN Cardinality(inFlight) ELSE Cardinality(inFlight) + 1
    BY <1>1, FS_AddElement, Zenon
<1> QED BY <1>1, <1>2, ConcurrencyPositive DEF HasRoom

LEMMA SmallerFits ==
    ASSUME NEW S \in SUBSET Commands, NEW T \in SUBSET S,
           Cardinality(S) <= Concurrency
    PROVE  Cardinality(T) <= Concurrency
<1>1. IsFiniteSet(S) /\ Cardinality(S) \in Nat /\ Cardinality(T) \in Nat
    BY CommandsFinite
<1>2. Cardinality(T) <= Cardinality(S)
    BY <1>1, FS_Subset
<1> QED BY <1>1, <1>2, ConcurrencyPositive

\* Children that a poll error left behind can only exit: none is born any more.
LEMMA AbandonedShrink ==
    ASSUME IndInv, [Next]_vars, pc' = "aborted"
    PROVE  Alive' \subseteq Alive
<1>1. ASSUME UNCHANGED proc PROVE Alive' \subseteq Alive
    BY <1>1 DEF Alive
<1>2. ASSUME NEW c \in Commands, Exit(c) PROVE Alive' \subseteq Alive
    BY <1>2 DEF Exit, Alive, IndInv, TypeOK
<1>3. ASSUME NEW c \in Commands, Write(c) \/ HeirCloses(c) PROVE UNCHANGED proc
    BY <1>3 DEF Write, HeirCloses
<1>4. ASSUME NEW c \in Commands,
             \/ ReapExited(c) \/ KillOverdue(c) \/ KeepRunning(c) \/ DrainRead(c)
             \/ DrainEof(c)
      PROVE  FALSE
    BY <1>4 DEF ReapExited, KillOverdue, KeepRunning, DrainRead, DrainEof
<1>5. ~(TryStartNext \/ LoopDone \/ LoopBudget \/ LoopTurn \/ PollAndRead \/ ReapDone \/ GiveUp)
    BY DEF TryStartNext, StartBudget, StartSkip, StartFails, StartChild, StartDone,
           LoopDone, LoopBudget, LoopTurn, PollAndRead, ReapDone, GiveUp
<1>6. CASE PollFails \/ Tick \/ UNCHANGED vars
    BY <1>1, <1>6 DEF PollFails, Tick, vars, kernel
<1> QED
    BY <1>1, <1>2, <1>3, <1>4, <1>5, <1>6
    DEF Next, Program, Environment, Finished, MainLoop, Reap

-----------------------------------------------------------------------------
\* The strengthening holds initially: nothing runs, nothing has a result.
LEMMA IndInit == Init => IndInv
<1> SUFFICES ASSUME Init PROVE IndInv
    OBVIOUS
<1> USE BatchAssumption DEF Init
<1>1. TypeOK
  <2>1. next \in 1..(N + 1) /\ now \in 0..MaxTime
      OBVIOUS
  <2>2. /\ deadline \in [Commands -> Nat] /\ stdout \in [Commands -> Nat]
        /\ pipe \in [Commands -> Nat]
        /\ proc \in [Commands -> {"unborn", "running", "zombie", "reaped"}]
        /\ exitCode \in [Commands -> ExitCodes \cup {Failed}]
        /\ status \in [Commands -> ExitCodes \cup {Failed}]
        /\ heir \in [Commands -> BOOLEAN]
      OBVIOUS
  <2> QED BY <2>1, <2>2 DEF TypeOK
<1>2. Cardinality(inFlight) <= Concurrency /\ Cardinality(Alive) <= Concurrency
  <2>1. Alive = {}
      BY DEF Alive
  <2> QED BY <2>1, FS_EmptySet, ConcurrencyPositive
<1> QED
    BY <1>1, <1>2
    DEF IndInv, NoChildLost, OkMeansExitedZero, DeadlineEnforced, CompleteAtReturn, Alive, Failed

\* Every step of try_start_next, of the loops, of the children and of time
\* keeps it.
LEMMA IndStep == IndInv /\ [Next]_vars => IndInv'
<1> SUFFICES ASSUME IndInv, [Next]_vars PROVE IndInv'
    OBVIOUS
<1> USE BatchAssumption
<1>t. TypeOK /\ TypeOK'
    BY TypeStep DEF IndInv
<1>c. inFlight' \subseteq inFlight => Cardinality(inFlight') <= Concurrency
    BY <1>t, SmallerFits DEF TypeOK, IndInv
<1>n. next \in Nat /\ \A c \in Commands : c \in Int
    BY <1>t DEF TypeOK, Commands
<1> DEFINE Rest == /\ \A c \in Commands : c >= next => proc[c] = "unborn" /\ c \notin inFlight
                   /\ \A c \in Commands : c >= next \/ c \in inFlight => exitCode[c] = Failed
                   /\ pc = "loop" => ~HasRoom
                   /\ pc \in {"done", "aborted"} => inFlight = {}
                   /\ budgetExceeded => pc \in {"giveUp", "done"}
                   /\ pc = "giveUp" => budgetExceeded
                   /\ CompleteAtReturn
                   /\ pc \notin {"reap", "drain"} => toReap = {}
                   /\ \A c \in toReap : pc = "drain" /\ Current(c) => proc[c] = "reaped"
                   /\ passNow <= now
                   /\ NoChildLost
                   /\ OkMeansExitedZero
                   /\ DeadlineEnforced
<1> USE DEF NoChildLost, OkMeansExitedZero, DeadlineEnforced, CompleteAtReturn,
        Alive, Current, HasRoom
<1>r. Rest
    BY DEF IndInv
<1>f. SUFFICES Cardinality(inFlight') <= Concurrency /\ Rest'
  <2>1. Alive \in SUBSET Commands /\ inFlight' \in SUBSET Commands
      BY <1>t DEF TypeOK
  <2>2. Alive' \subseteq Alive \/ Alive' \subseteq inFlight'
      BY AbandonedShrink
  <2>3. Cardinality(Alive') <= Concurrency
      BY <2>1, <2>2, SmallerFits DEF IndInv
  <2> QED BY <1>t, <2>3 DEF IndInv
<1> USE <1>t, <1>c, <1>n, <1>r DEF program, kernel
<1>1. CASE StartBudget BY <1>1 DEF StartBudget, TypeOK
<1>2. CASE StartSkip BY <1>2 DEF StartSkip, HasRoom, TypeOK, Failed
<1>3. CASE StartFails BY <1>3 DEF StartFails, HasRoom, TypeOK, Failed
<1>4. CASE StartChild
  <2>1. next \in Commands
      BY <1>4 DEF StartChild, HasRoom, TypeOK, Commands
  <2>2. Cardinality(inFlight') <= Concurrency
      BY <1>4, <2>1, RoomForOne DEF StartChild
  <2>3. Rest'
      BY <1>4, <2>1 DEF StartChild, TypeOK
  <2> QED BY <2>2, <2>3
<1>5. CASE StartDone BY <1>5 DEF StartDone
<1>6. CASE LoopBudget \/ LoopTurn
    BY <1>6 DEF LoopBudget, LoopTurn
<1>21. CASE PollFails BY <1>21 DEF PollFails, TypeOK
<1>20. CASE LoopDone
  <2>1. Cardinality(inFlight) < Concurrency
      BY <1>20, FS_EmptySet, ConcurrencyPositive DEF LoopDone
  <2>2. next = N + 1
      BY <1>20, <2>1 DEF LoopDone, TypeOK
  <2> QED BY <1>20, <2>2 DEF LoopDone
<1>7. CASE PollAndRead BY <1>7 DEF PollAndRead, TypeOK
<1>8. ASSUME NEW c \in Commands, ReapExited(c) PROVE Cardinality(inFlight') <= Concurrency /\ Rest'
    BY <1>8 DEF ReapExited, TypeOK
<1>9. ASSUME NEW c \in Commands, KillOverdue(c) PROVE Cardinality(inFlight') <= Concurrency /\ Rest'
    BY <1>9 DEF KillOverdue, TypeOK, Failed
<1>10. ASSUME NEW c \in Commands, KeepRunning(c) PROVE Cardinality(inFlight') <= Concurrency /\ Rest'
    BY <1>10 DEF KeepRunning, TypeOK, Overdue
<1>11. ASSUME NEW c \in Commands, DrainRead(c) PROVE Cardinality(inFlight') <= Concurrency /\ Rest'
    BY <1>11 DEF DrainRead, TypeOK
<1>12. ASSUME NEW c \in Commands, DrainEof(c) PROVE Cardinality(inFlight') <= Concurrency /\ Rest'
    BY <1>12 DEF DrainEof, DrainedCode, TypeOK
<1>13. CASE ReapDone BY <1>13 DEF ReapDone
<1>14. CASE GiveUp BY <1>14 DEF GiveUp, Killed, TypeOK, Failed
<1>15. ASSUME NEW c \in Commands, Exit(c) PROVE Cardinality(inFlight') <= Concurrency /\ Rest'
    BY <1>15 DEF Exit, TypeOK
<1>16. ASSUME NEW c \in Commands, Write(c) PROVE Cardinality(inFlight') <= Concurrency /\ Rest'
    BY <1>16 DEF Write
<1>17. ASSUME NEW c \in Commands, HeirCloses(c) PROVE Cardinality(inFlight') <= Concurrency /\ Rest'
    BY <1>17 DEF HeirCloses
<1>18. CASE Tick BY <1>18 DEF Tick, TypeOK
<1>19. CASE UNCHANGED vars BY <1>19 DEF vars
<1> HIDE DEF Rest
<1> QED
    BY <1>1, <1>2, <1>3, <1>4, <1>5, <1>6, <1>7, <1>8, <1>9, <1>10, <1>11,
       <1>12, <1>13, <1>14, <1>15, <1>16, <1>17, <1>18, <1>19, <1>20, <1>21
    DEF Next, Program, Environment, Finished, TryStartNext, MainLoop, Reap

\* The strengthening holds in every reachable state, types included.
THEOREM Inductive == Spec => []IndInv
BY IndInit, IndStep, PTL DEF Spec

\* Every variable keeps to its range.
THEOREM TypeCorrect == Spec => []TypeOK
<1>1. IndInv => TypeOK
  BY DEF IndInv
<1>2. QED
  BY <1>1, Inductive, PTL

\* "Up to max_concurrent children alive at once": the children the kernel still
\* has for this process never outnumber the slots, those a poll error has left to
\* themselves included.
THEOREM ConcurrencyBounded == Spec => []ConcurrencyBound
<1>1. IndInv => ConcurrencyBound
    BY DEF IndInv, ConcurrencyBound
<1> QED BY <1>1, Inductive, PTL

\* Nothing but a poll error makes exec_batch lose a child: until one occurs every
\* child forked is tracked or waited for, and a normal return, whether all is done
\* or the budget is spent, leaves neither a zombie nor an orphan.
THEOREM ChildrenTracked == Spec => []NoChildLost
<1>1. IndInv => NoChildLost
    BY DEF IndInv
<1> QED BY <1>1, Inductive, PTL

\* A result is a success only for a child that was reaped with status 0.
THEOREM SuccessIsReal == Spec => []OkMeansExitedZero
<1>1. IndInv => OkMeansExitedZero
    BY DEF IndInv
<1> QED BY <1>1, Inductive, PTL

\* A pass of the reap loop leaves no child that was due when it began.
THEOREM DeadlinesKept == Spec => []DeadlineEnforced
<1>1. IndInv => DeadlineEnforced
    BY DEF IndInv
<1> QED BY <1>1, Inductive, PTL

\* A batch that returns without having spent its budget took every command.
THEOREM CompleteReturn == Spec => []CompleteAtReturn
<1>1. IndInv => CompleteAtReturn
    BY DEF IndInv
<1> QED BY <1>1, Inductive, PTL

\* No fork follows the opening of the circuit or the end of the budget.
THEOREM NoLateSpawn == Spec => NoSpawnAfterStop
<1> DEFINE Spawns(c) == proc[c] = "unborn" /\ proc'[c] # "unborn"
<1>1. ASSUME IndInv, [Next]_vars, NEW c \in Commands, Spawns(c)
      PROVE  StartChild
  <2>1. c \notin inFlight /\ c \notin toReap
      BY <1>1 DEF IndInv, TypeOK, NoChildLost, Alive, Current
  <2>2. proc' # proc
      BY <1>1
  <2>3. ~ UNCHANGED proc
      BY <2>2
  <2>4. ASSUME NEW d \in Commands, ReapExited(d) \/ KillOverdue(d) \/ Exit(d)
        PROVE  FALSE
      BY <1>1, <2>4 DEF ReapExited, KillOverdue, Exit, IndInv, TypeOK
  <2>5. ~GiveUp
      BY <1>1, <2>1 DEF GiveUp, Killed
  <2>6. ASSUME NEW d \in Commands,
               KeepRunning(d) \/ DrainRead(d) \/ DrainEof(d) \/ Write(d) \/ HeirCloses(d)
        PROVE  FALSE
      BY <2>3, <2>6 DEF KeepRunning, DrainRead, DrainEof, Write, HeirCloses, kernel
  <2>7. ~(\/ StartBudget \/ StartSkip \/ StartFails \/ StartDone
          \/ MainLoop \/ ReapDone \/ Tick \/ UNCHANGED vars)
      BY <2>3 DEF StartBudget, StartSkip, StartFails, StartDone, MainLoop, LoopDone,
                  LoopBudget, LoopTurn, PollFails, PollAndRead, ReapDone, Tick,
                  kernel, vars
  <2> HIDE DEF Spawns
  <2> QED BY <1>1, <2>4, <2>5, <2>6, <2>7
          DEF Next, Program, Environment, Finished, TryStartNext, Reap
<1>2. IndInv /\ [Next]_vars =>
          [\A c \in Commands : Spawns(c) => ~circuitOpen /\ ~budgetExceeded]_vars
  <2> SUFFICES ASSUME IndInv, [Next]_vars, NEW c \in Commands, Spawns(c)
               PROVE  ~circuitOpen /\ ~budgetExceeded
      OBVIOUS
  <2>1. StartChild
      BY <1>1
  <2> QED BY <2>1 DEF StartChild, MaySpawn, IndInv, TypeOK
<1> QED BY <1>2, Inductive, PTL DEF Spec, NoSpawnAfterStop

\* A child that reports its own status had its pipe emptied first: only what is
\* still tracked can have unread output that counts.
THEOREM OutputIsWhole == Spec => []OutputComplete
<1>1. Init => OutputComplete
    BY DEF Init, OutputComplete
<1>2. IndInv /\ OutputComplete /\ [Next]_vars => OutputComplete'
  <2> SUFFICES ASSUME IndInv, OutputComplete, [Next]_vars PROVE OutputComplete'
      OBVIOUS
  <2> USE DEF OutputComplete, program, kernel
  <2>t. TypeOK /\ (next <= N => next \in Commands)
      BY BatchAssumption DEF IndInv, TypeOK, Commands
  <2>1. ASSUME UNCHANGED <<inFlight, exitCode, pipe>> PROVE OutputComplete'
      BY <2>1
  <2>2. CASE StartSkip \/ StartFails
      BY <2>2, <2>t DEF StartSkip, StartFails, HasRoom, TypeOK
  <2>3. CASE StartChild
      BY <2>3 DEF StartChild
  <2>4. CASE PollAndRead
      BY <2>4, <2>t DEF PollAndRead, TypeOK
  <2>5. ASSUME NEW c \in Commands, KillOverdue(c) PROVE OutputComplete'
      BY <2>5, <2>t DEF KillOverdue, TypeOK
  <2>6. ASSUME NEW c \in Commands, DrainRead(c) PROVE OutputComplete'
      BY <2>6, <2>t DEF DrainRead, Current, TypeOK
  <2>7. ASSUME NEW c \in Commands, DrainEof(c) PROVE OutputComplete'
      BY <2>7, <2>t DEF DrainEof, AtEof, TypeOK
  <2>8. CASE GiveUp \/ PollFails
      BY <2>8, <2>t DEF GiveUp, PollFails, TypeOK, IndInv
  <2>9. ASSUME NEW c \in Commands, Write(c) PROVE OutputComplete'
      BY <2>9, <2>t DEF Write, TypeOK
  <2>10. ASSUME NEW c \in Commands,
                ReapExited(c) \/ KeepRunning(c) \/ Exit(c) \/ HeirCloses(c)
         PROVE  OutputComplete'
      BY <2>1, <2>10 DEF ReapExited, KeepRunning, Exit, HeirCloses
  <2>11. CASE \/ StartBudget \/ StartDone \/ LoopDone \/ LoopBudget \/ LoopTurn
              \/ ReapDone \/ Tick \/ UNCHANGED vars
      BY <2>1, <2>11 DEF StartBudget, StartDone, LoopDone, LoopBudget, LoopTurn,
                         ReapDone, Tick, vars
  <2> HIDE DEF OutputComplete
  <2> QED
      BY <2>2, <2>3, <2>4, <2>5, <2>6, <2>7, <2>8, <2>9, <2>10, <2>11
      DEF Next, Program, Environment, Finished, TryStartNext, MainLoop, Reap
<1> QED BY <1>1, <1>2, Inductive, PTL DEF Spec

\* The failures counted are the last commands taken, none of which was forked,
\* and an open circuit has counted as many as the limit.
FailureRun ==
    /\ consecutive < next
    /\ \A c \in Commands : c >= next - consecutive => proc[c] = "unborn"
    /\ circuitOpen => consecutive >= FailLimit

\* The circuit opens on an unbroken run of failed forks, and nothing is forked
\* from the first of them on.
THEOREM CircuitOpensRightly == Spec => []CircuitJustified
<1> USE DEF FailureRun
<1>1. Init => FailureRun
    BY DEF Init
<1>2. IndInv /\ FailureRun /\ [Next]_vars => FailureRun'
  <2> SUFFICES ASSUME IndInv, FailureRun, [Next]_vars PROVE FailureRun'
      OBVIOUS
  <2> USE DEF program, kernel
  <2>t. /\ TypeOK /\ next \in Nat /\ consecutive \in Nat
        /\ \A c \in Commands : c \in Nat
        /\ next <= N => next \in Commands
        /\ FailLimit \in Nat \ {0}
      BY BatchAssumption DEF IndInv, TypeOK, Commands, FailLimit
  <2>u. \A c \in Commands : c >= next => proc[c] = "unborn" /\ c \notin inFlight
      BY DEF IndInv
  <2>1. ASSUME UNCHANGED <<next, consecutive, circuitOpen>>,
               \A c \in Commands : proc[c] = "unborn" => proc'[c] = "unborn"
        PROVE  FailureRun'
      BY <2>1, <2>t
  <2>2. CASE StartSkip
      BY <2>2, <2>t DEF StartSkip
  <2>3. CASE StartFails
    <3>1. /\ next' = next + 1 /\ consecutive' = consecutive + 1
          /\ proc' = proc
          /\ circuitOpen' <=> consecutive' >= FailLimit
        BY <2>3 DEF StartFails
    <3>2. next' - consecutive' = next - consecutive
        BY <3>1, <2>t
    <3> QED BY <3>1, <3>2, <2>t
  <2>4. CASE StartChild
    <3>1. /\ next' = next + 1 /\ consecutive' = 0
          /\ ~circuitOpen /\ circuitOpen' = circuitOpen
          /\ proc' = [proc EXCEPT ![next] = "running"]
        BY <2>4 DEF StartChild, FailuresAfterSuccess, MaySpawn
    <3>2. ASSUME NEW c \in Commands, c >= next + 1 PROVE proc'[c] = "unborn"
        BY <3>1, <3>2, <2>t, <2>u DEF TypeOK
    <3> QED BY <3>1, <3>2, <2>t
  <2>5. ASSUME NEW c \in Commands, ReapExited(c) \/ KillOverdue(c) \/ Exit(c)
        PROVE  FailureRun'
      BY <2>1, <2>5, <2>t DEF ReapExited, KillOverdue, Exit, TypeOK
  <2>6. CASE GiveUp
    <3>1. ASSUME NEW c \in inFlight PROVE proc[c] # "unborn"
        BY <3>1, <2>6 DEF GiveUp, IndInv, NoChildLost, Alive
    <3> QED BY <2>1, <2>6, <2>t, <3>1 DEF GiveUp, Killed
  <2>7. ASSUME NEW c \in Commands,
               KeepRunning(c) \/ DrainRead(c) \/ DrainEof(c) \/ Write(c) \/ HeirCloses(c)
        PROVE  FailureRun'
      BY <2>1, <2>7 DEF KeepRunning, DrainRead, DrainEof, Write, HeirCloses
  <2>8. CASE \/ StartBudget \/ StartDone \/ MainLoop \/ ReapDone \/ Tick \/ UNCHANGED vars
      BY <2>1, <2>8 DEF StartBudget, StartDone, MainLoop, LoopDone, LoopBudget,
                        LoopTurn, PollFails, PollAndRead, ReapDone, Tick, vars
  <2> HIDE DEF FailureRun
  <2> QED
      BY <2>2, <2>3, <2>4, <2>5, <2>6, <2>7, <2>8
      DEF Next, Program, Environment, Finished, TryStartNext, Reap
<1>3. IndInv /\ FailureRun => CircuitJustified
  <2> SUFFICES ASSUME IndInv, FailureRun, circuitOpen PROVE CircuitJustified
      BY DEF CircuitJustified
  <2> DEFINE first == next - consecutive
  <2>1. /\ N \in Nat /\ next \in 1..(N + 1) /\ consecutive \in Nat
        /\ FailLimit \in Nat \ {0}
      BY BatchAssumption DEF IndInv, TypeOK, FailLimit
  <2>2. first \in Commands /\ first + FailLimit <= next
      BY <2>1 DEF Commands
  <2>3. \A c \in first..N : proc[c] = "unborn"
      BY <2>1, <2>2 DEF Commands
  <2> QED BY <2>2, <2>3 DEF CircuitJustified
<1> HIDE DEF FailureRun
<1> QED BY <1>1, <1>2, <1>3, Inductive, PTL DEF Spec

-----------------------------------------------------------------------------
(* exec_batch implements BatchContract.                                    *)

\* Outside the steps named below, an outcome changes only if the result, the
\* set in flight, the cursor or the return of the call does.
LEMMA OutcomeStutter ==
    ASSUME UNCHANGED <<exitCode, inFlight, next>>, Returned' = Returned
    PROVE  UNCHANGED <<outcome, Returned>>
BY DEF outcome

\* An outcome that changes alone is an update of the function.
LEMMA OutcomeUpdate ==
    ASSUME NEW c \in Commands, NEW v,
           outcome'[c] = v,
           \A d \in Commands \ {c} : outcome'[d] = outcome[d]
    PROVE  outcome' = [outcome EXCEPT ![c] = v]
<1> DEFINE f == outcome  g == outcome'
<1>1. /\ f = [d \in Commands |-> f[d]]
      /\ g = [d \in Commands |-> g[d]]
    BY DEF outcome
<1> HIDE DEF f, g
<1>2. g = [d \in Commands |-> IF d = c THEN v ELSE f[d]]
    BY <1>1 DEF f, g
<1>3. [f EXCEPT ![c] = v] = [d \in Commands |-> IF d = c THEN v ELSE f[d]]
    BY <1>1
<1> QED BY <1>2, <1>3 DEF f, g

\* The outcomes of what has not started and of what is in flight.
LEMMA OutcomeValues ==
    ASSUME IndInv, ~Returned
    PROVE  \A c \in Commands :
              /\ outcome[c] = "waiting" <=> c >= next
              /\ outcome[c] = "running" <=> c \in inFlight
BY DEF IndInv, TypeOK, outcome, Commands, Failed

\* Only children in flight have the outcome "running".
LEMMA RunningInFlight ==
    ASSUME IndInv, ~Returned
    PROVE  Contract!Running = inFlight
BY OutcomeValues DEF Contract!Running, IndInv, TypeOK

\* The next command, and no other, is next in the contract's order.
LEMMA NextInOrder ==
    ASSUME IndInv, ~Returned, next <= N
    PROVE  next \in Commands /\ Contract!IsNext(next)
<1>1. next \in Commands
    BY BatchAssumption DEF IndInv, TypeOK, Commands
<1>2. \A d \in Commands : d < next => outcome[d] # "waiting"
    BY OutcomeValues, <1>1 DEF Commands
<1> QED BY <1>1, <1>2, OutcomeValues DEF Contract!IsNext, Commands

LEMMA RefineInit == Init => Contract!Init
BY BatchAssumption DEF Init, Contract!Init, outcome, Returned, Commands, Failed

\* Each step of the program is a step of the contract or leaves it unchanged.
LEMMA RefineStep ==
    ASSUME IndInv, IndInv', [Next]_vars
    PROVE  [Contract!Next]_<<outcome, Returned>>
<1> DEFINE Goal == [Contract!Next]_<<outcome, Returned>>
<1> USE BatchAssumption DEF program, kernel
<1>t. TypeOK /\ TypeOK'
    BY DEF IndInv
<1>1. CASE StartBudget BY <1>1, OutcomeStutter DEF StartBudget, Returned
<1>2. CASE StartSkip \/ StartFails
  <2>1. ~Returned /\ ~Returned' /\ next <= N
      BY <1>2 DEF StartSkip, StartFails, Returned, HasRoom
  <2>2. next \in Commands /\ Contract!IsNext(next)
      BY <2>1, NextInOrder
  <2>3. /\ exitCode' = [exitCode EXCEPT ![next] = Failed]
        /\ next' = next + 1 /\ inFlight' = inFlight
      BY <1>2 DEF StartSkip, StartFails
  <2>4. outcome' = [outcome EXCEPT ![next] = "failed"]
    <3>1. outcome'[next] = "failed"
        BY <2>1, <2>2, <2>3, <1>t DEF outcome, TypeOK, IndInv, Commands, Failed
    <3>n. next \in Int /\ \A d \in Commands : d \in Int
        BY <1>t DEF TypeOK, Commands
    <3> HIDE BatchAssumption
    <3>2. \A d \in Commands \ {next} :
              /\ d \in inFlight' <=> d \in inFlight
              /\ d >= next' <=> d >= next
              /\ exitCode'[d] = exitCode[d]
        BY <2>3, <3>n
    <3>3. \A d \in Commands \ {next} : outcome'[d] = outcome[d]
        BY <2>1, <3>2 DEF outcome
    <3> QED BY <2>2, <3>1, <3>3, OutcomeUpdate
  <2>5. Contract!Refuse(next)
      BY <2>1, <2>2, <2>4 DEF Contract!Refuse, Returned
  <2> QED BY <2>2, <2>5 DEF Contract!Next
<1>3. CASE StartChild
  <2>1. ~Returned /\ ~Returned' /\ next <= N
      BY <1>3 DEF StartChild, Returned, HasRoom
  <2>2. next \in Commands /\ Contract!IsNext(next)
      BY <2>1, NextInOrder
  <2>3. /\ exitCode' = exitCode /\ next' = next + 1
        /\ inFlight' = inFlight \cup {next}
      BY <1>3 DEF StartChild
  <2>4. outcome' = [outcome EXCEPT ![next] = "running"]
    <3>1. outcome'[next] = "running"
        BY <2>1, <2>2, <2>3, <1>t DEF outcome, TypeOK, IndInv, Commands, Failed
    <3>n. next \in Int /\ \A d \in Commands : d \in Int
        BY <1>t DEF TypeOK, Commands
    <3> HIDE BatchAssumption
    <3>2. \A d \in Commands \ {next} :
              /\ d \in inFlight' <=> d \in inFlight
              /\ d >= next' <=> d >= next
              /\ exitCode'[d] = exitCode[d]
        BY <2>3, <3>n
    <3>3. \A d \in Commands \ {next} : outcome'[d] = outcome[d]
        BY <2>1, <3>2 DEF outcome
    <3> QED BY <2>2, <3>1, <3>3, OutcomeUpdate
  <2>5. Contract!Cardinality(Contract!Running) < Concurrency
      BY <1>3, <2>1, RunningInFlight DEF StartChild, HasRoom, Contract!Cardinality, Cardinality
  <2>6. UNCHANGED Returned
      BY <2>1 DEF Returned
  <2>7. Contract!Launch(next)
      BY <2>1, <2>2, <2>4, <2>5, <2>6, Zenon DEF Contract!Launch
  <2> QED BY <2>2, <2>7 DEF Contract!Next
<1>4. CASE StartDone \/ LoopBudget \/ LoopTurn \/ PollAndRead \/ ReapDone \/ Tick
    BY <1>4, OutcomeStutter
    DEF StartDone, LoopBudget, LoopTurn, PollAndRead, ReapDone, Tick, Returned
<1>5. CASE LoopDone \/ PollFails
  <2>1. ~Returned /\ Returned' /\ UNCHANGED exitCode
      BY <1>5 DEF LoopDone, PollFails, Returned
  <2>2. outcome' = [c \in Commands |-> IF outcome[c] = "ok" THEN "ok" ELSE "failed"]
      BY <2>1 DEF outcome
  <2> QED BY <2>1, <2>2 DEF Contract!Next, Contract!Return
<1>6. CASE GiveUp
  <2>1. ~Returned /\ Returned'
      BY <1>6 DEF GiveUp, Returned
  <2>2. outcome' = [c \in Commands |-> IF outcome[c] = "ok" THEN "ok" ELSE "failed"]
      BY <1>6, <2>1, <1>t DEF GiveUp, outcome, IndInv, TypeOK, Failed
  <2> QED BY <2>1, <2>2 DEF Contract!Next, Contract!Return
<1>7. ASSUME NEW c \in Commands, KillOverdue(c) \/ DrainEof(c)
      PROVE  Goal
  <2>1. ~Returned /\ ~Returned' /\ c \in inFlight
      BY <1>7, <1>t DEF KillOverdue, DrainEof, Returned, Current, TypeOK
  <2>2. PICK r \in ExitCodes \cup {Failed} : exitCode' = [exitCode EXCEPT ![c] = r]
      BY <1>7, <1>t DEF KillOverdue, DrainEof, DrainedCode, TypeOK
  <2>3. inFlight' = inFlight \ {c} /\ next' = next
      BY <1>7 DEF KillOverdue, DrainEof
  <2>4. c < next
      BY <2>1, <1>t DEF IndInv, TypeOK, Commands
  <2>5. PICK v \in {"ok", "failed"} : outcome' = [outcome EXCEPT ![c] = v]
    <3>1. outcome'[c] \in {"ok", "failed"}
        BY <2>1, <2>2, <2>3, <2>4, <1>t DEF outcome, TypeOK, Commands
    <3>2. \A d \in Commands \ {c} : outcome'[d] = outcome[d]
        BY <2>1, <2>2, <2>3, <1>t DEF outcome, TypeOK
    <3> QED BY <3>1, <3>2, OutcomeUpdate
  <2>6. outcome[c] = "running"
      BY <2>1, OutcomeValues
  <2>7. UNCHANGED Returned
      BY <2>1 DEF Returned
  <2>8. Contract!Finish(c)
      BY <2>1, <2>5, <2>6, <2>7, Zenon DEF Contract!Finish
  <2> QED BY <2>8 DEF Contract!Next
<1>8. ASSUME NEW c \in Commands,
             ReapExited(c) \/ KeepRunning(c) \/ DrainRead(c) \/ Exit(c) \/ Write(c) \/ HeirCloses(c)
      PROVE  Goal
  <2>1. UNCHANGED <<exitCode, inFlight, next>> /\ Returned' = Returned
      BY <1>8 DEF ReapExited, KeepRunning, DrainRead, Exit, Write, HeirCloses, Returned
  <2> QED BY <2>1, OutcomeStutter
<1>9. CASE UNCHANGED vars BY <1>9, OutcomeStutter DEF vars, Returned
<1> HIDE DEF Goal
<1>10. Goal
    BY <1>1, <1>2, <1>3, <1>4, <1>5, <1>6, <1>7, <1>8, <1>9
    DEF Goal, Next, Program, Environment, Finished, TryStartNext, MainLoop, Reap
<1> QED BY <1>10 DEF Goal

\* The detailed specification implements the abstract one.
THEOREM ContractImplemented == Spec => ImplementsContract
<1>1. IndInv /\ IndInv' /\ [Next]_vars => [Contract!Next]_<<outcome, Returned>>
    BY RefineStep
<1> QED BY RefineInit, <1>1, Inductive, PTL DEF Spec, ImplementsContract, Contract!Spec
=============================================================================
