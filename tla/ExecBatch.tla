------------------------------ MODULE ExecBatch ------------------------------
(***************************************************************************)
(* exec_batch of exec_util.cpp: one process runs N independent commands    *)
(* with at most Concurrency children alive, a timeout for every command, a *)
(* budget for the whole batch and a circuit breaker on failed spawns.      *)
(*                                                                         *)
(* A command is its index in `commands`, 1..N.  A child is forked, exits   *)
(* whenever it likes (or never), and writes chunks to its pipe.  One of    *)
(* PipeHolders may leave a heir: another process that inherited the write  *)
(* end of the pipe and keeps it open after the child is gone.              *)
(*                                                                         *)
(* Bounds: MaxTime ends the clock, MaxOutput the chunks of one command.    *)
(***************************************************************************)
EXTENDS Integers, FiniteSets

CONSTANTS N,              \* commands.size()
          MaxConcurrent,  \* max_concurrent
          ItemTimeout,    \* item_timeout
          TotalBudget,    \* total_budget
          SpawnFailLimit, \* max_consecutive_spawn_failures
          MaxTime,        \* bound: the clock stops here
          MaxOutput,      \* bound: chunks one command may write
          PipeHolders,    \* commands that may leave a heir of their pipe
          PollMayFail     \* may poll() fail with something else than EINTR?

ASSUME BatchAssumption ==
    /\ N \in Nat /\ MaxConcurrent \in Nat /\ SpawnFailLimit \in Nat
    /\ ItemTimeout \in Nat \ {0} /\ TotalBudget \in Nat
    /\ MaxTime \in Nat /\ MaxOutput \in Nat
    /\ PipeHolders \subseteq 1..N
    /\ PollMayFail \in BOOLEAN

Commands    == 1..N
ExitCodes   == {0, 1}                  \* 1 stands for every failure, a death by signal included
Failed      == -1                      \* ExecResult{-1, {}}
Concurrency == IF MaxConcurrent = 0 \/ N = 0 THEN 1
               ELSE IF MaxConcurrent < N THEN MaxConcurrent ELSE N
FailLimit   == IF SpawnFailLimit = 0 THEN 1 ELSE SpawnFailLimit

VARIABLES
    pc,             \* where exec_batch stands
    next,           \* next_to_start
    inFlight,       \* in_flight; the vector is always in the order of the index
    deadline,       \* BatchChild::deadline
    toReap,         \* what the reap loop of this pass has not looked at yet
    passNow,        \* `now` of the reap loop, read once per pass
    consecutive,    \* consecutive_spawn_failures
    circuitOpen,    \* spawn_circuit_open
    budgetExceeded, \* budget_exceeded
    exitCode,       \* results[c].exit_code
    stdout,         \* results[c].stdout_str, in chunks
    proc,           \* the kernel's view of the child of c
    status,         \* what waitpid reports of it
    pipe,           \* chunks written to the pipe and not read
    heir,           \* does another process hold the write end?
    now             \* steady_clock, 0 when the batch starts

program == <<next, inFlight, deadline, toReap, passNow, consecutive,
             circuitOpen, budgetExceeded, exitCode, stdout>>
kernel  == <<proc, status, pipe, heir>>
vars    == <<pc, program, kernel, now>>

TypeOK ==
    /\ pc \in {"start", "loop", "poll", "reap", "drain", "giveUp", "done", "aborted"}
    /\ next \in 1..(N + 1)
    /\ inFlight \in SUBSET Commands /\ toReap \in SUBSET inFlight
    /\ deadline \in [Commands -> Nat]
    /\ passNow \in Nat /\ now \in 0..MaxTime
    /\ consecutive \in Nat
    /\ circuitOpen \in BOOLEAN /\ budgetExceeded \in BOOLEAN
    /\ exitCode \in [Commands -> ExitCodes \cup {Failed}]
    /\ stdout \in [Commands -> Nat] /\ pipe \in [Commands -> Nat]
    /\ proc \in [Commands -> {"unborn", "running", "zombie", "reaped"}]
    /\ status \in [Commands -> ExitCodes \cup {Failed}]
    /\ heir \in [Commands -> BOOLEAN]

Init ==
    /\ pc = "start" /\ next = 1
    /\ inFlight = {} /\ toReap = {}
    /\ deadline = [c \in Commands |-> 0]
    /\ passNow = 0 /\ now = 0
    /\ consecutive = 0 /\ circuitOpen = FALSE /\ budgetExceeded = FALSE
    /\ exitCode = [c \in Commands |-> Failed]
    /\ stdout = [c \in Commands |-> 0] /\ pipe = [c \in Commands |-> 0]
    /\ proc = [c \in Commands |-> "unborn"]
    /\ status = [c \in Commands |-> Failed]
    /\ heir = [c \in Commands |-> FALSE]

-----------------------------------------------------------------------------
(* try_start_next: one action per turn of its loop.                        *)

HasRoom_NoEnd == Cardinality(inFlight) < Concurrency
HasRoom_OffByOne == Cardinality(inFlight) <= Concurrency /\ next <= N
HasRoom == Cardinality(inFlight) < Concurrency /\ next <= N

StartBudget ==
    /\ pc = "start" /\ HasRoom /\ now >= TotalBudget
    /\ budgetExceeded' = TRUE /\ pc' = "giveUp"
    /\ UNCHANGED <<next, inFlight, deadline, toReap, passNow, consecutive,
                   circuitOpen, exitCode, stdout, kernel, now>>

StartSkip ==
    /\ pc = "start" /\ HasRoom /\ now < TotalBudget /\ circuitOpen
    /\ exitCode' = [exitCode EXCEPT ![next] = Failed]
    /\ next' = next + 1
    /\ UNCHANGED <<pc, inFlight, deadline, toReap, passNow, consecutive,
                   circuitOpen, budgetExceeded, stdout, kernel, now>>

StartFails ==
    /\ pc = "start" /\ HasRoom /\ now < TotalBudget /\ ~circuitOpen
    /\ exitCode' = [exitCode EXCEPT ![next] = Failed]
    /\ next' = next + 1
    /\ consecutive' = consecutive + 1
    /\ circuitOpen' = (consecutive' >= FailLimit)
    /\ UNCHANGED <<pc, inFlight, deadline, toReap, passNow, budgetExceeded,
                   stdout, kernel, now>>

FailuresAfterSuccess_Kept == consecutive
FailuresAfterSuccess == 0

MaySpawn_NoCircuit == now < TotalBudget
MaySpawn == now < TotalBudget /\ ~circuitOpen

StartChild ==
    /\ pc = "start" /\ HasRoom /\ MaySpawn
    /\ proc' = [proc EXCEPT ![next] = "running"]
    /\ deadline' = [deadline EXCEPT ![next] = now + ItemTimeout]
    /\ inFlight' = inFlight \cup {next}
    /\ next' = next + 1
    /\ consecutive' = FailuresAfterSuccess
    /\ UNCHANGED <<pc, toReap, passNow, circuitOpen, budgetExceeded, exitCode,
                   stdout, status, pipe, heir, now>>

StartDone ==
    /\ pc = "start" /\ ~HasRoom
    /\ pc' = "loop"
    /\ UNCHANGED <<program, kernel, now>>

-----------------------------------------------------------------------------
(* The main loop.                                                          *)

LoopDone ==
    /\ pc = "loop" /\ inFlight = {}
    /\ pc' = "done"
    /\ UNCHANGED <<program, kernel, now>>

LoopBudget ==
    /\ pc = "loop" /\ inFlight # {} /\ now >= TotalBudget
    /\ budgetExceeded' = TRUE /\ pc' = "giveUp"
    /\ UNCHANGED <<next, inFlight, deadline, toReap, passNow, consecutive,
                   circuitOpen, exitCode, stdout, kernel, now>>

LoopTurn ==
    /\ pc = "loop" /\ inFlight # {} /\ now < TotalBudget
    /\ pc' = "poll"
    /\ UNCHANGED <<program, kernel, now>>

\* A poll error leaves the function at once, and `in_flight' goes with it: its
\* children are neither killed nor waited for.
PollFails ==
    /\ pc = "poll" /\ PollMayFail
    /\ inFlight' = {}
    /\ pc' = "aborted"
    /\ UNCHANGED <<next, deadline, toReap, passNow, consecutive, circuitOpen,
                   budgetExceeded, exitCode, stdout, kernel, now>>

\* Every readable pipe gives one buffer; none does if poll was interrupted.
PollAndRead ==
    /\ pc = "poll"
    /\ \E ready \in {{}, {c \in inFlight : pipe[c] > 0}} :
          /\ stdout' = [c \in Commands |-> IF c \in ready THEN stdout[c] + 1 ELSE stdout[c]]
          /\ pipe' = [c \in Commands |-> IF c \in ready THEN pipe[c] - 1 ELSE pipe[c]]
    /\ toReap' = inFlight /\ passNow' = now
    /\ pc' = "reap"
    /\ UNCHANGED <<next, inFlight, deadline, consecutive, circuitOpen,
                   budgetExceeded, exitCode, proc, status, heir, now>>

-----------------------------------------------------------------------------
(* The reap loop: children in order, each reaped, killed or kept.          *)

Current(c) == c \in toReap /\ \A d \in toReap : c <= d

ReapExited(c) ==
    /\ pc = "reap" /\ Current(c) /\ proc[c] = "zombie"
    /\ proc' = [proc EXCEPT ![c] = "reaped"]
    /\ pc' = "drain"
    /\ UNCHANGED <<program, status, pipe, heir, now>>

Overdue_Strict(c) == passNow > deadline[c]
Overdue(c) == passNow >= deadline[c]

\* SIGKILL, wait, and the result is reset to ExecResult{-1, {}}.
KillOverdue(c) ==
    /\ pc = "reap" /\ Current(c) /\ proc[c] = "running" /\ Overdue(c)
    /\ proc' = [proc EXCEPT ![c] = "reaped"]
    /\ exitCode' = [exitCode EXCEPT ![c] = Failed]
    /\ stdout' = [stdout EXCEPT ![c] = 0]
    /\ inFlight' = inFlight \ {c} /\ toReap' = toReap \ {c}
    /\ UNCHANGED <<pc, next, deadline, passNow, consecutive, circuitOpen,
                   budgetExceeded, status, pipe, heir, now>>

KeepRunning(c) ==
    /\ pc = "reap" /\ Current(c) /\ proc[c] = "running" /\ ~Overdue(c)
    /\ toReap' = toReap \ {c}
    /\ UNCHANGED <<pc, next, inFlight, deadline, passNow, consecutive,
                   circuitOpen, budgetExceeded, exitCode, stdout, kernel, now>>

ReapDone_NoRefill ==
    /\ pc = "reap" /\ toReap = {}
    /\ pc' = "loop"
    /\ UNCHANGED <<program, kernel, now>>

ReapDone ==
    /\ pc = "reap" /\ toReap = {}
    /\ pc' = "start"
    /\ UNCHANGED <<program, kernel, now>>

\* The blocking read loop on the pipe of a child that was just reaped.
DrainRead(c) ==
    /\ pc = "drain" /\ Current(c) /\ pipe[c] > 0
    /\ stdout' = [stdout EXCEPT ![c] = @ + 1]
    /\ pipe' = [pipe EXCEPT ![c] = @ - 1]
    /\ UNCHANGED <<pc, next, inFlight, deadline, toReap, passNow, consecutive,
                   circuitOpen, budgetExceeded, exitCode, proc, status, heir, now>>

AtEof_Unread(c) == ~heir[c]
AtEof_NeedsOutput(c) == pipe[c] = 0 /\ stdout[c] > 0 /\ ~heir[c]
AtEof(c) == pipe[c] = 0 /\ ~heir[c]

DrainedCode_Success(c) == 0
DrainedCode(c) == status[c]

DrainEof(c) ==
    /\ pc = "drain" /\ Current(c) /\ AtEof(c)
    /\ exitCode' = [exitCode EXCEPT ![c] = DrainedCode(c)]
    /\ inFlight' = inFlight \ {c} /\ toReap' = toReap \ {c}
    /\ pc' = "reap"
    /\ UNCHANGED <<next, deadline, passNow, consecutive, circuitOpen,
                   budgetExceeded, stdout, kernel, now>>

Killed_OnlyRunning == {c \in inFlight : proc[c] = "running"}
Killed == inFlight

\* The budget is exhausted: kill and wait for all that runs, skip the rest.
GiveUp ==
    /\ pc = "giveUp"
    /\ proc' = [c \in Commands |-> IF c \in Killed THEN "reaped" ELSE proc[c]]
    /\ exitCode' = [c \in Commands |->
                       IF c \in inFlight \/ c >= next THEN Failed ELSE exitCode[c]]
    /\ stdout' = [c \in Commands |->
                       IF c \in inFlight \/ c >= next THEN 0 ELSE stdout[c]]
    /\ inFlight' = {}
    /\ pc' = "done"
    /\ UNCHANGED <<next, deadline, toReap, passNow, consecutive, circuitOpen,
                   budgetExceeded, status, pipe, heir, now>>

-----------------------------------------------------------------------------
(* The children, the heirs of their pipes, and time.                       *)

Exit(c) ==
    /\ proc[c] = "running"
    /\ proc' = [proc EXCEPT ![c] = "zombie"]
    /\ \E s \in ExitCodes : status' = [status EXCEPT ![c] = s]
    /\ \E h \in BOOLEAN : /\ h => c \in PipeHolders
                          /\ heir' = [heir EXCEPT ![c] = h]
    /\ UNCHANGED <<pc, program, pipe, now>>

Write(c) ==
    /\ c \in inFlight /\ (proc[c] = "running" \/ heir[c])
    /\ stdout[c] + pipe[c] < MaxOutput
    /\ pipe' = [pipe EXCEPT ![c] = @ + 1]
    /\ UNCHANGED <<pc, program, proc, status, heir, now>>

HeirCloses(c) ==
    /\ heir[c]
    /\ heir' = [heir EXCEPT ![c] = FALSE]
    /\ UNCHANGED <<pc, program, proc, status, pipe, now>>

Tick ==
    /\ now < MaxTime
    /\ now' = now + 1
    /\ UNCHANGED <<pc, program, kernel>>

Returned == pc \in {"done", "aborted"}

Finished == Returned /\ UNCHANGED vars

TryStartNext == StartBudget \/ StartSkip \/ StartFails \/ StartChild \/ StartDone
MainLoop     == LoopDone \/ LoopBudget \/ LoopTurn \/ PollFails \/ PollAndRead
Reap         == \/ \E c \in Commands : \/ ReapExited(c) \/ KillOverdue(c)
                                       \/ KeepRunning(c)
                                       \/ DrainRead(c) \/ DrainEof(c)
                \/ ReapDone
Program      == TryStartNext \/ MainLoop \/ Reap \/ GiveUp
Environment  == (\E c \in Commands : Exit(c) \/ Write(c) \/ HeirCloses(c)) \/ Tick

Next == Program \/ Environment \/ Finished

Spec == Init /\ [][Next]_vars

\* The process is scheduled and time passes; no child is assumed to exit.
FairSpec == Spec /\ WF_vars(Program) /\ WF_vars(Tick)

-----------------------------------------------------------------------------
(* What must hold.                                                         *)

Alive == {c \in Commands : proc[c] \in {"running", "zombie"}}

\* Never more unreaped children than the concurrency allows, whatever mix of
\* exits, kills, failed spawns and slow drains the batch goes through
\* (exec_util.h "Up to max_concurrent children alive at once").
ConcurrencyBound == Cardinality(Alive) <= Concurrency

\* Until a poll error, every child that was forked is waited for or tracked, and
\* what is tracked has not been waited for, save the one whose pipe is being
\* drained; a return leaves neither a zombie nor an orphan, whether all is done or
\* the budget is spent.  After a poll error the children that were in flight are on
\* their own, without a timeout and without a parent that waits for them.
NoChildLost ==
    /\ pc # "aborted" => Alive \subseteq inFlight
    /\ pc = "done" => Alive = {}
    /\ \A c \in inFlight : c \in Alive \/ (pc = "drain" /\ Current(c))

\* A result says success only for a child that ran, was reaped and exited 0:
\* a skipped, killed or abandoned command is never "silently treated as
\* success" (exec_util.h).
OkMeansExitedZero ==
    \A c \in Commands : exitCode[c] = 0 => proc[c] = "reaped" /\ status[c] = 0

\* A child reported with its own exit status has had all its output captured,
\* including what it wrote between the last poll and its exit.
OutputComplete ==
    \A c \in Commands \ inFlight : exitCode[c] # Failed => pipe[c] = 0

\* A pass over the children leaves none that was due when the pass began.
DeadlineEnforced ==
    \A c \in inFlight \ toReap : passNow < deadline[c]

\* The circuit opens only on an unbroken run of failed spawns, and from the
\* first of them on no command has been started.
CircuitJustified ==
    circuitOpen =>
        \E first \in Commands :
            /\ first + FailLimit <= next
            /\ \A c \in first..N : proc[c] = "unborn"

\* A batch that was not cut short has taken every command.
CompleteAtReturn == (pc = "done" /\ ~budgetExceeded) => next = N + 1 /\ Alive = {}

\* No child is forked once the circuit is open or the budget was found spent.
NoSpawnAfterStop ==
    [][\A c \in Commands :
          (proc[c] = "unborn" /\ proc'[c] # "unborn") => ~circuitOpen /\ ~budgetExceeded]_vars

\* The call returns although no child is assumed ever to exit, as long as no
\* other process keeps a pipe open for good: the timeouts end a hung command.
Returns == (\A c \in Commands : []<>~heir[c]) => <>Returned

\* What exec_util.h says of the budget: it "bounds the *entire* batch", "so one
\* wedged child can't hang the whole apply ... forever".
AlwaysReturns == <>Returned

\* The inductive strengthening the proofs rest on: what is in flight fits the
\* slots and has no result yet, nothing at or after `next` has started, the reap
\* cursor is empty outside the reap loop, a child whose pipe is drained has been
\* waited for, the main loop never waits with a free slot and work left, and the
\* children fit the slots even when nobody tracks them any more.
IndInv ==
    /\ TypeOK
    /\ Cardinality(inFlight) <= Concurrency
    /\ \A c \in Commands : c >= next => proc[c] = "unborn" /\ c \notin inFlight
    /\ \A c \in Commands : c >= next \/ c \in inFlight => exitCode[c] = Failed
    /\ pc = "loop" => ~HasRoom
    /\ pc \in {"done", "aborted"} => inFlight = {}
    /\ Cardinality(Alive) <= Concurrency
    /\ budgetExceeded => pc \in {"giveUp", "done"}
    /\ pc = "giveUp" => budgetExceeded
    /\ CompleteAtReturn
    /\ pc \notin {"reap", "drain"} => toReap = {}
    /\ \A c \in toReap : pc = "drain" /\ Current(c) => proc[c] = "reaped"
    /\ passNow <= now
    /\ NoChildLost
    /\ OkMeansExitedZero
    /\ DeadlineEnforced

outcome == [c \in Commands |->
    IF exitCode[c] = 0 THEN "ok"
    ELSE IF Returned THEN "failed"
    ELSE IF c \in inFlight THEN "running"
    ELSE IF c >= next THEN "waiting"
    ELSE "failed"]

Contract == INSTANCE BatchContract WITH Limit <- Concurrency, returned <- Returned

\* exec_batch implements the contract of its header.
ImplementsContract == Contract!Spec
=============================================================================
