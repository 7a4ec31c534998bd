------------------------------- MODULE ExecCmd -------------------------------
(***************************************************************************)
(* exec_cmd of exec_util.cpp: one child, its output read in slices of      *)
(* kPollInterval.  `elapsed` counts only the slices in which poll saw      *)
(* nothing, and the last wait has no timeout of its own.                   *)
(*                                                                         *)
(* Bounds: Timeout is in slices, PipeSize in chunks; MaxWrites is the      *)
(* number of chunks a well-behaved child writes.                           *)
(***************************************************************************)
EXTENDS Integers

CONSTANTS Timeout,    \* timeout, in poll slices; 0 means none
          PipeSize,   \* bound: chunks the pipe holds
          MaxWrites,  \* bound: chunks a child that is not chatty writes
          Chatty,     \* may the child write for ever?
          MayClose,   \* may the child close its stdout and live on?
          MayFail,    \* may pipe2, fork or poll fail?
          Heirs       \* may another process keep the pipe open after the child?

ASSUME CmdAssumption ==
    /\ Timeout \in Nat /\ PipeSize \in Nat \ {0} /\ MaxWrites \in Nat
    /\ Chatty \in BOOLEAN /\ MayClose \in BOOLEAN
    /\ MayFail \in BOOLEAN /\ Heirs \in BOOLEAN

ExitCodes == {0, 1}      \* 1 stands for every failure, a death by signal included
Failed    == -1

VARIABLES
    pc,        \* "start", "poll", "wait" (wait_for_child), "done"
    elapsed,   \* elapsed, in slices
    ended,     \* why the loop ended; "timeout" is `killed`
    exitCode,  \* result.exit_code
    captured,  \* has any of result.stdout_str been read?
    proc,      \* the child: unborn, running, zombie, reaped
    status,    \* what waitpid reports of it
    writers,   \* who holds the write end: "child", "heir"
    pipe,      \* chunks written and not read
    written    \* chunks written so far, up to MaxWrites

vars == <<pc, elapsed, ended, exitCode, captured, proc, status, writers, pipe, written>>

TypeOK ==
    /\ pc \in {"start", "poll", "wait", "done"}
    /\ elapsed \in 0..Timeout
    /\ ended \in {"no", "eof", "timeout", "error"} /\ captured \in BOOLEAN
    /\ exitCode \in ExitCodes \cup {Failed}
    /\ status \in ExitCodes \cup {Failed}
    /\ proc \in {"unborn", "running", "zombie", "reaped"}
    /\ writers \in SUBSET {"child", "heir"}
    /\ pipe \in 0..PipeSize /\ written \in 0..MaxWrites

Init ==
    /\ pc = "start" /\ elapsed = 0 /\ ended = "no"
    /\ exitCode = Failed /\ captured = FALSE
    /\ proc = "unborn" /\ status = Failed
    /\ writers = {} /\ pipe = 0 /\ written = 0

-----------------------------------------------------------------------------
(* The start.                                                              *)

StartFails ==
    /\ pc = "start" /\ MayFail
    /\ pc' = "done"
    /\ UNCHANGED <<elapsed, ended, exitCode, captured, proc, status, writers, pipe, written>>

\* The fork; the parent closes its own write end before it polls.
Start ==
    /\ pc = "start"
    /\ pc' = "poll" /\ proc' = "running"
    /\ \E h \in {{}, {"heir"}} : (h # {} => Heirs) /\ writers' = {"child"} \cup h
    /\ UNCHANGED <<elapsed, ended, exitCode, captured, status, pipe, written>>

-----------------------------------------------------------------------------
(* The polling loop.                                                       *)

Read ==
    /\ pc = "poll" /\ pipe > 0
    /\ pipe' = pipe - 1 /\ captured' = TRUE
    /\ UNCHANGED <<pc, elapsed, ended, exitCode, proc, status, writers, written>>

AtEof_ChildGone == proc # "running"
AtEof == pipe = 0 /\ writers = {}

\* End of file: read() returns 0.
SeeEof ==
    /\ pc = "poll" /\ AtEof
    /\ pc' = "wait" /\ ended' = "eof"
    /\ UNCHANGED <<elapsed, exitCode, captured, proc, status, writers, pipe, written>>

PollFails ==
    /\ pc = "poll" /\ MayFail
    /\ pc' = "wait" /\ ended' = "error"
    /\ UNCHANGED <<elapsed, exitCode, captured, proc, status, writers, pipe, written>>

ElapsedAfter_Kept == elapsed
ElapsedAfter == elapsed + 1

Due_NoTimeout == FALSE
Due == Timeout > 0 /\ ElapsedAfter >= Timeout

\* A slice in which poll saw nothing; at the timeout the child is killed.
QuietSlice ==
    /\ pc = "poll" /\ pipe = 0 /\ writers # {}
    /\ elapsed' = IF Timeout = 0 THEN 0 ELSE ElapsedAfter
    /\ IF Due
       THEN /\ pc' = "wait" /\ ended' = "timeout"
            /\ proc' = "zombie" /\ writers' = writers \ {"child"}
            /\ status' = IF proc = "running" THEN Failed ELSE status
       ELSE UNCHANGED <<pc, ended, proc, writers, status>>
    /\ UNCHANGED <<exitCode, captured, pipe, written>>

ReportedCode_Raw == status
ReportedCode == IF ended = "timeout" THEN Failed ELSE status

\* wait_for_child: blocks until the child is gone, with no timeout.
Wait ==
    /\ pc = "wait" /\ proc = "zombie"
    /\ proc' = "reaped" /\ pc' = "done"
    /\ exitCode' = ReportedCode
    /\ UNCHANGED <<elapsed, ended, captured, status, writers, pipe, written>>

-----------------------------------------------------------------------------
(* The child and what else holds its pipe.                                 *)

Write ==
    /\ "child" \in writers /\ proc = "running" /\ pc = "poll"
    /\ pipe < PipeSize /\ (Chatty \/ written < MaxWrites)
    /\ pipe' = pipe + 1
    /\ written' = IF Chatty THEN written ELSE written + 1
    /\ UNCHANGED <<pc, elapsed, ended, exitCode, captured, proc, status, writers>>

CloseStdout ==
    /\ MayClose /\ proc = "running" /\ "child" \in writers
    /\ writers' = writers \ {"child"}
    /\ UNCHANGED <<pc, elapsed, ended, exitCode, captured, proc, status, pipe, written>>

Exit ==
    /\ proc = "running"
    /\ proc' = "zombie" /\ status' \in ExitCodes
    /\ writers' = writers \ {"child"}
    /\ UNCHANGED <<pc, elapsed, ended, exitCode, captured, pipe, written>>

HeirCloses ==
    /\ "heir" \in writers
    /\ writers' = writers \ {"heir"}
    /\ UNCHANGED <<pc, elapsed, ended, exitCode, captured, proc, status, pipe, written>>

Finished == pc = "done" /\ UNCHANGED vars

Progress == Start \/ Read \/ SeeEof \/ QuietSlice \/ Wait
Program  == Progress \/ StartFails \/ PollFails

Next == Program \/ Write \/ CloseStdout \/ Exit \/ HeirCloses \/ Finished

Spec     == Init /\ [][Next]_vars

\* The process is scheduled; no system call is assumed to fail.
FairSpec == Spec /\ WF_vars(Progress)

-----------------------------------------------------------------------------
(* What must hold.                                                         *)

\* Success is reported only for a child that exited 0 by itself; a timed-out
\* command is a failure even if its child had exited 0 while something else
\* kept the pipe open.
OkMeansExitedZero ==
    exitCode = 0 => proc = "reaped" /\ status = 0 /\ ended # "timeout"

\* The loop stops at the end of the output, not at the end of the child: what
\* was written before the exit is in stdout_str.
OutputComplete == ended = "eof" => pipe = 0 /\ (written > 0 => captured)

\* The call returns, though no child is assumed to exit and heirs may keep the
\* pipe for ever, provided only that the final wait, which has no timeout, is
\* not entered with a child that lives on.
Returns == (pc = "wait" ~> proc # "running") => <>(pc = "done")

\* exec_util.h: "Each child gets up to `item_timeout` before being SIGKILLed
\* individually (same as exec_cmd's timeout)".
AlwaysReturns == <>(pc = "done")

\* What the proofs rest on.
IndInv ==
    /\ TypeOK
    /\ proc = "reaped" => pc = "done"
    /\ pc = "start" <=> (pc # "done" /\ proc = "unborn")
    /\ pc # "done" => exitCode = Failed
    /\ pc = "poll" => ended = "no"
    /\ pc = "start" => written = 0 /\ ended = "no"
    /\ "child" \in writers => proc = "running"
    /\ ended = "eof" => writers = {}
    /\ pc \in {"start", "poll"} => (elapsed < Timeout \/ Timeout = 0)
    /\ written > 0 /\ ~captured => pipe > 0
    /\ OkMeansExitedZero /\ OutputComplete
=============================================================================
