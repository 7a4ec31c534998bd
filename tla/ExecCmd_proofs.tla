---------------------------- MODULE ExecCmd_proofs ----------------------------
(***************************************************************************)
(* What exec_cmd reports, for every timeout, every size of the pipe and    *)
(* every amount of output.                                                 *)
(***************************************************************************)
EXTENDS ExecCmd, TLAPS

LEMMA IndInit == Init => IndInv
<1> SUFFICES ASSUME Init PROVE IndInv
  OBVIOUS
<1>1. TypeOK
  <2>1. 0 \in 0..Timeout /\ 0 \in 0..PipeSize /\ 0 \in 0..MaxWrites
    BY CmdAssumption
  <2>2. writers \in SUBSET {"child", "heir"}
    BY DEF Init
  <2>3. QED
    BY <2>1, <2>2 DEF Init, TypeOK, Failed
<1>2. QED
  BY <1>1, CmdAssumption DEF Init, IndInv, OkMeansExitedZero, OutputComplete, ExitCodes, Failed

LEMMA IndStep == IndInv /\ [Next]_vars => IndInv'
<1> SUFFICES ASSUME IndInv, [Next]_vars PROVE IndInv'
  OBVIOUS
<1> USE CmdAssumption
    DEF IndInv, TypeOK, OkMeansExitedZero, OutputComplete, ExitCodes, Failed, vars
<1>1. CASE UNCHANGED vars
  BY <1>1
<1>2. CASE Read
  BY <1>2 DEF Read
<1>3. CASE SeeEof
  BY <1>3 DEF SeeEof, AtEof
<1>4. CASE PollFails
  BY <1>4 DEF PollFails
<1>5. CASE QuietSlice
  <2>1. elapsed' \in 0..Timeout /\ (pc' = "poll" => elapsed' < Timeout \/ Timeout = 0)
    BY <1>5 DEF QuietSlice, Due, ElapsedAfter
  <2>2. CASE Due
    BY <1>5, <2>1, <2>2 DEF QuietSlice
  <2>3. CASE ~Due
    BY <1>5, <2>1, <2>3 DEF QuietSlice
  <2>4. QED
    BY <2>2, <2>3
<1>6. CASE Wait
  BY <1>6 DEF Wait, ReportedCode
<1>7. CASE Write
  BY <1>7 DEF Write
<1>8. CASE CloseStdout
  BY <1>8 DEF CloseStdout
<1>9. CASE Exit
  BY <1>9 DEF Exit
<1>10. CASE HeirCloses
  BY <1>10 DEF HeirCloses
<1>11. CASE StartFails
  BY <1>11 DEF StartFails
<1>12. CASE Start
  BY <1>12 DEF Start
<1>13. QED
  BY <1>1, <1>2, <1>3, <1>4, <1>5, <1>6, <1>7, <1>8, <1>9, <1>10, <1>11, <1>12
     DEF Next, Program, Progress, Finished

\* Type correctness and the inductive invariant itself.
THEOREM Inductive == Spec => []IndInv
BY IndInit, IndStep, PTL DEF Spec

\* Every variable keeps to its range: in particular `elapsed` never passes the timeout.
THEOREM TypeCorrect == Spec => []TypeOK
<1>1. IndInv => TypeOK
  BY DEF IndInv
<1>2. QED
  BY <1>1, Inductive, PTL

\* exec_cmd returns 0 only for a child that exited 0 and was not timed out.
THEOREM SuccessIsReal == Spec => []OkMeansExitedZero
<1>1. IndInv => OkMeansExitedZero
  BY DEF IndInv
<1>2. QED
  BY <1>1, Inductive, PTL

\* What the child wrote before it exited is in stdout_str.
THEOREM OutputIsWhole == Spec => []OutputComplete
<1>1. IndInv => OutputComplete
  BY DEF IndInv
<1>2. QED
  BY <1>1, Inductive, PTL
===============================================================================
