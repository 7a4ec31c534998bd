-------------------------- MODULE ConfigPage_proofs --------------------------
(***************************************************************************)
(* On a page of a config, for every set of texts and any number of clicks: *)
(* a load keeps the user's edits; and while nothing has failed, on a host  *)
(* with window.ksu that runs commands in order, yay_apply reads what the   *)
(* page showed at a click, and the last click wins, with what a pass of    *)
(* the watcher at the same time may do to that.                            *)
(***************************************************************************)
EXTENDS ConfigPage, QueueLemmas

IsWrite(i) == cmds[i].verb = "write"
IsPass(i) == cmds[i].verb \in {"apply", "dryrun"}
Open(i) == cmds[i].st # "answered"

LastClick == clicks[Len(clicks)]

\* A load under way hides the lists.
Loading ==
    \A i \in DOMAIN cmds :
        cmds[i].verb = "read" => loading /\ mounted /\ (page # "games" => ~edited)

\* A command belongs to a click.  A write carries the lists at its click; on a page
\* without a Preview there is only one of them, and it keeps the Apply button disabled.
ForClicks ==
    \A i \in DOMAIN cmds :
        /\ IsWrite(i) \/ IsPass(i) => cmds[i].click \in 1..Len(clicks)
        /\ IsWrite(i) =>
              /\ ~host.fi /\ cmds[i].data = clicks[cmds[i].click].text
              /\ cmds[i].then = clicks[cmds[i].click].by
              /\ page # "rules" => saving /\ cmds[i].click = Len(clicks)

\* Where a page without a Preview has its write: nowhere else, and after the passes.
SingleWrite ==
    page # "rules" =>
        \A i, j \in DOMAIN cmds : IsWrite(j) => /\ IsWrite(i) => i = j
                                                /\ IsPass(i) => i < j

\* On a serial host, the writes and the passes are in the order of the clicks, and
\* the passes are for clicks before those of the writes.
ClickOrder ==
    host.serial =>
        \A i, j \in DOMAIN cmds :
            /\ i < j /\ ((IsWrite(i) /\ IsWrite(j)) \/ (IsPass(i) /\ IsPass(j))) =>
                  cmds[i].click < cmds[j].click
            /\ IsPass(i) /\ IsWrite(j) => cmds[i].click < cmds[j].click

\* A serial host begins a command when those before it are answered.
HostOrder ==
    host.serial =>
        \A i, j \in DOMAIN cmds : i < j /\ cmds[j].st # "issued" => ~Open(i)

\* Only the shell takes its time for a write, and only a failure makes one fail.
Writes ==
    \A i \in DOMAIN cmds :
        IsWrite(i) => /\ cmds[i].st = "running" => FilesVia(host) = "shell"
                      /\ ~failed => cmds[i].ok

\* Can the writes overtake one another?
Calm == ~failed /\ (host.serial \/ page # "rules")

\* The file is the one of the last click, or the write that sees to it is under way.
FileFollows ==
    Calm =>
        /\ \A i \in DOMAIN cmds : IsWrite(i) /\ cmds[i].st = "running" => file = Truncated
        /\ (\A i \in DOMAIN cmds : IsWrite(i) => ~Open(i)) /\ clicks # <<>> =>
              file = LastClick.text
        /\ (\E i \in DOMAIN cmds : IsWrite(i) /\ Open(i)) =>
              \E i \in DOMAIN cmds : IsWrite(i) /\ Open(i) /\ cmds[i].click = Len(clicks)

\* Does the text do for the pass at i?
DoesFor(i, text) ==
    \E n \in cmds[i].click..Len(clicks) :
        /\ n = cmds[i].click \/ page = "rules" \/ host.fi
        /\ text = clicks[n].text

\* A pass that has yet to begin finds a file that does, or a write comes before it.
PassReady ==
    host.ksu /\ host.serial /\ ~failed =>
        \A i \in DOMAIN cmds :
            IsPass(i) /\ cmds[i].st = "issued" =>
                \/ DoesFor(i, file)
                \/ page = "rules" /\ \E j \in DOMAIN cmds : j < i /\ IsWrite(j) /\ Open(j)

\* Every pass that is under way carries a text that does.
PassRead ==
    host.ksu /\ host.serial /\ ~failed =>
        \A i \in DOMAIN cmds :
            IsPass(i) /\ cmds[i].st # "issued" => DoesFor(i, cmds[i].data)

\* The watcher runs beside a real file only, and when it applies an older text than the
\* file's, it has been told of the newer one.
WatchSees ==
    /\ dirty \/ watchPass # Absent => watched
    /\ watched => FilesVia(host) # "mock"
    /\ watchPass \in Texts /\ file \in Texts /\ watchPass # file => dirty

\* A pass of the page and one of the watcher with another text are seen to clash.
ClashSeen ==
    host.serial =>
        \A i \in DOMAIN cmds :
            cmds[i].verb = "apply" /\ cmds[i].st = "running" /\ watchPass \notin {Absent, cmds[i].data}
                => clashed

\* The last click's text is applied and stays so, save for what a clash may leave.
AppliedLast ==
    \/ applied = LastClick.text /\ watchPass \in {Absent, LastClick.text}
    \/ clashed /\ (dirty \/ watchPass = LastClick.text \/ page = "rules")

\* The last click on Apply has its write under way, or its pass, or is applied.
AppliedFollows ==
    host.ksu /\ host.serial /\ ~failed /\ clicks # <<>> /\ LastClick.by = "apply" =>
        \/ \E i \in DOMAIN cmds : IsWrite(i) /\ cmds[i].click = Len(clicks)
        \/ \E i \in DOMAIN cmds : /\ cmds[i].verb = "apply" /\ Open(i)
                                  /\ cmds[i].click = Len(clicks)
        \/ /\ AppliedLast
           /\ \A i \in DOMAIN cmds : ~IsWrite(i) /\ (IsPass(i) => ~Open(i))

Order == ForClicks /\ SingleWrite /\ ClickOrder
IndInv == /\ TypeOK /\ Loading /\ Order /\ HostOrder /\ Writes
          /\ FileFollows /\ PassReady /\ PassRead /\ WatchSees /\ ClashSeen /\ AppliedFollows

-----------------------------------------------------------------------------
(* Types.                                                                  *)

\* A command as the page issues it.
LEMMA CommandType ==
    ASSUME NEW verb \in Verbs, NEW then \in {"none", "apply", "dryrun"},
           NEW n \in 0..MaxClicks, NEW text \in FileTexts
    PROVE  Command(verb, then, n, text) \in Commands
BY DEF Command, Commands

LEMMA CommandsType ==
    ASSUME TypeOK
    PROVE  /\ cmds \in Seq(Commands) /\ Len(cmds) \in Nat /\ DOMAIN cmds = 1..Len(cmds)
           /\ \A i \in DOMAIN cmds : cmds[i] \in Commands
<1>1. cmds \in Seq(Commands)
  BY DEF TypeOK
<1>2. QED
  BY <1>1

Click == [text : Texts, by : {"apply", "dryrun"}]

LEMMA ClicksType ==
    ASSUME TypeOK
    PROVE  /\ clicks \in Seq(Click) /\ Len(clicks) \in Nat /\ Len(clicks) <= MaxClicks
           /\ DOMAIN clicks = 1..Len(clicks)
           /\ \A n \in 1..Len(clicks) : clicks[n] \in Click
           /\ clicks = <<>> <=> Len(clicks) = 0
<1>1. clicks \in Seq(Click) /\ Len(clicks) <= MaxClicks
  BY DEF TypeOK, Click
<1>2. QED
  BY <1>1

\* The command at i gets another state, text and result; nothing else changes.
Updates(i, st, data, ok) ==
    /\ cmds' \in Seq(Commands) /\ DOMAIN cmds' = DOMAIN cmds
    /\ \A j \in DOMAIN cmds \ {i} : cmds'[j] = cmds[j]
    /\ \A j \in DOMAIN cmds : /\ cmds'[j].verb = cmds[j].verb
                              /\ cmds'[j].then = cmds[j].then
                              /\ cmds'[j].click = cmds[j].click
    /\ cmds'[i].st = st /\ cmds'[i].data = data /\ cmds'[i].ok = ok

LEMMA UpdateCommand ==
    ASSUME TypeOK, NEW i \in DOMAIN cmds, NEW st \in {"running", "answered"},
           NEW data \in FileTexts, NEW ok \in BOOLEAN,
           cmds' = [cmds EXCEPT ![i] = [@ EXCEPT !.st = st, !.data = data, !.ok = ok]]
    PROVE  Updates(i, st, data, ok)
<1> DEFINE c == [cmds[i] EXCEPT !.st = st, !.data = data, !.ok = ok]
<1>1. cmds \in Seq(Commands) /\ cmds[i] \in Commands
  BY CommandsType
<1>2. /\ c \in Commands /\ c.verb = cmds[i].verb /\ c.then = cmds[i].then
      /\ c.click = cmds[i].click /\ c.st = st /\ c.data = data /\ c.ok = ok
  BY <1>1 DEF Commands
<1>3. cmds' = [cmds EXCEPT ![i] = c]
  OBVIOUS
<1> HIDE DEF c
<1>4. cmds' \in Seq(Commands)
  BY <1>1, <1>2, <1>3
<1>5. DOMAIN cmds' = DOMAIN cmds /\ cmds'[i] = c /\ \A j \in DOMAIN cmds \ {i} : cmds'[j] = cmds[j]
  BY <1>1, <1>3
<1>6. QED
  BY <1>2, <1>4, <1>5 DEF Updates

LEMMA AnswerCommand ==
    ASSUME TypeOK, NEW i \in DOMAIN cmds, NEW data \in FileTexts, NEW ok \in BOOLEAN,
           Answered(i, data, ok)
    PROVE  Updates(i, "answered", data, ok)
<1>1. cmds' = [cmds EXCEPT ![i] = [@ EXCEPT !.st = "answered", !.data = data, !.ok = ok]]
  BY CommandsType DEF Answered
<1>2. QED
  BY <1>1, UpdateCommand

\* What each of the host's steps does to the command it runs.
LEMMA RunUpdates ==
    ASSUME TypeOK, NEW i \in DOMAIN cmds, Run(i)
    PROVE  /\ Runnable(i)
           /\ RunRead(i) => Updates(i, "answered", file, file # Absent)
           /\ OpenFile(i) => Updates(i, "running", cmds[i].data, cmds[i].ok)
           /\ FillFile(i) \/ WriteMock(i) => Updates(i, "answered", cmds[i].data, TRUE)
           /\ StartPass(i) => Updates(i, "running", file, cmds[i].ok)
           /\ EndPass(i) => Updates(i, "answered", cmds[i].data, TRUE)
           /\ PassMock(i) => Updates(i, "answered", Absent, TRUE)
           /\ Fail(i) => Updates(i, "answered", cmds[i].data, FALSE)
<1>1. /\ file \in FileTexts /\ Absent \in FileTexts
      /\ cmds[i] \in Commands /\ cmds[i].data \in FileTexts /\ cmds[i].ok \in BOOLEAN
  <2>1. cmds[i] \in Commands
    BY CommandsType
  <2>2. QED
    BY <2>1 DEF TypeOK, FileTexts, Commands
<1>2. Runnable(i)
  BY DEF Run, RunRead, OpenFile, FillFile, WriteMock, StartPass, EndPass, PassMock, Fail,
         Issued, Running
<1>3. RunRead(i) => Updates(i, "answered", file, file # Absent)
  BY <1>1, AnswerCommand DEF RunRead
<1>4. ASSUME OpenFile(i) PROVE Updates(i, "running", cmds[i].data, cmds[i].ok)
  <2>1. cmds' = [cmds EXCEPT ![i] = [@ EXCEPT !.st = "running"]]
    BY <1>4 DEF OpenFile
  <2>2. [cmds[i] EXCEPT !.st = "running"]
           = [cmds[i] EXCEPT !.st = "running", !.data = cmds[i].data, !.ok = cmds[i].ok]
    BY <1>1 DEF Commands
  <2>3. cmds' = [cmds EXCEPT ![i] = [@ EXCEPT !.st = "running", !.data = cmds[i].data,
                                            !.ok = cmds[i].ok]]
    BY <2>1, <2>2
  <2>4. QED
    BY <1>1, <2>3, UpdateCommand
<1>5. FillFile(i) \/ WriteMock(i) => Updates(i, "answered", cmds[i].data, TRUE)
  BY <1>1, AnswerCommand DEF FillFile, WriteMock
<1>6. ASSUME StartPass(i) PROVE Updates(i, "running", file, cmds[i].ok)
  <2>1. cmds' = [cmds EXCEPT ![i] = [@ EXCEPT !.st = "running", !.data = file]]
    BY <1>6, CommandsType DEF StartPass
  <2>2. [cmds[i] EXCEPT !.st = "running", !.data = file]
           = [cmds[i] EXCEPT !.st = "running", !.data = file, !.ok = cmds[i].ok]
    BY <1>1 DEF Commands
  <2>3. QED
    BY <1>1, <2>1, <2>2, UpdateCommand
<1>7. EndPass(i) => Updates(i, "answered", cmds[i].data, TRUE)
  BY <1>1, AnswerCommand DEF EndPass
<1>8. PassMock(i) => Updates(i, "answered", Absent, TRUE)
  BY <1>1, AnswerCommand DEF PassMock
<1>9. Fail(i) => Updates(i, "answered", cmds[i].data, FALSE)
  BY <1>1, AnswerCommand DEF Fail
<1>10. QED
  BY <1>2, <1>3, <1>4, <1>5, <1>6, <1>7, <1>8, <1>9

-----------------------------------------------------------------------------
(* The host's steps.                                                       *)

\* Whatever the host runs, the commands stay in their places, those of a verb and a
\* click too, and the page does not move.
LEMMA RunMoves ==
    ASSUME TypeOK, NEW i \in DOMAIN cmds, Run(i)
    PROVE  /\ Runnable(i)
           /\ cmds' \in Seq(Commands) /\ DOMAIN cmds' = DOMAIN cmds /\ cmds'[i].st # "issued"
           /\ \A j \in DOMAIN cmds \ {i} : cmds'[j] = cmds[j]
           /\ \A j \in DOMAIN cmds :
                 /\ cmds'[j].verb = cmds[j].verb /\ cmds'[j].then = cmds[j].then
                 /\ cmds'[j].click = cmds[j].click
                 /\ IsWrite(j) => cmds'[j].data = cmds[j].data
           /\ UNCHANGED <<host, page, watched, watchPass, store, view, clicks, edited>>
           /\ StartPass(i) \/ UNCHANGED clashed
           /\ failed => failed'
<1>1. \E st, data, ok :
         st # "issued" /\ Updates(i, st, data, ok) /\ (IsWrite(i) => data = cmds[i].data)
  BY RunUpdates DEF Run, RunRead, OpenFile, FillFile, WriteMock, StartPass, EndPass, PassMock,
                    Fail, Issued, Running, IsWrite
<1>2. failed => failed'
  BY DEF Run, RunRead, OpenFile, FillFile, WriteMock, StartPass, EndPass, PassMock, Fail
<1>3. QED
  BY <1>1, <1>2, RunUpdates DEF Run, Updates

LEMMA RunKeepsTypes ==
    ASSUME TypeOK, NEW i \in DOMAIN cmds, Run(i)
    PROVE  TypeOK'
<1>1. cmds' \in Seq(Commands)
      /\ UNCHANGED <<host, page, watched, watchPass, store, view, clicks, edited>>
  BY RunMoves
<1>2. \A j, k \in DOMAIN cmds' : cmds'[j].verb = "read" /\ cmds'[k].verb = "read" => j = k
  BY RunMoves DEF TypeOK
<1>3. cmds[i] \in Commands /\ cmds[i].data \in FileTexts
  <2>1. cmds[i] \in Commands
    BY CommandsType
  <2>2. QED
    BY <2>1 DEF Commands
<1>4. Truncated \in FileTexts /\ Mixed \in FileTexts /\ (page # "io") \in BOOLEAN
  BY DEF FileTexts
<1>5. file' \in FileTexts /\ dirty' \in BOOLEAN /\ applied' \in FileTexts /\ failed' \in BOOLEAN
  <2>1. CASE RunRead(i) \/ StartPass(i) \/ PassMock(i) \/ Fail(i)
    BY <2>1 DEF RunRead, StartPass, PassMock, Fail, device, TypeOK
  <2>2. CASE OpenFile(i) \/ WriteMock(i)
    BY <2>2, <1>3, <1>4 DEF OpenFile, WriteMock, TypeOK
  <2>3. CASE FillFile(i)
    BY <2>3, <1>3, <1>4 DEF FillFile, TypeOK
  <2>4. CASE EndPass(i)
    BY <2>4, <1>3 DEF EndPass, TypeOK
  <2>5. QED
    BY <2>1, <2>2, <2>3, <2>4 DEF Run
<1>6. clashed' \in BOOLEAN
  BY DEF Run, StartPass, TypeOK
<1>7. QED
  BY <1>1, <1>2, <1>5, <1>6 DEF TypeOK, store, view

LEMMA RunKeepsOrder ==
    ASSUME TypeOK, Loading, Order, HostOrder, Writes, NEW i \in DOMAIN cmds, Run(i)
    PROVE  Loading' /\ Order' /\ HostOrder' /\ Writes'
<1>1. /\ DOMAIN cmds' = DOMAIN cmds
      /\ \A j \in DOMAIN cmds : /\ IsWrite(j)' <=> IsWrite(j)
                                /\ IsPass(j)' <=> IsPass(j)
                                /\ cmds'[j].verb = cmds[j].verb /\ cmds'[j].then = cmds[j].then
                                /\ cmds'[j].click = cmds[j].click
                                /\ IsWrite(j) => cmds'[j].data = cmds[j].data
      /\ UNCHANGED <<host, page, loading, mounted, saving, clicks, edited>>
  BY RunMoves DEF IsWrite, IsPass, store, view
<1>2. Loading'
  BY <1>1 DEF Loading
<1>3. Order'
  BY <1>1 DEF Order, ForClicks, SingleWrite, ClickOrder
<1>4. HostOrder'
  <2> SUFFICES ASSUME host.serial, NEW j \in DOMAIN cmds, NEW k \in DOMAIN cmds,
                      j < k, cmds'[k].st # "issued"
               PROVE  cmds'[j].st = "answered"
    BY <1>1 DEF HostOrder, Open
  <2>1. DOMAIN cmds = 1..Len(cmds)
    BY CommandsType
  <2>2. \A l \in DOMAIN cmds : Open(l) => i <= l
    BY RunMoves DEF Runnable, InTurn, Open
  <2>3. CASE k = i
    <3>1. j # i /\ ~Open(j)
      BY <2>1, <2>2, <2>3
    <3>2. QED
      BY <3>1, RunMoves DEF Open
  <2>4. CASE k # i
    <3>1. ~Open(j)
      BY <2>4, RunMoves DEF HostOrder
    <3>2. j # i
      BY <3>1, RunMoves DEF Runnable, Open
    <3>3. QED
      BY <3>1, <3>2, RunMoves DEF Open
  <2>5. QED
    BY <2>3, <2>4
<1>5. Writes'
  <2> SUFFICES ASSUME NEW j \in DOMAIN cmds, IsWrite(j)
               PROVE  /\ cmds'[j].st = "running" => FilesVia(host) = "shell"
                      /\ ~failed' => cmds'[j].ok
    BY <1>1 DEF Writes
  <2>1. failed => failed'
    BY RunMoves
  <2>2. CASE j # i
    BY <2>1, <2>2, RunMoves DEF Writes
  <2>3. CASE j = i /\ OpenFile(i)
    BY <2>3, RunUpdates DEF OpenFile, Updates, Writes
  <2>4. CASE j = i /\ (FillFile(i) \/ WriteMock(i) \/ Fail(i))
    BY <2>4, RunUpdates DEF Updates, Fail
  <2>5. QED
    BY <2>2, <2>3, <2>4
       DEF Run, RunRead, StartPass, EndPass, PassMock, Issued, Running, IsWrite
<1>6. QED
  BY <1>2, <1>3, <1>4, <1>5

\* In a calm run the write a host runs is the only one, or the first one.
LEMMA RunWrites ==
    ASSUME IndInv, Calm, NEW i \in DOMAIN cmds, Runnable(i), IsWrite(i),
           NEW j \in DOMAIN cmds \ {i}, IsWrite(j), Open(j)
    PROVE  /\ host.serial /\ page = "rules" /\ i < j
           /\ cmds[i].click < cmds[j].click /\ cmds[j].st = "issued"
<1>1. page = "rules" /\ host.serial
  BY DEF IndInv, Order, SingleWrite, Calm
<1>2. DOMAIN cmds = 1..Len(cmds) /\ Len(cmds) \in Nat
  BY CommandsType DEF IndInv
<1>3. i < j
  BY <1>1, <1>2 DEF Runnable, InTurn, Open
<1>4. cmds[j].st = "issued"
  BY <1>1, <1>3 DEF IndInv, HostOrder, Runnable, Open
<1>5. cmds[i].click < cmds[j].click
  BY <1>1, <1>3 DEF IndInv, Order, ClickOrder
<1>6. QED
  BY <1>1, <1>3, <1>4, <1>5

\* A write that is done in a calm run leaves its text in the file.
LEMMA WriteFills ==
    ASSUME IndInv, Calm, NEW i \in DOMAIN cmds, FillFile(i) \/ WriteMock(i)
    PROVE  IsWrite(i) /\ Open(i) /\ file' = cmds[i].data
BY DEF FillFile, WriteMock, Issued, Running, IsWrite, Open, IndInv, FileFollows

LEMMA RunKeepsFile ==
    ASSUME IndInv, NEW i \in DOMAIN cmds, Run(i)
    PROVE  FileFollows'
<1> SUFFICES ASSUME Calm' PROVE FileFollows'
  BY DEF FileFollows
<1>1. /\ DOMAIN cmds' = DOMAIN cmds
      /\ \A j \in DOMAIN cmds : /\ IsWrite(j)' <=> IsWrite(j)
                                /\ cmds'[j].click = cmds[j].click
                                /\ j # i => cmds'[j] = cmds[j] /\ (Open(j)' <=> Open(j))
      /\ UNCHANGED <<host, page, clicks>> /\ cmds'[i].st # "issued" /\ LastClick' = LastClick
      /\ Runnable(i) /\ Open(i)
  BY RunMoves DEF IndInv, IsWrite, Open, LastClick, Runnable
<1>2. Calm
  BY <1>1, RunMoves DEF Calm, IndInv
<1>3. FileFollows
  BY DEF IndInv
<1>4. CASE ~IsWrite(i)
  <2>1. file' = file
    BY <1>4 DEF Run, RunRead, OpenFile, FillFile, WriteMock, StartPass, EndPass, PassMock, Fail,
                Issued, Running, IsWrite, device
  <2>2. QED
    BY <1>1, <1>2, <1>3, <1>4, <2>1 DEF FileFollows, Open
<1>5. CASE OpenFile(i)
  <2>1. IsWrite(i) /\ file' = Truncated /\ cmds'[i].st = "running"
    BY <1>5, RunUpdates DEF IndInv, OpenFile, Issued, IsWrite, Updates
  <2>2. QED
    BY <1>1, <1>2, <1>3, <2>1 DEF FileFollows, Open
<1>6. CASE FillFile(i) \/ WriteMock(i)
  <2>1. /\ IsWrite(i) /\ file' = cmds[i].data /\ cmds'[i].st = "answered"
        /\ file' = clicks[cmds[i].click].text
    BY <1>2, <1>6, WriteFills, RunUpdates DEF IndInv, Updates, Order, ForClicks
  <2>2. \A j \in DOMAIN cmds : IsWrite(j) => cmds'[j].st # "running"
    BY <1>1, <1>2, <2>1, RunWrites DEF Open
  <2>3. CASE \A j \in DOMAIN cmds : IsWrite(j) => ~Open(j)'
    <3>1. PICK j \in DOMAIN cmds : IsWrite(j) /\ Open(j) /\ cmds[j].click = Len(clicks)
      BY <1>1, <1>2, <1>3, <2>1 DEF FileFollows
    <3>2. j = i
      BY <3>1, <2>3, <1>1
    <3>3. QED
      BY <1>1, <2>1, <2>2, <2>3, <3>1, <3>2 DEF FileFollows, LastClick
  <2>4. CASE \E j \in DOMAIN cmds : IsWrite(j) /\ Open(j)'
    <3>1. PICK j \in DOMAIN cmds \ {i} : IsWrite(j) /\ Open(j)
      BY <2>4, <2>1, <1>1 DEF Open
    <3>2. PICK k \in DOMAIN cmds : IsWrite(k) /\ Open(k) /\ cmds[k].click = Len(clicks)
      BY <1>1, <1>2, <1>3, <3>1 DEF FileFollows
    <3>3. k # i
      <4>1. cmds[i].click < cmds[j].click
        BY <1>1, <1>2, <2>1, <3>1, RunWrites
      <4>2. cmds[i].click \in 1..Len(clicks) /\ cmds[j].click \in 1..Len(clicks)
        BY <2>1, <3>1 DEF IndInv, Order, ForClicks
      <4>3. Len(clicks) \in Nat
        BY ClicksType DEF IndInv
      <4>4. QED
        BY <3>2, <4>1, <4>2, <4>3
    <3>4. k \in DOMAIN cmds' /\ IsWrite(k)' /\ Open(k)' /\ cmds'[k].click = Len(clicks)'
      BY <1>1, <3>2, <3>3
    <3>5. QED
      BY <1>1, <2>2, <2>4, <3>4 DEF FileFollows
  <2>5. QED
    BY <2>3, <2>4
<1>7. CASE IsWrite(i) /\ ~OpenFile(i) /\ ~FillFile(i) /\ ~WriteMock(i)
  <2>1. Fail(i)
    BY <1>7 DEF Run, RunRead, StartPass, EndPass, PassMock, Issued, Running, IsWrite
  <2>2. QED
    BY <2>1 DEF Fail, Calm
<1>8. QED
  BY <1>4, <1>5, <1>6, <1>7

\* What a pass reads on a serial host does for it: all writes before it are done.
LEMMA StartsReady ==
    ASSUME IndInv, host.ksu, host.serial, ~failed, NEW i \in DOMAIN cmds, StartPass(i)
    PROVE  DoesFor(i, file)
<1>1. IsPass(i) /\ cmds[i].st = "issued"
  BY DEF StartPass, Issued, IsPass
<1>2. \A j \in DOMAIN cmds : Open(j) => i <= j
  BY DEF StartPass, Issued, Runnable, InTurn, Open
<1>3. DOMAIN cmds = 1..Len(cmds) /\ Len(cmds) \in Nat
  BY CommandsType DEF IndInv
<1>4. QED
  BY <1>1, <1>2, <1>3 DEF IndInv, PassReady

\* A write that is run before an issued pass is one for a later click, on the page
\* with a Preview.
LEMMA WriteBeforePass ==
    ASSUME IndInv, host.serial, NEW i \in DOMAIN cmds, Runnable(i), IsWrite(i),
           NEW k \in DOMAIN cmds, IsPass(k), Open(k)
    PROVE  i < k /\ page = "rules" /\ cmds[k].click < cmds[i].click
<1>1. DOMAIN cmds = 1..Len(cmds) /\ Len(cmds) \in Nat
  BY CommandsType DEF IndInv
<1>2. i <= k /\ i # k
  BY DEF Runnable, InTurn, Open, IsPass, IsWrite
<1>3. QED
  BY <1>1, <1>2 DEF IndInv, Order, SingleWrite, ClickOrder

LEMMA RunKeepsPasses ==
    ASSUME IndInv, NEW i \in DOMAIN cmds, Run(i)
    PROVE  PassReady' /\ PassRead'
<1> SUFFICES ASSUME host.ksu, host.serial, ~failed' PROVE PassReady' /\ PassRead'
  BY RunMoves DEF IndInv, PassReady, PassRead
<1>1. /\ DOMAIN cmds' = DOMAIN cmds
      /\ \A j \in DOMAIN cmds : /\ IsWrite(j)' <=> IsWrite(j)
                                /\ IsPass(j)' <=> IsPass(j)
                                /\ cmds'[j].click = cmds[j].click
                                /\ j # i => cmds'[j] = cmds[j] /\ (Open(j)' <=> Open(j))
                                /\ \A t : DoesFor(j, t)' <=> DoesFor(j, t)
      /\ UNCHANGED <<host, page, clicks>> /\ cmds'[i].st # "issued"
      /\ Runnable(i) /\ ~failed
  BY RunMoves DEF IndInv, IsWrite, IsPass, Open, DoesFor
<1>2. PassRead'
  <2> SUFFICES ASSUME NEW k \in DOMAIN cmds, IsPass(k), cmds'[k].st # "issued"
               PROVE  DoesFor(k, cmds'[k].data)
    BY <1>1 DEF PassRead, DoesFor
  <2>1. CASE k # i
    BY <2>1, <1>1 DEF IndInv, PassRead
  <2>2. CASE k = i /\ StartPass(i)
    <3>1. cmds'[i].data = file
      BY <2>2, RunUpdates DEF Updates, IndInv
    <3>2. QED
      BY <1>1, <2>2, <3>1, StartsReady
  <2>3. CASE k = i /\ EndPass(i)
    <3>1. cmds'[i].data = cmds[i].data
      BY <2>3, RunUpdates DEF Updates, IndInv
    <3>2. cmds[i].st = "running"
      BY <2>3 DEF EndPass, Running
    <3>3. QED
      BY <1>1, <2>3, <3>1, <3>2 DEF IndInv, PassRead
  <2>4. CASE k = i /\ ~StartPass(i) /\ ~EndPass(i)
    <3>1. ~PassMock(i) /\ ~Fail(i)
      BY DEF PassMock, ExecVia, isKSU, Fail
    <3>2. QED
      BY <2>4, <3>1
         DEF Run, RunRead, OpenFile, FillFile, WriteMock, Issued, Running, IsPass
  <2>5. QED
    BY <2>1, <2>2, <2>3, <2>4
<1>3. PassReady'
  <2> SUFFICES ASSUME NEW k \in DOMAIN cmds, IsPass(k), cmds'[k].st = "issued"
               PROVE  \/ DoesFor(k, file')
                      \/ page = "rules" /\ \E j \in DOMAIN cmds : j < k /\ IsWrite(j) /\ Open(j)'
    BY <1>1 DEF PassReady, DoesFor
  <2>1. k # i /\ cmds[k].st = "issued" /\ Open(k)
    BY <1>1 DEF Open
  <2>2. \/ DoesFor(k, file)
        \/ page = "rules" /\ \E j \in DOMAIN cmds : j < k /\ IsWrite(j) /\ Open(j)
    BY <1>1, <2>1 DEF IndInv, PassReady
  <2>3. CASE ~IsWrite(i)
    <3>1. file' = file
      BY <2>3 DEF Run, RunRead, OpenFile, FillFile, WriteMock, StartPass, EndPass, PassMock,
                  Fail, Issued, Running, IsWrite, device
    <3>2. QED
      BY <1>1, <2>2, <2>3, <3>1
  <2>4. CASE OpenFile(i)
    <3>1. IsWrite(i) /\ Open(i)'
      BY <2>4, RunUpdates DEF IndInv, OpenFile, Issued, IsWrite, Updates, Open
    <3>2. i < k /\ page = "rules"
      BY <1>1, <2>1, <3>1, WriteBeforePass
    <3>3. QED
      BY <3>1, <3>2
  <2>5. CASE FillFile(i) \/ WriteMock(i)
    <3>1. Calm /\ IsWrite(i) /\ file' = clicks[cmds[i].click].text
      BY <1>1, <2>5, WriteFills DEF Calm, IndInv, Order, ForClicks
    <3>2. page = "rules" /\ cmds[k].click < cmds[i].click
      BY <1>1, <2>1, <3>1, WriteBeforePass
    <3>3. cmds[i].click \in 1..Len(clicks) /\ cmds[k].click \in 1..Len(clicks) /\ Len(clicks) \in Nat
      BY <3>1, ClicksType DEF IndInv, Order, ForClicks
    <3>4. DoesFor(k, file')
      BY <3>1, <3>2, <3>3 DEF DoesFor
    <3>5. QED
      BY <3>4
  <2>6. QED
    BY <2>3, <2>4, <2>5
       DEF Run, RunRead, StartPass, EndPass, PassMock, Fail, Issued, Running, IsWrite
<1>4. QED
  BY <1>2, <1>3

\* The end of the pass for the last click is the last of what is to be done.
LEMMA LastPassEnds ==
    ASSUME IndInv, host.ksu, host.serial, ~failed, NEW i \in DOMAIN cmds,
           Run(i), EndPass(i), cmds[i].verb = "apply", cmds[i].click = Len(clicks)
    PROVE  /\ AppliedLast'
           /\ \A j \in DOMAIN cmds : ~IsWrite(j) /\ (j # i /\ IsPass(j) => ~Open(j))
<1>1. cmds[i].st = "running" /\ Runnable(i) /\ IsPass(i) /\ ~StartPass(i)
  BY DEF EndPass, StartPass, Issued, Running, IsPass
<1>2. cmds[i].click \in 1..Len(clicks) /\ Len(clicks) \in Nat
  BY <1>1, ClicksType DEF IndInv, Order, ForClicks
<1>3. cmds[i].data = LastClick.text /\ LastClick.text \in Texts
  <2>1. PICK n \in cmds[i].click..Len(clicks) : cmds[i].data = clicks[n].text
    BY <1>1 DEF IndInv, PassRead, DoesFor
  <2>2. n = Len(clicks)
    BY <2>1, <1>2
  <2>3. LastClick \in Click
    BY <1>2, ClicksType DEF IndInv, LastClick
  <2>4. QED
    BY <2>1, <2>2, <2>3 DEF LastClick, Click
<1>4. applied' = LastClick.text
  BY <1>3 DEF EndPass
<1>5. ASSUME NEW j \in DOMAIN cmds, IsWrite(j) PROVE FALSE
  <2>1. cmds[i].click < cmds[j].click /\ cmds[j].click \in 1..Len(clicks)
    BY <1>1, <1>5 DEF IndInv, Order, ClickOrder, ForClicks
  <2>2. QED
    BY <2>1, <1>2
<1>6. ASSUME NEW j \in DOMAIN cmds \ {i}, IsPass(j), Open(j) PROVE FALSE
  <2>1. DOMAIN cmds = 1..Len(cmds) /\ Len(cmds) \in Nat
    BY CommandsType DEF IndInv
  <2>2. i < j
    BY <1>1, <1>6, <2>1 DEF Runnable, InTurn, Open
  <2>3. cmds[i].click < cmds[j].click /\ cmds[j].click \in 1..Len(clicks)
    BY <1>1, <1>6, <2>2 DEF IndInv, Order, ClickOrder, ForClicks
  <2>4. QED
    BY <2>3, <1>2
<1>7. UNCHANGED <<page, file, dirty, watchPass, clashed>> /\ LastClick' = LastClick
  BY <1>1, RunMoves DEF IndInv, EndPass, LastClick
<1>8. CASE watchPass \in {Absent, LastClick.text}
  BY <1>4, <1>5, <1>6, <1>7, <1>8 DEF AppliedLast
<1>9. CASE watchPass \notin {Absent, LastClick.text}
  <2>1. clashed
    BY <1>1, <1>3, <1>9 DEF IndInv, ClashSeen
  <2>2. file = LastClick.text
    BY <1>2, <1>5 DEF IndInv, FileFollows, Calm
  <2>3. dirty
    BY <1>3, <1>9, <2>2 DEF IndInv, WatchSees, TypeOK
  <2>4. QED
    BY <1>5, <1>6, <1>7, <2>1, <2>3 DEF AppliedLast
<1>10. QED
  BY <1>8, <1>9

LEMMA RunKeepsApplied ==
    ASSUME IndInv, NEW i \in DOMAIN cmds, Run(i)
    PROVE  AppliedFollows'
<1>1. /\ DOMAIN cmds' = DOMAIN cmds
      /\ \A j \in DOMAIN cmds : /\ IsWrite(j)' <=> IsWrite(j)
                                /\ IsPass(j)' <=> IsPass(j)
                                /\ cmds'[j].verb = cmds[j].verb
                                /\ cmds'[j].click = cmds[j].click
                                /\ j # i => (Open(j)' <=> Open(j))
      /\ UNCHANGED <<host, page, clicks>> /\ LastClick' = LastClick
      /\ Runnable(i) /\ Open(i) /\ (~failed' => ~failed)
  BY RunMoves DEF IndInv, IsWrite, IsPass, Open, LastClick, Runnable
<1> SUFFICES ASSUME host.ksu, host.serial, ~failed', ~failed, clicks # <<>>,
                    LastClick.by = "apply"
             PROVE  AppliedFollows'
  BY <1>1 DEF AppliedFollows
<1>2. CASE \E j \in DOMAIN cmds : IsWrite(j) /\ cmds[j].click = Len(clicks)
  BY <1>1, <1>2 DEF AppliedFollows
<1>3. CASE \E j \in DOMAIN cmds : /\ cmds[j].verb = "apply" /\ Open(j)
                                  /\ cmds[j].click = Len(clicks)
  <2>1. PICK j \in DOMAIN cmds : /\ cmds[j].verb = "apply" /\ Open(j)
                                 /\ cmds[j].click = Len(clicks)
    BY <1>3
  <2>2. CASE j # i \/ Open(i)'
    <3>1. cmds'[j].verb = "apply" /\ Open(j)' /\ cmds'[j].click = Len(clicks)
      BY <1>1, <2>1, <2>2
    <3>2. QED
      BY <1>1, <3>1 DEF AppliedFollows
  <2>3. CASE j = i /\ ~Open(i)'
    <3>1. ~Fail(i) /\ ~PassMock(i)
      BY DEF Fail, PassMock, ExecVia, isKSU
    <3>2. ~StartPass(i)
      BY <2>3, RunUpdates DEF IndInv, Updates, Open
    <3>3. EndPass(i)
      BY <2>1, <2>3, <3>1, <3>2
         DEF Run, RunRead, OpenFile, FillFile, WriteMock, Issued, Running
    <3>4. /\ AppliedLast'
          /\ \A k \in DOMAIN cmds : ~IsWrite(k) /\ (k # i /\ IsPass(k) => ~Open(k))
      BY <2>1, <2>3, <3>3, LastPassEnds
    <3>5. QED
      BY <1>1, <2>3, <3>4 DEF AppliedFollows
  <2>4. QED
    BY <2>2, <2>3
<1>4. CASE /\ AppliedLast
           /\ \A j \in DOMAIN cmds : ~IsWrite(j) /\ (IsPass(j) => ~Open(j))
  <2>1. ~IsWrite(i) /\ ~IsPass(i) /\ ~Fail(i)
    BY <1>1, <1>4 DEF Fail
  <2>2. UNCHANGED <<applied, dirty, watchPass, clashed>>
    BY <2>1 DEF Run, RunRead, OpenFile, FillFile, WriteMock, StartPass, EndPass, PassMock,
                Issued, Running, IsWrite, IsPass, device
  <2>3. AppliedLast'
    BY <1>1, <1>4, <2>2 DEF AppliedLast
  <2>4. QED
    BY <1>1, <1>4, <2>1, <2>3 DEF AppliedFollows
<1>5. AppliedFollows
  BY DEF IndInv
<1>6. QED
  BY <1>2, <1>3, <1>4, <1>5 DEF AppliedFollows

LEMMA RunKeepsWatch ==
    ASSUME IndInv, NEW i \in DOMAIN cmds, Run(i)
    PROVE  WatchSees' /\ ClashSeen'
<1>1. /\ DOMAIN cmds' = DOMAIN cmds /\ Runnable(i) /\ UNCHANGED <<host, watched, watchPass>>
      /\ \A j \in DOMAIN cmds : cmds'[j].verb = cmds[j].verb /\ (j # i => cmds'[j] = cmds[j])
      /\ StartPass(i) \/ UNCHANGED clashed
  BY RunMoves DEF IndInv
<1>2. WatchSees'
  <2>1. CASE FillFile(i)
    BY <1>1, <2>1, PageAssumption DEF FillFile, IndInv, WatchSees, TypeOK
  <2>2. CASE OpenFile(i)
    BY <1>1, <2>2, PageAssumption DEF OpenFile, IndInv, WatchSees
  <2>3. CASE WriteMock(i)
    BY <1>1, <2>3, PageAssumption DEF WriteMock, IndInv, WatchSees
  <2>4. CASE ~FillFile(i) /\ ~OpenFile(i) /\ ~WriteMock(i)
    <3>1. UNCHANGED <<file, dirty>>
      BY <2>4 DEF Run, RunRead, StartPass, EndPass, PassMock, Fail, device
    <3>2. QED
      BY <1>1, <3>1 DEF IndInv, WatchSees
  <2>5. QED
    BY <2>1, <2>2, <2>3, <2>4
<1>3. ClashSeen'
  <2> SUFFICES ASSUME host.serial, NEW k \in DOMAIN cmds, cmds[k].verb = "apply",
                      cmds'[k].st = "running", watchPass \notin {Absent, cmds'[k].data}
               PROVE  clashed'
    BY <1>1 DEF ClashSeen
  <2>1. CASE StartPass(i)
    <3>1. cmds[i].st = "issued" /\ Open(i) /\ \A j \in DOMAIN cmds : Open(j) => i <= j
      BY <1>1, <2>1 DEF StartPass, Issued, Runnable, InTurn, Open
    <3>2. k = i
      <4>1. DOMAIN cmds = 1..Len(cmds) /\ Len(cmds) \in Nat
        BY CommandsType DEF IndInv
      <4>2. SUFFICES ASSUME k # i PROVE FALSE
        OBVIOUS
      <4>3. cmds[k].st = "running" /\ i < k
        BY <1>1, <3>1, <4>1, <4>2 DEF Open
      <4>4. QED
        BY <3>1, <4>3 DEF IndInv, HostOrder
    <3>3. cmds'[i].data = file
      BY <2>1, RunUpdates DEF IndInv, Updates
    <3>4. QED
      BY <2>1, <3>2, <3>3 DEF StartPass
  <2>2. CASE ~StartPass(i)
    <3>1. cmds[k].st = "running" /\ cmds'[k].data = cmds[k].data
      <4>1. CASE k # i
        BY <1>1, <4>1
      <4>2. CASE k = i
        <5>1. ~OpenFile(i)
          BY <4>2 DEF OpenFile, Issued
        <5>2. QED
          BY <2>2, <4>2, <5>1, RunUpdates DEF IndInv, Run, Updates
      <4>3. QED
        BY <4>1, <4>2
    <3>2. QED
      BY <1>1, <2>2, <3>1 DEF IndInv, ClashSeen
  <2>3. QED
    BY <2>1, <2>2
<1>4. QED
  BY <1>2, <1>3

LEMMA RunKeeps ==
    ASSUME IndInv, NEW i \in DOMAIN cmds, Run(i)
    PROVE  IndInv'
BY RunKeepsTypes, RunKeepsOrder, RunKeepsFile, RunKeepsPasses, RunKeepsWatch, RunKeepsApplied
   DEF IndInv

-----------------------------------------------------------------------------
(* The clicks.                                                             *)

\* A click is added to the history and its command to the end of `cmds'.
LEMMA ClickAppends ==
    ASSUME TypeOK, NEW verb \in {"apply", "dryrun"}, SavesFirst(verb)
    PROVE  /\ clicks' \in Seq(Click) /\ Len(clicks') = Len(clicks) + 1 /\ Len(clicks') <= MaxClicks
           /\ \A n \in 1..Len(clicks) : clicks'[n] = clicks[n]
           /\ LastClick' = [text |-> shown, by |-> verb] /\ clicks' # <<>>
           /\ \E c \in Commands :
                 /\ cmds' \in Seq(Commands)
                 /\ DOMAIN cmds' = DOMAIN cmds \cup {Len(cmds) + 1}
                 /\ cmds'[Len(cmds) + 1] = c
                 /\ \A j \in DOMAIN cmds : cmds'[j] = cmds[j] /\ j < Len(cmds) + 1
                 /\ c.click = Len(clicks') /\ c.st = "issued" /\ c.ok = TRUE
                 /\ host.fi => c.verb = verb
                 /\ ~host.fi => c.verb = "write" /\ c.then = verb /\ c.data = shown
           /\ host.fi => /\ saving' = saving /\ dirty' = watched
                         /\ (failed' = failed /\ file' = shown) \/ failed' = TRUE
           /\ ~host.fi => saving' = TRUE /\ UNCHANGED <<file, dirty, failed>>
           /\ file' \in FileTexts /\ dirty' \in BOOLEAN /\ saving' \in BOOLEAN /\ failed' \in BOOLEAN
<1> DEFINE n == Len(clicks) + 1
           e == [text |-> shown, by |-> verb]
           p == Command(verb, "none", n, Absent)
           w == Command("write", verb, n, shown)
<1>1. n <= MaxClicks /\ clicks' = Append(clicks, e)
  BY DEF SavesFirst
<1>2. shown \in Texts /\ shown \in FileTexts /\ Absent \in FileTexts /\ n \in 0..MaxClicks
  <2>1. shown \in Texts
    BY DEF TypeOK
  <2>2. n \in 0..MaxClicks
    BY <1>1, ClicksType, PageAssumption
  <2>3. QED
    BY <2>1, <2>2 DEF FileTexts
<1>3. e \in Click
  BY <1>2 DEF Click
<1>4. p \in Commands /\ w \in Commands
  <2>1. verb \in Verbs /\ "write" \in Verbs /\ verb \in {"none", "apply", "dryrun"}
    BY DEF Verbs
  <2>2. p \in Commands
    BY <1>2, <2>1, CommandType
  <2>3. w \in Commands
    BY <1>2, <2>1, CommandType
  <2>4. QED
    BY <2>2, <2>3
<1>5. host.fi <=> FilesVia(host) = "interface"
  BY DEF FilesVia
<1>6. /\ p.click = n /\ p.st = "issued" /\ p.ok = TRUE /\ p.verb = verb
      /\ w.click = n /\ w.st = "issued" /\ w.ok = TRUE /\ w.verb = "write" /\ w.then = verb
      /\ w.data = shown
  BY DEF Command
<1>7. /\ host.fi => /\ cmds' = Append(cmds, p) /\ saving' = saving /\ dirty' = watched
                    /\ \/ failed' = failed /\ file' = shown
                       \/ failed' = TRUE /\ file' = file
      /\ ~host.fi => cmds' = Append(cmds, w) /\ saving' = TRUE /\ UNCHANGED <<file, dirty, failed>>
  BY <1>5 DEF SavesFirst
<1> HIDE DEF e, p, w
<1>8. /\ clicks' \in Seq(Click) /\ Len(clicks') = n /\ clicks'[n] = e
      /\ \A m \in 1..Len(clicks) : clicks'[m] = clicks[m]
  BY <1>1, <1>3, ClicksType, AppendAtEnd
<1>9. LastClick' = [text |-> shown, by |-> verb] /\ clicks' # <<>>
  BY <1>8, ClicksType DEF LastClick, e
<1>10. file' \in FileTexts /\ dirty' \in BOOLEAN /\ saving' \in BOOLEAN /\ failed' \in BOOLEAN
  BY <1>2, <1>7 DEF TypeOK
<1>11. \A c \in Commands : cmds' = Append(cmds, c) =>
            /\ cmds' \in Seq(Commands)
            /\ DOMAIN cmds' = DOMAIN cmds \cup {Len(cmds) + 1}
            /\ cmds'[Len(cmds) + 1] = c
            /\ \A j \in DOMAIN cmds : cmds'[j] = cmds[j] /\ j < Len(cmds) + 1
  BY CommandsType, AppendAtEnd
<1>12. CASE host.fi
  BY <1>1, <1>4, <1>6, <1>7, <1>8, <1>9, <1>10, <1>11, <1>12
<1>13. CASE ~host.fi
  BY <1>1, <1>4, <1>6, <1>7, <1>8, <1>9, <1>10, <1>11, <1>13
<1>14. QED
  BY <1>12, <1>13

LEMMA ClickKeeps ==
    ASSUME IndInv, NEW verb \in {"apply", "dryrun"}, SavesFirst(verb),
           ~saving \/ page = "rules",
           preview' \in BOOLEAN,
           UNCHANGED <<host, page, applied, watcher, shown, loading, error, mounted, edited>>
    PROVE  IndInv'
<1>1. PICK c \in Commands :
        /\ cmds' \in Seq(Commands)
        /\ DOMAIN cmds' = DOMAIN cmds \cup {Len(cmds) + 1}
        /\ cmds'[Len(cmds) + 1] = c
        /\ \A j \in DOMAIN cmds : cmds'[j] = cmds[j] /\ j < Len(cmds) + 1
        /\ c.click = Len(clicks') /\ c.st = "issued" /\ c.ok = TRUE
        /\ host.fi => c.verb = verb
        /\ ~host.fi => c.verb = "write" /\ c.then = verb /\ c.data = shown
  BY ClickAppends DEF IndInv
<1>2. /\ clicks' \in Seq(Click) /\ Len(clicks') = Len(clicks) + 1 /\ Len(clicks') <= MaxClicks
      /\ \A n \in 1..Len(clicks) : clicks'[n] = clicks[n]
      /\ LastClick' = [text |-> shown, by |-> verb] /\ clicks' # <<>>
      /\ host.fi => /\ saving' = saving /\ dirty' = watched
                    /\ (failed' = failed /\ file' = shown) \/ failed' = TRUE
      /\ ~host.fi => saving' = TRUE /\ UNCHANGED <<file, dirty, failed>>
      /\ file' \in FileTexts /\ dirty' \in BOOLEAN /\ saving' \in BOOLEAN /\ failed' \in BOOLEAN
  BY ClickAppends DEF IndInv
<1>3. Len(clicks) \in Nat /\ Len(clicks') \in Nat /\ DOMAIN cmds = 1..Len(cmds) /\ Len(cmds) \in Nat
  <2>1. Len(clicks) \in Nat /\ DOMAIN cmds = 1..Len(cmds) /\ Len(cmds) \in Nat
    BY ClicksType, CommandsType DEF IndInv
  <2>2. Len(clicks') \in Nat
    <3>1. clicks' \in Seq(Click)
      BY <1>2
    <3>2. QED
      BY <3>1
  <2>3. QED
    BY <2>1, <2>2
<1>19. PICK L \in Nat : L = Len(cmds) + 1
  BY <1>3
<1>4. L \in DOMAIN cmds' /\ L \notin DOMAIN cmds /\ \A j \in DOMAIN cmds' : j # L => j \in DOMAIN cmds
  BY <1>1, <1>3, <1>19
<1>5. /\ \A j \in DOMAIN cmds : /\ j < L /\ ~(L < j) /\ (IsWrite(j)' <=> IsWrite(j))
                                /\ IsPass(j)' <=> IsPass(j)
                                /\ Open(j)' <=> Open(j)
      /\ host.fi => IsPass(L)' /\ ~IsWrite(L)'
      /\ ~host.fi => IsWrite(L)' /\ ~IsPass(L)'
      /\ Open(L)' /\ cmds'[L].verb # "read" /\ cmds'[L].st = "issued" /\ cmds'[L].ok = TRUE
      /\ cmds'[L].click = Len(clicks')
  <2>1. \A j \in DOMAIN cmds : j < L /\ ~(L < j) /\ cmds'[j] = cmds[j]
    BY <1>1, <1>3, <1>19
  <2>2. /\ host.fi => IsPass(L)' /\ ~IsWrite(L)'
        /\ ~host.fi => IsWrite(L)' /\ ~IsPass(L)'
        /\ Open(L)' /\ cmds'[L].verb # "read"
    BY <1>1, <1>19 DEF IsWrite, IsPass, Open
  <2>3. cmds'[L].st = "issued" /\ cmds'[L].ok = TRUE /\ cmds'[L].click = Len(clicks')
    BY <1>1, <1>19
  <2>4. QED
    BY <2>1, <2>2, <2>3 DEF IsWrite, IsPass, Open
<1>6. \A j \in DOMAIN cmds : /\ IsWrite(j) \/ IsPass(j) =>
                                   cmds[j].click \in 1..Len(clicks) /\ cmds[j].click < Len(clicks')
                             /\ IsWrite(j) => ~host.fi /\ page = "rules"
  BY <1>2, <1>3 DEF IndInv, Order, ForClicks
<1>20. ASSUME NEW j \in DOMAIN cmds, IsPass(j), NEW t, DoesFor(j, t)
       PROVE  \E n \in cmds'[j].click..Len(clicks') :
                 (n = cmds'[j].click \/ page = "rules" \/ host.fi) /\ t = clicks'[n].text
  <2>1. PICK n \in cmds[j].click..Len(clicks) :
           (n = cmds[j].click \/ page = "rules" \/ host.fi) /\ t = clicks[n].text
    BY <1>20 DEF DoesFor
  <2>2. cmds[j].click \in 1..Len(clicks) /\ cmds'[j].click = cmds[j].click
    BY <1>1, <1>6, <1>20
  <2>3. n \in 1..Len(clicks) /\ n \in cmds'[j].click..Len(clicks')
    BY <1>2, <1>3, <2>1, <2>2
  <2>4. QED
    BY <1>2, <2>1, <2>2, <2>3
<1>7. TypeOK'
  <2>1. Len(clicks') <= MaxClicks /\ clicks' \in Seq([text : Texts, by : {"apply", "dryrun"}])
    BY <1>2 DEF Click
  <2>2. \A j, k \in DOMAIN cmds' : cmds'[j].verb = "read" /\ cmds'[k].verb = "read" => j = k
    BY <1>1, <1>4, <1>5 DEF IndInv, TypeOK
  <2>3. QED
    BY <1>1, <1>2, <2>1, <2>2 DEF IndInv, TypeOK, watcher
<1>8. Loading'
  BY <1>1, <1>4, <1>5 DEF IndInv, Loading
<1>9. ForClicks'
  <2> SUFFICES ASSUME NEW j \in DOMAIN cmds'
               PROVE  /\ (IsWrite(j) \/ IsPass(j))' => cmds'[j].click \in 1..Len(clicks')
                      /\ IsWrite(j)' =>
                            /\ ~host.fi /\ cmds'[j].data = clicks'[cmds'[j].click].text
                            /\ cmds'[j].then = clicks'[cmds'[j].click].by
                            /\ page # "rules" => saving' /\ cmds'[j].click = Len(clicks')
    BY DEF ForClicks
  <2>1. CASE j = L
    BY <1>1, <1>2, <1>3, <1>5, <2>1, <1>19 DEF LastClick
  <2>2. CASE j # L
    <3>1. j \in DOMAIN cmds
      BY <1>4, <2>2
    <3>2. CASE ~IsWrite(j)
      BY <1>1, <1>2, <1>3, <1>5, <1>6, <3>1, <3>2
    <3>3. CASE IsWrite(j)
      <4>1. /\ cmds[j].click \in 1..Len(clicks) /\ cmds[j].data = clicks[cmds[j].click].text
            /\ cmds[j].then = clicks[cmds[j].click].by /\ page = "rules" /\ ~host.fi
        BY <1>6, <3>1, <3>3 DEF IndInv, Order, ForClicks
      <4>2. cmds'[j] = cmds[j] /\ cmds[j].click \in 1..Len(clicks')
            /\ clicks'[cmds[j].click] = clicks[cmds[j].click]
        BY <1>1, <1>2, <1>3, <3>1, <4>1
      <4>3. QED
        BY <4>1, <4>2
    <3>4. QED
      BY <3>2, <3>3
  <2>3. QED
    BY <2>1, <2>2
<1>10. SingleWrite'
  BY <1>1, <1>4, <1>5, <1>6 DEF IndInv, Order, SingleWrite
<1>11. ClickOrder'
  <2> SUFFICES ASSUME host.serial, NEW j \in DOMAIN cmds', NEW k \in DOMAIN cmds'
               PROVE  /\ j < k /\ ((IsWrite(j) /\ IsWrite(k)) \/ (IsPass(j) /\ IsPass(k)))' =>
                            cmds'[j].click < cmds'[k].click
                      /\ (IsPass(j) /\ IsWrite(k))' => cmds'[j].click < cmds'[k].click
    BY DEF ClickOrder
  <2>1. CASE j # L /\ k # L
    BY <1>1, <1>4, <1>5, <2>1 DEF IndInv, Order, ClickOrder
  <2>2. CASE j # L /\ k = L
    BY <1>1, <1>4, <1>5, <1>6, <2>2, <1>19
  <2>3. CASE j = L
    <3>1. ~(j < k)
      BY <1>3, <1>4, <1>5, <2>3, <1>19
    <3>2. ~(IsPass(j) /\ IsWrite(k))'
      <4>1. CASE k = L
        BY <1>5, <2>3, <4>1
      <4>2. CASE k # L
        BY <1>4, <1>5, <1>6, <2>3, <4>2
      <4>3. QED
        BY <4>1, <4>2
    <3>3. QED
      BY <3>1, <3>2
  <2>4. QED
    BY <2>1, <2>2, <2>3
<1>12. HostOrder'
  BY <1>1, <1>4, <1>5 DEF IndInv, HostOrder
<1>13. Writes'
  BY <1>1, <1>2, <1>4, <1>5, <1>6 DEF IndInv, Writes
<1>14. FileFollows'
  <2>1. CASE host.fi
    <3>1. \A j \in DOMAIN cmds' : ~IsWrite(j)'
      BY <1>4, <1>5, <1>6, <2>1
    <3>2. Calm' => file' = LastClick'.text
      BY <1>2, <2>1 DEF Calm
    <3>3. QED
      BY <3>1, <3>2 DEF FileFollows
  <2>2. CASE ~host.fi
    <3>1. L \in DOMAIN cmds' /\ IsWrite(L)' /\ Open(L)' /\ cmds'[L].click = Len(clicks')
          /\ cmds'[L].st = "issued"
      BY <1>1, <1>4, <1>5, <2>2, <1>19
    <3>2. \A j \in DOMAIN cmds' : Calm /\ IsWrite(j)' /\ cmds'[j].st = "running" => file' = Truncated
      BY <1>1, <1>2, <1>4, <1>5, <3>1, <2>2 DEF IndInv, FileFollows
    <3>3. Calm' => Calm
      BY <1>2, <2>2 DEF Calm
    <3>4. QED
      BY <3>1, <3>2, <3>3 DEF FileFollows
  <2>3. QED
    BY <2>1, <2>2
<1>15. PassReady'
  <2> SUFFICES ASSUME host.ksu, host.serial, ~failed', NEW j \in DOMAIN cmds', IsPass(j)',
                      cmds'[j].st = "issued"
               PROVE  \/ DoesFor(j, file)'
                      \/ page = "rules" /\ \E k \in DOMAIN cmds' : k < j /\ (IsWrite(k) /\ Open(k))'
    BY DEF PassReady
  <2>1. CASE host.fi
    <3>1. file' = LastClick'.text
      BY <1>2, <2>1
    <3>2. cmds'[j].click \in 1..Len(clicks')
      BY <1>9 DEF ForClicks
    <3>3. QED
      BY <1>3, <2>1, <3>1, <3>2 DEF DoesFor, LastClick
  <2>2. CASE ~host.fi
    <3>1. j \in DOMAIN cmds /\ IsPass(j) /\ cmds[j].st = "issued" /\ file' = file /\ ~failed
      BY <1>1, <1>2, <1>4, <1>5, <2>2
    <3>2. \/ DoesFor(j, file)
          \/ page = "rules" /\ \E k \in DOMAIN cmds : k < j /\ IsWrite(k) /\ Open(k)
      BY <3>1 DEF IndInv, PassReady
    <3>3. CASE DoesFor(j, file)
      <4>1. \E n \in cmds'[j].click..Len(clicks') :
               (n = cmds'[j].click \/ page = "rules" \/ host.fi) /\ file = clicks'[n].text
        BY <1>20, <3>1, <3>3
      <4>2. QED
        BY <1>2, <3>1, <4>1 DEF DoesFor
    <3>4. QED
      BY <1>1, <1>5, <3>2, <3>3
  <2>3. QED
    BY <2>1, <2>2
<1>16. PassRead'
  <2> SUFFICES ASSUME host.ksu, host.serial, ~failed', NEW j \in DOMAIN cmds', IsPass(j)',
                      cmds'[j].st # "issued"
               PROVE  DoesFor(j, cmds[j].data)'
    BY DEF PassRead
  <2>1. j \in DOMAIN cmds /\ IsPass(j) /\ cmds'[j] = cmds[j] /\ cmds[j].st # "issued" /\ ~failed
    BY <1>1, <1>2, <1>4, <1>5, <1>19
  <2>2. DoesFor(j, cmds[j].data)
    BY <2>1 DEF IndInv, PassRead
  <2>3. \E n \in cmds'[j].click..Len(clicks') :
           (n = cmds'[j].click \/ page = "rules" \/ host.fi) /\ cmds[j].data = clicks'[n].text
    BY <1>20, <2>1, <2>2
  <2>4. QED
    BY <2>1, <2>2, <2>3 DEF DoesFor
<1>17. AppliedFollows'
  <2> SUFFICES ASSUME verb = "apply" PROVE AppliedFollows'
    BY <1>2 DEF AppliedFollows
  <2>1. L \in DOMAIN cmds' /\ cmds'[L].click = Len(clicks') /\ (IsWrite(L)' \/ cmds'[L].verb = "apply")
        /\ Open(L)'
    BY <1>1, <1>4, <1>5, <1>19
  <2>2. QED
    BY <2>1 DEF AppliedFollows
<1>18. WatchSees'
  BY <1>2, PageAssumption DEF IndInv, WatchSees, TypeOK, watcher
<1>21. ClashSeen'
  <2> SUFFICES ASSUME host.serial, NEW k \in DOMAIN cmds', cmds'[k].verb = "apply",
                      cmds'[k].st = "running", watchPass \notin {Absent, cmds'[k].data}
               PROVE  clashed
    BY DEF ClashSeen, watcher
  <2>1. k \in DOMAIN cmds /\ cmds'[k] = cmds[k]
    BY <1>1, <1>4, <1>5
  <2>2. QED
    BY <2>1 DEF IndInv, ClashSeen
<1>22. QED
  BY <1>7, <1>8, <1>9, <1>10, <1>11, <1>12, <1>13, <1>14, <1>15, <1>16, <1>17, <1>18, <1>21
     DEF IndInv, Order

-----------------------------------------------------------------------------
(* The answers.                                                            *)

\* The answer to a load, a pass or a failed write takes its command away.
LEMMA RemovedKeeps ==
    ASSUME IndInv, NEW i \in DOMAIN cmds, cmds[i].st = "answered", cmds' = RemoveAt(cmds, i),
           IsWrite(i) => failed, IsWrite(i) \/ saving' = saving,
           cmds[i].verb = "read" \/ loading' = loading,
           UNCHANGED <<host, page, device, watcher, view, history>>, shown' \in Texts,
           loading' \in BOOLEAN, error' \in BOOLEAN, saving' \in BOOLEAN
    PROVE  IndInv'
<1>15. cmds \in Seq(Commands) /\ RemoveAt(cmds, i) \in Seq(Commands)
  BY CommandsType, RemoveAtProperties DEF IndInv
<1>1. PICK f : Left(cmds', cmds, i, f)
  BY <1>15, RemoveAtLeaves
<1>2. /\ cmds' \in Seq(Commands) /\ f \in [DOMAIN cmds' -> DOMAIN cmds \ {i}]
      /\ \A k \in DOMAIN cmds' : /\ cmds'[k] = cmds[f[k]]
                                 /\ IsWrite(k)' <=> IsWrite(f[k])
                                 /\ IsPass(k)' <=> IsPass(f[k])
                                 /\ Open(k)' <=> Open(f[k])
      /\ \A k, l \in DOMAIN cmds' : (k < l <=> f[k] < f[l]) /\ (f[k] = f[l] => k = l)
      /\ \A j \in DOMAIN cmds \ {i} : \E k \in DOMAIN cmds' : f[k] = j
  BY <1>15, <1>1 DEF Left, IsWrite, IsPass, Open
<1>3. /\ UNCHANGED <<host, page, file, mounted, clicks, edited, failed>>
      /\ LastClick' = LastClick /\ (Calm' <=> Calm) /\ ~Open(i)
      /\ WatchSees' /\ (AppliedLast' <=> AppliedLast)
      /\ \A k \in DOMAIN cmds' : \A t : DoesFor(k, t)' <=> DoesFor(f[k], t)
  BY <1>2 DEF device, watcher, view, history, LastClick, Calm, Open, DoesFor, AppliedLast,
              IndInv, WatchSees
<1>4. TypeOK'
  <2>1. \A k, l \in DOMAIN cmds' : cmds'[k].verb = "read" /\ cmds'[l].verb = "read" => k = l
    BY <1>2 DEF IndInv, TypeOK
  <2>2. QED
    BY <1>2, <2>1 DEF IndInv, TypeOK, device, watcher, view, history
<1>5. Loading'
  <2> SUFFICES ASSUME NEW k \in DOMAIN cmds', cmds'[k].verb = "read"
               PROVE  loading' /\ mounted' /\ (page # "games" => ~edited)
    BY <1>3 DEF Loading
  <2>1. f[k] \in DOMAIN cmds \ {i} /\ cmds[f[k]].verb = "read"
    BY <1>2
  <2>2. cmds[i].verb # "read"
    BY <2>1 DEF IndInv, TypeOK
  <2>3. QED
    BY <1>3, <2>1, <2>2 DEF IndInv, Loading
<1>6. ForClicks'
  <2> SUFFICES ASSUME NEW k \in DOMAIN cmds'
               PROVE  /\ IsWrite(f[k]) \/ IsPass(f[k]) => cmds[f[k]].click \in 1..Len(clicks)
                      /\ IsWrite(f[k]) =>
                            /\ ~host.fi /\ cmds[f[k]].data = clicks[cmds[f[k]].click].text
                            /\ cmds[f[k]].then = clicks[cmds[f[k]].click].by
                            /\ page # "rules" => saving' /\ cmds[f[k]].click = Len(clicks)
    BY <1>2, <1>3 DEF ForClicks
  <2>1. f[k] \in DOMAIN cmds \ {i}
    BY <1>2
  <2>2. page # "rules" /\ IsWrite(f[k]) => ~IsWrite(i)
    BY <2>1 DEF IndInv, Order, SingleWrite
  <2>3. QED
    BY <2>1, <2>2 DEF IndInv, Order, ForClicks
<1>7. SingleWrite' /\ ClickOrder'
  BY <1>2, <1>3 DEF IndInv, Order, SingleWrite, ClickOrder
<1>8. HostOrder'
  BY <1>2, <1>3 DEF IndInv, HostOrder
<1>9. Writes'
  BY <1>2, <1>3 DEF IndInv, Writes
<1>10. FileFollows'
  <2> SUFFICES ASSUME Calm PROVE FileFollows'
    BY <1>3 DEF FileFollows
  <2>1. ~IsWrite(i)
    BY DEF Calm
  <2>2. \A k \in DOMAIN cmds' : IsWrite(k)' /\ cmds'[k].st = "running" => file = Truncated
    BY <1>2 DEF IndInv, FileFollows
  <2>3. ASSUME \A k \in DOMAIN cmds' : IsWrite(k)' => ~Open(k)', clicks # <<>>
        PROVE  file = LastClick.text
    <3>1. \A j \in DOMAIN cmds : IsWrite(j) => ~Open(j)
      BY <1>2, <2>1, <2>3
    <3>2. QED
      BY <2>3, <3>1 DEF IndInv, FileFollows
  <2>4. ASSUME \E k \in DOMAIN cmds' : IsWrite(k)' /\ Open(k)'
        PROVE  \E k \in DOMAIN cmds' : IsWrite(k)' /\ Open(k)' /\ cmds'[k].click = Len(clicks)
    <3>1. \E j \in DOMAIN cmds : IsWrite(j) /\ Open(j)
      BY <1>2, <2>4
    <3>2. PICK j \in DOMAIN cmds : IsWrite(j) /\ Open(j) /\ cmds[j].click = Len(clicks)
      BY <3>1 DEF IndInv, FileFollows
    <3>3. PICK k \in DOMAIN cmds' : f[k] = j
      BY <1>2, <1>3, <3>2
    <3>4. QED
      BY <1>2, <3>2, <3>3
  <2>5. QED
    BY <1>3, <2>2, <2>3, <2>4 DEF FileFollows
<1>11. PassReady'
  <2> SUFFICES ASSUME host.ksu, host.serial, ~failed, NEW k \in DOMAIN cmds', IsPass(f[k]),
                      cmds[f[k]].st = "issued"
               PROVE  \/ DoesFor(f[k], file)
                      \/ page = "rules" /\ \E l \in DOMAIN cmds' : l < k /\ IsWrite(l)' /\ Open(l)'
    BY <1>2, <1>3 DEF PassReady
  <2>1. CASE DoesFor(f[k], file)
    BY <2>1
  <2>2. CASE ~DoesFor(f[k], file)
    <3>1. PICK j \in DOMAIN cmds : page = "rules" /\ j < f[k] /\ IsWrite(j) /\ Open(j)
      BY <1>2, <2>2 DEF IndInv, PassReady
    <3>2. PICK l \in DOMAIN cmds' : f[l] = j
      BY <1>2, <1>3, <3>1
    <3>3. QED
      BY <1>2, <3>1, <3>2
  <2>3. QED
    BY <2>1, <2>2
<1>12. PassRead'
  <2> SUFFICES ASSUME host.ksu, host.serial, ~failed, NEW k \in DOMAIN cmds', IsPass(f[k]),
                      cmds[f[k]].st # "issued"
               PROVE  DoesFor(f[k], cmds[f[k]].data)
    BY <1>2, <1>3 DEF PassRead, DoesFor
  <2>1. QED
    BY <1>2 DEF IndInv, PassRead
<1>13. AppliedFollows'
  <2> SUFFICES ASSUME host.ksu, host.serial, ~failed, clicks # <<>>, LastClick.by = "apply"
               PROVE  AppliedFollows'
    BY <1>3 DEF AppliedFollows
  <2>1. CASE \E j \in DOMAIN cmds : IsWrite(j) /\ cmds[j].click = Len(clicks)
    <3>1. PICK j \in DOMAIN cmds : IsWrite(j) /\ cmds[j].click = Len(clicks)
      BY <2>1
    <3>2. PICK k \in DOMAIN cmds' : f[k] = j
      BY <1>2, <3>1
    <3>3. IsWrite(k)' /\ cmds'[k].click = Len(clicks)'
      BY <1>2, <1>3, <3>1, <3>2
    <3>4. QED
      BY <3>3 DEF AppliedFollows
  <2>2. CASE \E j \in DOMAIN cmds : cmds[j].verb = "apply" /\ Open(j) /\ cmds[j].click = Len(clicks)
    <3>1. PICK j \in DOMAIN cmds : cmds[j].verb = "apply" /\ Open(j) /\ cmds[j].click = Len(clicks)
      BY <2>2
    <3>2. PICK k \in DOMAIN cmds' : f[k] = j
      BY <1>2, <1>3, <3>1
    <3>3. cmds'[k].verb = "apply" /\ Open(k)' /\ cmds'[k].click = Len(clicks)'
      BY <1>2, <1>3, <3>1, <3>2
    <3>4. QED
      BY <3>3 DEF AppliedFollows
  <2>3. CASE /\ AppliedLast
             /\ \A j \in DOMAIN cmds : ~IsWrite(j) /\ (IsPass(j) => ~Open(j))
    BY <1>2, <1>3, <2>3 DEF AppliedFollows
  <2>4. AppliedFollows
    BY DEF IndInv
  <2>5. QED
    BY <2>1, <2>2, <2>3, <2>4 DEF AppliedFollows
<1>14. ClashSeen'
  BY <1>2 DEF IndInv, ClashSeen, watcher
<1>16. QED
  BY <1>3, <1>4, <1>5, <1>6, <1>7, <1>8, <1>9, <1>10, <1>11, <1>12, <1>13, <1>14
     DEF IndInv, Order

\* The answer to a write that went well: its function goes on with a pass.
LEMMA SavedKeeps ==
    ASSUME IndInv, NEW i \in DOMAIN cmds, Answer(i, "write"), cmds[i].ok,
           cmds' = Append(RemoveAt(cmds, i), Command(cmds[i].then, "none", cmds[i].click, Absent)),
           saving' = FALSE,
           UNCHANGED <<host, page, device, watcher, shown, loading, error, view, history>>
    PROVE  IndInv'
<1> DEFINE pass == Command(cmds[i].then, "none", cmds[i].click, Absent)
<1>1. /\ cmds \in Seq(Commands) /\ RemoveAt(cmds, i) \in Seq(Commands)
      /\ cmds[i].st = "answered" /\ IsWrite(i) /\ ~Open(i) /\ ~IsPass(i)
      /\ host.serial => \A j \in DOMAIN cmds \ {i} : i < j
  <2>1. cmds \in Seq(Commands) /\ RemoveAt(cmds, i) \in Seq(Commands) /\ DOMAIN cmds = 1..Len(cmds)
    BY CommandsType, RemoveAtProperties DEF IndInv
  <2>2. host.serial => \A j \in DOMAIN cmds : i <= j
    BY DEF Answer, InTurn
  <2>3. QED
    BY <2>1, <2>2 DEF Answer, IsWrite, IsPass, Open
<1>2. /\ cmds[i].click \in 1..Len(clicks) /\ ~host.fi /\ Len(clicks) \in Nat /\ clicks # <<>>
      /\ cmds[i].then = clicks[cmds[i].click].by /\ cmds[i].then \in {"apply", "dryrun"}
      /\ page # "rules" => cmds[i].click = Len(clicks)
  BY <1>1, ClicksType DEF IndInv, Order, ForClicks, Click
<1>3. /\ pass \in Commands /\ pass.verb = cmds[i].then /\ pass.click = cmds[i].click
      /\ pass.st = "issued" /\ pass.ok = TRUE
  <2>1. cmds[i].then \in Verbs /\ cmds[i].click \in 0..MaxClicks /\ Absent \in FileTexts
    BY <1>2, CommandsType DEF IndInv, Commands, Verbs, FileTexts
  <2>2. QED
    BY <2>1, CommandType DEF Command
<1>4. PICK R \in Seq(Commands) : R = RemoveAt(cmds, i)
  BY <1>1
<1>5. PICK f : Left(R, cmds, i, f)
  BY <1>1, <1>4, RemoveAtLeaves
<1>6. PICK L : L = Len(R) + 1
  OBVIOUS
<1> HIDE DEF pass
<1>7. cmds' = Append(R, pass)
  BY <1>4 DEF pass
<1>8. /\ cmds' \in Seq(Commands) /\ DOMAIN cmds' = DOMAIN R \cup {L} /\ cmds'[L] = pass
      /\ \A k \in DOMAIN R : cmds'[k] = cmds[f[k]] /\ k < L /\ ~(L < k)
      /\ \A k, l \in DOMAIN R : (k < l <=> f[k] < f[l]) /\ (f[k] = f[l] => k = l)
      /\ \A k \in DOMAIN R : f[k] \in DOMAIN cmds \ {i}
      /\ \A j \in DOMAIN cmds \ {i} : \E k \in DOMAIN R : f[k] = j
      /\ L \in Nat
  <2>1. /\ cmds' \in Seq(Commands) /\ DOMAIN cmds' = DOMAIN R \cup {L} /\ cmds'[L] = pass
        /\ \A k \in DOMAIN R : cmds'[k] = R[k] /\ k < L
    BY <1>3, <1>4, <1>6, <1>7, AppendAtEnd
  <2>2. L \in Nat /\ DOMAIN R = 1..Len(R)
    BY <1>4, <1>6
  <2>3. \A k \in DOMAIN R : ~(L < k)
    BY <2>1, <2>2
  <2>4. QED
    BY <1>5, <2>1, <2>2, <2>3 DEF Left
<1>9. /\ UNCHANGED <<host, page, file, applied, clicks, edited, failed, loading, mounted>>
      /\ LastClick' = LastClick /\ (Calm' <=> Calm)
  BY DEF device, history, view, LastClick, Calm
<1>10. /\ IsPass(L)' /\ ~IsWrite(L)' /\ Open(L)' /\ cmds'[L].st = "issued"
       /\ cmds'[L].verb = cmds[i].then /\ cmds'[L].click = cmds[i].click
       /\ \A k \in DOMAIN R : /\ k # L
                              /\ IsWrite(k)' <=> IsWrite(f[k])
                              /\ IsPass(k)' <=> IsPass(f[k])
                              /\ Open(k)' <=> Open(f[k])
  <2>1. \A k \in DOMAIN R : k # L
    BY <1>4, <1>6, <1>8
  <2>2. QED
    BY <1>2, <1>3, <1>8, <2>1 DEF IsWrite, IsPass, Open
<1>11. \A k \in DOMAIN R : \A t : DoesFor(k, t)' <=> DoesFor(f[k], t)
  BY <1>8, <1>9 DEF DoesFor
<1>12. TypeOK'
  <2>1. cmds'[L].verb # "read"
    BY <1>2, <1>10
  <2>2. ASSUME NEW k \in DOMAIN R, NEW l \in DOMAIN R,
               cmds'[k].verb = "read", cmds'[l].verb = "read"
        PROVE  k = l
    <3>1. cmds[f[k]].verb = "read" /\ cmds[f[l]].verb = "read"
      BY <1>8, <2>2
    <3>2. f[k] = f[l]
      BY <1>8, <3>1 DEF IndInv, TypeOK
    <3>3. QED
      BY <1>8, <3>2
  <2>3. QED
    BY <1>8, <2>1, <2>2 DEF IndInv, TypeOK, device, watcher, view, history
<1>13. Loading'
  BY <1>2, <1>8, <1>9, <1>10 DEF IndInv, Loading
<1>14. ForClicks'
  <2> SUFFICES ASSUME NEW k \in DOMAIN cmds'
               PROVE  /\ IsWrite(k)' \/ IsPass(k)' => cmds'[k].click \in 1..Len(clicks)
                      /\ IsWrite(k)' =>
                            /\ ~host.fi /\ cmds'[k].data = clicks[cmds'[k].click].text
                            /\ cmds'[k].then = clicks[cmds'[k].click].by
                            /\ page # "rules" => saving' /\ cmds'[k].click = Len(clicks)
    BY <1>9 DEF ForClicks
  <2>1. CASE k = L
    BY <1>2, <1>10, <2>1
  <2>2. CASE k # L
    <3>1. k \in DOMAIN R
      BY <1>8, <2>2
    <3>2. IsWrite(f[k]) => page = "rules"
      BY <1>1, <1>8, <3>1 DEF IndInv, Order, SingleWrite
    <3>3. QED
      BY <1>8, <1>10, <3>1, <3>2 DEF IndInv, Order, ForClicks
  <2>3. QED
    BY <2>1, <2>2
<1>15. SingleWrite'
  <2>1. page # "rules" => \A k \in DOMAIN cmds' : ~IsWrite(k)'
    BY <1>1, <1>8, <1>10 DEF IndInv, Order, SingleWrite
  <2>2. QED
    BY <1>9, <2>1 DEF SingleWrite
<1>16. ClickOrder'
  <2> SUFFICES ASSUME host.serial, NEW j \in DOMAIN cmds', NEW k \in DOMAIN cmds'
               PROVE  /\ j < k /\ ((IsWrite(j)' /\ IsWrite(k)') \/ (IsPass(j)' /\ IsPass(k)')) =>
                            cmds'[j].click < cmds'[k].click
                      /\ IsPass(j)' /\ IsWrite(k)' => cmds'[j].click < cmds'[k].click
    BY <1>9 DEF ClickOrder
  <2>1. CASE j \in DOMAIN R /\ k \in DOMAIN R
    <3>1. ClickOrder
      BY DEF IndInv, Order
    <3>2. /\ f[j] \in DOMAIN cmds /\ f[k] \in DOMAIN cmds /\ (j < k <=> f[j] < f[k])
          /\ cmds'[j] = cmds[f[j]] /\ cmds'[k] = cmds[f[k]]
      BY <1>8, <2>1
    <3>3. QED
      BY <1>10, <2>1, <3>1, <3>2 DEF ClickOrder
  <2>2. CASE j \in DOMAIN R /\ k = L
    BY <1>1, <1>8, <1>10, <2>2 DEF IndInv, Order, ClickOrder
  <2>3. CASE j = L /\ k \in DOMAIN R
    BY <1>1, <1>8, <1>10, <2>3 DEF IndInv, Order, ClickOrder
  <2>4. CASE j = L /\ k = L
    BY <1>8, <1>10, <2>4
  <2>5. QED
    BY <1>8, <2>1, <2>2, <2>3, <2>4
<1>17. HostOrder'
  <2> SUFFICES ASSUME host.serial, NEW j \in DOMAIN cmds', NEW k \in DOMAIN cmds',
                      j < k, cmds'[k].st # "issued"
               PROVE  ~Open(j)'
    BY <1>9 DEF HostOrder
  <2>1. k \in DOMAIN R /\ j \in DOMAIN R
    BY <1>8, <1>10
  <2>2. QED
    BY <1>8, <1>10, <2>1 DEF IndInv, HostOrder
<1>18. Writes'
  BY <1>8, <1>9, <1>10 DEF IndInv, Writes
<1>19. Calm => /\ (\A j \in DOMAIN cmds : IsWrite(j) => ~Open(j)) => file = LastClick.text
               /\ (\E j \in DOMAIN cmds : IsWrite(j) /\ Open(j)) =>
                     \E l \in DOMAIN R : IsWrite(l)' /\ Open(l)' /\ cmds'[l].click = Len(clicks)
  <2> SUFFICES ASSUME Calm, \E j \in DOMAIN cmds : IsWrite(j) /\ Open(j)
               PROVE  \E l \in DOMAIN R : IsWrite(l)' /\ Open(l)' /\ cmds'[l].click = Len(clicks)
    BY <1>2 DEF IndInv, FileFollows
  <2>1. PICK j \in DOMAIN cmds : IsWrite(j) /\ Open(j) /\ cmds[j].click = Len(clicks)
    BY DEF IndInv, FileFollows
  <2>2. PICK l \in DOMAIN R : f[l] = j
    BY <1>1, <1>8, <2>1
  <2>3. QED
    BY <1>8, <1>10, <2>1, <2>2
<1>20. FileFollows'
  <2> SUFFICES ASSUME Calm PROVE FileFollows'
    BY <1>9 DEF FileFollows
  <2>1. \A k \in DOMAIN cmds' : IsWrite(k)' /\ cmds'[k].st = "running" => file = Truncated
    BY <1>8, <1>10 DEF IndInv, FileFollows
  <2>2. (\A k \in DOMAIN cmds' : IsWrite(k)' => ~Open(k)') => file = LastClick.text
    BY <1>8, <1>19
  <2>3. (\E k \in DOMAIN cmds' : IsWrite(k)' /\ Open(k)') =>
           \E k \in DOMAIN cmds' : IsWrite(k)' /\ Open(k)' /\ cmds'[k].click = Len(clicks)
    BY <1>8, <1>10, <1>19
  <2>4. QED
    BY <1>9, <2>1, <2>2, <2>3 DEF FileFollows
<1>21. PassReady'
  <2> SUFFICES ASSUME host.ksu, host.serial, ~failed, NEW k \in DOMAIN cmds', IsPass(k)',
                      cmds'[k].st = "issued"
               PROVE  \/ DoesFor(k, file)'
                      \/ page = "rules" /\ \E l \in DOMAIN cmds' : l < k /\ IsWrite(l)' /\ Open(l)'
    BY <1>9 DEF PassReady
  <2>1. CASE k = L
    <3>1. Calm
      BY DEF Calm
    <3>2. CASE \E j \in DOMAIN cmds : IsWrite(j) /\ Open(j)
      <4>1. page = "rules"
        BY <1>1, <3>2 DEF IndInv, Order, SingleWrite
      <4>2. PICK l \in DOMAIN R : IsWrite(l)' /\ Open(l)'
        BY <1>19, <3>1, <3>2
      <4>3. QED
        BY <1>8, <2>1, <4>1, <4>2
    <3>3. CASE \A j \in DOMAIN cmds : IsWrite(j) => ~Open(j)
      <4>1. file = clicks[Len(clicks)].text
        BY <1>19, <3>1, <3>3 DEF LastClick
      <4>2. Len(clicks) \in cmds'[k].click..Len(clicks)
            /\ (Len(clicks) = cmds'[k].click \/ page = "rules")
        BY <1>2, <1>10, <2>1
      <4>3. QED
        BY <1>9, <4>1, <4>2 DEF DoesFor
    <3>4. QED
      BY <3>2, <3>3
  <2>2. CASE k # L
    <3>1. k \in DOMAIN R /\ IsPass(f[k]) /\ cmds[f[k]].st = "issued" /\ f[k] \in DOMAIN cmds
      BY <1>8, <1>10, <2>2
    <3>2. CASE DoesFor(f[k], file)
      BY <1>9, <1>11, <3>1, <3>2
    <3>3. CASE ~DoesFor(f[k], file)
      <4>1. PICK j \in DOMAIN cmds : page = "rules" /\ j < f[k] /\ IsWrite(j) /\ Open(j)
        BY <3>1, <3>3 DEF IndInv, PassReady
      <4>2. PICK l \in DOMAIN R : f[l] = j
        BY <1>1, <1>8, <4>1
      <4>3. QED
        BY <1>8, <1>10, <3>1, <4>1, <4>2
    <3>4. QED
      BY <3>2, <3>3
  <2>3. QED
    BY <2>1, <2>2
<1>22. PassRead'
  <2> SUFFICES ASSUME host.ksu, host.serial, ~failed, NEW k \in DOMAIN cmds', IsPass(k)',
                      cmds'[k].st # "issued", NEW t, t = cmds'[k].data
               PROVE  DoesFor(k, t)'
    BY <1>9 DEF PassRead, DoesFor
  <2>1. k \in DOMAIN R /\ IsPass(f[k]) /\ cmds[f[k]].st # "issued" /\ f[k] \in DOMAIN cmds
        /\ t = cmds[f[k]].data
    BY <1>8, <1>10
  <2>2. DoesFor(f[k], t)
    BY <2>1 DEF IndInv, PassRead
  <2>3. QED
    BY <1>11, <2>1, <2>2
<1>23. AppliedFollows'
  <2> SUFFICES ASSUME host.ksu, host.serial, ~failed, LastClick.by = "apply"
               PROVE  AppliedFollows'
    BY <1>9 DEF AppliedFollows
  <2>1. CASE cmds[i].click = Len(clicks)
    <3>1. cmds'[L].verb = "apply" /\ Open(L)' /\ cmds'[L].click = Len(clicks)' /\ L \in DOMAIN cmds'
      BY <1>2, <1>8, <1>9, <1>10, <2>1 DEF LastClick
    <3>2. QED
      BY <3>1 DEF AppliedFollows
  <2>2. CASE cmds[i].click # Len(clicks)
    <3>1. PICK j \in DOMAIN cmds : /\ cmds[j].click = Len(clicks)
                                   /\ IsWrite(j) \/ (cmds[j].verb = "apply" /\ Open(j))
      BY <1>1, <1>2 DEF IndInv, AppliedFollows
    <3>2. PICK k \in DOMAIN R : f[k] = j
      BY <1>8, <2>2, <3>1
    <3>3. /\ k \in DOMAIN cmds' /\ cmds'[k].click = Len(clicks)'
          /\ IsWrite(k)' \/ (cmds'[k].verb = "apply" /\ Open(k)')
      BY <1>8, <1>9, <1>10, <3>1, <3>2
    <3>4. QED
      BY <3>3 DEF AppliedFollows
  <2>3. QED
    BY <2>1, <2>2
<1>24. WatchSees'
  BY <1>9 DEF IndInv, WatchSees, device, watcher
<1>25. ClashSeen'
  BY <1>8, <1>10 DEF IndInv, ClashSeen, watcher
<1>26. QED
  BY <1>12, <1>13, <1>14, <1>15, <1>16, <1>17, <1>18, <1>20, <1>21, <1>22, <1>23, <1>24,
     <1>25 DEF IndInv, Order

-----------------------------------------------------------------------------
(* The steps that leave the commands alone, and the load.                  *)

\* An edit, the closed preview, a load from the file interface, and the watcher, which
\* applies the text of the last click if it applies any.
LEMMA StillKeeps ==
    ASSUME IndInv, TypeOK', Loading', WatchSees', ClashSeen',
           file \in Texts /\ file = LastClick.text /\ AppliedLast => AppliedLast',
           UNCHANGED <<host, page, file, cmds, saving, clicks, failed>>
    PROVE  IndInv'
<1>1. /\ LastClick' = LastClick /\ (Calm' <=> Calm)
      /\ \A i \in DOMAIN cmds : /\ IsWrite(i)' <=> IsWrite(i)
                                /\ IsPass(i)' <=> IsPass(i)
                                /\ Open(i)' <=> Open(i)
                                /\ \A t : DoesFor(i, t)' <=> DoesFor(i, t)
  BY DEF LastClick, Calm, IsWrite, IsPass, Open, DoesFor
<1>2. Order' /\ HostOrder' /\ Writes'
  BY <1>1 DEF IndInv, Order, ForClicks, SingleWrite, ClickOrder, HostOrder, Writes
<1>3. FileFollows'
  BY <1>1 DEF IndInv, FileFollows
<1>4. PassReady' /\ PassRead'
  <2>1. PassReady'
    BY <1>1 DEF IndInv, PassReady
  <2>2. PassRead'
    BY DEF IndInv, PassRead, DoesFor, IsPass
  <2>3. QED
    BY <2>1, <2>2
<1>5. AppliedFollows'
  <2> SUFFICES ASSUME host.ksu, host.serial, ~failed, clicks # <<>>, LastClick.by = "apply",
                      AppliedLast,
                      \A i \in DOMAIN cmds : ~IsWrite(i) /\ (IsPass(i) => ~Open(i))
               PROVE  AppliedLast'
    BY <1>1 DEF IndInv, AppliedFollows
  <2>1. file = LastClick.text
    BY DEF IndInv, FileFollows, Calm
  <2>2. LastClick.text \in Texts
    BY ClicksType DEF IndInv, LastClick, Click
  <2>3. QED
    BY <2>1, <2>2
<1>6. QED
  BY <1>2, <1>3, <1>4, <1>5 DEF IndInv

LEMMA PageAloneKeeps ==
    ASSUME IndInv, TypeOK', Loading',
           UNCHANGED <<host, page, device, watcher, cmds, saving, clicks, failed>>
    PROVE  IndInv'
<1>1. WatchSees' /\ ClashSeen'
  BY DEF IndInv, WatchSees, ClashSeen, device, watcher
<1>2. AppliedLast => AppliedLast'
  BY DEF AppliedLast, LastClick, device, watcher
<1>3. QED
  BY <1>1, <1>2, StillKeeps DEF device

LEMMA WatchLoadsKeeps ==
    ASSUME IndInv, WatchLoads
    PROVE  IndInv'
<1>1. /\ UNCHANGED <<host, page, file, applied, watched, store, view, cmds, history>>
      /\ dirty /\ dirty' = FALSE /\ watchPass = Absent
      /\ \/ watchPass' = IF file \in Texts THEN file ELSE Absent
         \/ page = "rules" /\ watchPass' = Absent
      /\ clashed' = (clashed \/ (watchPass' # Absent /\ AppliesOther(file)))
  BY DEF WatchLoads
<1>2. TypeOK' /\ Loading'
  BY <1>1 DEF store, view, history, IndInv, TypeOK, Loading
<1>3. WatchSees'
  BY <1>1, PageAssumption DEF IndInv, WatchSees
<1>4. ClashSeen'
  <2> SUFFICES ASSUME NEW i \in DOMAIN cmds, cmds[i].verb = "apply", cmds[i].st = "running",
                      watchPass' \notin {Absent, cmds[i].data}
               PROVE  clashed'
    BY <1>1 DEF ClashSeen
  <2>1. cmds[i].data # file
    BY <1>1
  <2>2. QED
    BY <1>1, <2>1 DEF AppliesOther
<1>5. ASSUME file \in Texts, file = LastClick.text, AppliedLast PROVE AppliedLast'
  BY <1>1, <1>5 DEF AppliedLast, LastClick, history
<1>6. QED
  BY <1>1, <1>2, <1>3, <1>4, <1>5, StillKeeps DEF store, history

LEMMA WatchAppliesKeeps ==
    ASSUME IndInv, WatchApplies
    PROVE  IndInv'
<1>1. /\ UNCHANGED <<host, page, file, dirty, watched, clashed, store, view, cmds, history>>
      /\ watchPass # Absent /\ applied' = watchPass /\ watchPass' = Absent
  BY DEF WatchApplies
<1>2. TypeOK' /\ Loading'
  <2>1. applied' \in FileTexts /\ watchPass' \in Texts \cup {Absent}
    BY <1>1 DEF IndInv, TypeOK, FileTexts
  <2>2. QED
    BY <1>1, <2>1 DEF store, view, history, IndInv, TypeOK, Loading
<1>3. WatchSees' /\ ClashSeen'
  BY <1>1, PageAssumption DEF IndInv, WatchSees, ClashSeen
<1>4. AppliedLast => AppliedLast'
  BY <1>1 DEF AppliedLast, LastClick, history
<1>5. QED
  BY <1>1, <1>2, <1>3, <1>4, StillKeeps DEF store, history

\* A load shows a text, or none.
LEMMA ShowsAText ==
    ASSUME NEW text, NEW ok \in BOOLEAN, Shows(text, ok), TypeOK
    PROVE  shown' \in Texts /\ error' \in BOOLEAN /\ loading' = FALSE
<1>1. Defaults \in Texts
  BY PageAssumption
<1>2. shown \in Texts
  BY DEF TypeOK
<1>3. QED
  BY <1>1, <1>2 DEF Shows, Decoded

LEMMA MountKeeps ==
    ASSUME IndInv, Mount
    PROVE  IndInv'
<1>1. \A i \in DOMAIN cmds : cmds[i].verb # "read"
  BY DEF IndInv, Loading, Mount, FirstVisit
<1>2. UNCHANGED <<host, page, file, dirty, applied, watched, watchPass, clashed, saving, preview,
                  clicks, failed>>
      /\ mounted' = TRUE /\ edited' = FALSE
  BY DEF Mount, device, watcher
<1>3. CASE FilesVia(host) = "interface"
  <2>1. shown' \in Texts /\ error' \in BOOLEAN /\ loading' = FALSE /\ cmds' = cmds
    <3>1. Shows(file, file # Absent) /\ cmds' = cmds
      BY <1>3 DEF Mount
    <3>2. QED
      BY <3>1, ShowsAText DEF IndInv
  <2>2. TypeOK'
    BY <1>2, <2>1 DEF IndInv, TypeOK
  <2>3. Loading'
    BY <1>1, <2>1 DEF Loading
  <2>4. QED
    BY <1>2, <2>1, <2>2, <2>3, PageAloneKeeps DEF device, watcher
<1>4. CASE FilesVia(host) # "interface"
  <2> DEFINE load == Command("read", "none", 0, Absent)
  <2>1. cmds' = Append(cmds, load) /\ loading' = TRUE /\ error' = FALSE /\ shown' = shown
    BY <1>4 DEF Mount
  <2>2. load \in Commands /\ load.verb = "read" /\ load.st = "issued"
    <3>1. 0 \in 0..MaxClicks /\ "read" \in Verbs /\ Absent \in FileTexts
      BY PageAssumption DEF Verbs, FileTexts
    <3>2. QED
      BY <3>1, CommandType DEF Command
  <2>3. PICK L : L = Len(cmds) + 1
    OBVIOUS
  <2> HIDE DEF load
  <2>4. cmds \in Seq(Commands) /\ Len(cmds) \in Nat /\ DOMAIN cmds = 1..Len(cmds)
    BY CommandsType DEF IndInv
  <2>5. /\ cmds' \in Seq(Commands) /\ DOMAIN cmds' = DOMAIN cmds \cup {L} /\ cmds'[L] = load
        /\ \A j \in DOMAIN cmds : cmds'[j] = cmds[j] /\ j < L /\ ~(L < j) /\ j # L
    <3>1. /\ cmds' \in Seq(Commands) /\ DOMAIN cmds' = DOMAIN cmds \cup {L} /\ cmds'[L] = load
          /\ \A j \in DOMAIN cmds : cmds'[j] = cmds[j] /\ j < L
      BY <2>1, <2>2, <2>3, <2>4, AppendAtEnd
    <3>2. QED
      BY <3>1, <2>3, <2>4
  <2>6. /\ LastClick' = LastClick /\ (Calm' <=> Calm)
        /\ cmds'[L].verb = "read" /\ cmds'[L].st = "issued" /\ ~IsWrite(L)' /\ ~IsPass(L)'
        /\ \A j \in DOMAIN cmds : /\ IsWrite(j)' <=> IsWrite(j)
                                  /\ IsPass(j)' <=> IsPass(j)
                                  /\ Open(j)' <=> Open(j)
                                  /\ \A t : DoesFor(j, t)' <=> DoesFor(j, t)
    BY <1>2, <2>2, <2>5 DEF LastClick, Calm, IsWrite, IsPass, Open, DoesFor
  <2>7. TypeOK'
    <3>1. \A i, j \in DOMAIN cmds' : cmds'[i].verb = "read" /\ cmds'[j].verb = "read" => i = j
      BY <1>1, <2>5
    <3>2. QED
      BY <1>2, <2>1, <2>5, <3>1 DEF IndInv, TypeOK
  <2>8. Loading'
    BY <1>2, <2>1 DEF Loading
  <2>9. ForClicks' /\ SingleWrite'
    BY <1>2, <2>5, <2>6 DEF IndInv, Order, ForClicks, SingleWrite
  <2>10. ClickOrder'
    BY <1>2, <2>5, <2>6 DEF IndInv, Order, ClickOrder
  <2>11. HostOrder' /\ Writes'
    BY <1>2, <2>5, <2>6 DEF IndInv, HostOrder, Writes
  <2>12. FileFollows'
    BY <1>2, <2>5, <2>6 DEF IndInv, FileFollows
  <2>13. PassReady'
    BY <1>2, <2>5, <2>6 DEF IndInv, PassReady
  <2>14. PassRead'
    <3> SUFFICES ASSUME host.ksu, host.serial, ~failed, NEW k \in DOMAIN cmds, IsPass(k),
                        cmds[k].st # "issued", NEW t, t = cmds'[k].data
                 PROVE  DoesFor(k, t)'
      BY <1>2, <2>5, <2>6 DEF PassRead, DoesFor
    <3>1. DoesFor(k, t)
      BY <2>5 DEF IndInv, PassRead
    <3>2. QED
      BY <2>6, <3>1
  <2>15. AppliedFollows'
    <3>1. AppliedLast' <=> AppliedLast
      BY <1>2, <2>6 DEF AppliedLast
    <3>2. QED
      BY <1>2, <2>5, <2>6, <3>1 DEF IndInv, AppliedFollows
  <2>16. WatchSees' /\ ClashSeen'
    BY <1>2, <2>5, <2>6 DEF IndInv, WatchSees, ClashSeen
  <2>17. QED
    BY <2>7, <2>8, <2>9, <2>10, <2>11, <2>12, <2>13, <2>14, <2>15, <2>16 DEF IndInv, Order
<1>5. QED
  BY <1>3, <1>4

-----------------------------------------------------------------------------
(* The theorems.                                                           *)

LEMMA IndInit ==
    ASSUME Init
    PROVE  IndInv
<1>1. cmds = <<>> /\ clicks = <<>> /\ DOMAIN cmds = {} /\ Len(clicks) = 0
  BY DEF Init
<1>2. TypeOK
  <2>1. shown \in Texts /\ MaxClicks \in Nat
    BY PageAssumption DEF Init
  <2>2. file \in FileTexts /\ applied \in FileTexts
    BY DEF Init, FileTexts
  <2>3. cmds \in Seq(Commands) /\ clicks \in Seq([text : Texts, by : {"apply", "dryrun"}])
        /\ Len(clicks) <= MaxClicks
    BY <1>1, <2>1
  <2>4. watched \in BOOLEAN
    BY DEF Init, isLive, isKSU, isWebUIX, Hosts
  <2>5. QED
    BY <1>1, <2>1, <2>2, <2>3, <2>4 DEF Init, TypeOK
<1>3. WatchSees /\ ClashSeen
  <2>1. watched => FilesVia(host) # "mock"
    BY DEF Init, isLive, isKSU, isWebUIX, Hosts, FilesVia
  <2>2. QED
    BY <1>1, <2>1, PageAssumption DEF Init, WatchSees, ClashSeen
<1>4. QED
  BY <1>1, <1>2, <1>3 DEF IndInv, Loading, Order, ForClicks, SingleWrite, ClickOrder, HostOrder, Writes,
                    FileFollows, PassReady, PassRead, AppliedFollows

LEMMA IndStep ==
    ASSUME IndInv, [Next]_vars
    PROVE  IndInv'
<1>1. CASE UNCHANGED vars
  <2>1. TypeOK' /\ Loading'
    BY <1>1 DEF vars, device, watcher, store, view, history, IndInv, TypeOK, Loading
  <2>2. QED
    BY <1>1, <2>1, PageAloneKeeps DEF vars, store, history
<1>2. CASE Mount
  BY <1>2, MountKeeps
<1>3. CASE Edit
  <2>1. /\ shown' \in Texts /\ edited' = TRUE
        /\ UNCHANGED <<host, page, device, watcher, loading, error, saving, mounted, preview, cmds,
                       clicks, failed>>
    BY <1>3 DEF Edit, view
  <2>2. TypeOK'
    BY <2>1 DEF IndInv, TypeOK, device, watcher
  <2>3. Loading'
    BY <1>3, <2>1 DEF IndInv, Loading, Edit, ListShown
  <2>4. QED
    BY <2>1, <2>2, <2>3, PageAloneKeeps
<1>4. CASE ClickApply
  <2>1. SavesFirst("apply") /\ ~saving /\ preview' = preview
        /\ UNCHANGED <<host, page, applied, watcher, shown, loading, error, mounted, edited>>
    BY <1>4 DEF ClickApply, ApplyEnabled, view
  <2>2. preview' \in BOOLEAN
    BY <2>1 DEF IndInv, TypeOK
  <2>3. QED
    BY <2>1, <2>2, ClickKeeps
<1>5. CASE ClickPreview
  <2>1. SavesFirst("dryrun") /\ page = "rules" /\ preview' \in BOOLEAN
        /\ UNCHANGED <<host, page, applied, watcher, shown, loading, error, mounted, edited>>
    BY <1>5 DEF ClickPreview
  <2>2. QED
    BY <2>1, ClickKeeps
<1>6. CASE ClosePreview
  <2>1. /\ preview' \in BOOLEAN
        /\ UNCHANGED <<host, page, device, watcher, store, mounted, cmds, history>>
    BY <1>6 DEF ClosePreview
  <2>2. TypeOK' /\ Loading'
    BY <2>1 DEF device, watcher, store, history, IndInv, TypeOK, Loading
  <2>3. QED
    BY <2>1, <2>2, PageAloneKeeps DEF store, history
<1>7. CASE WatchLoads \/ WatchApplies
  BY <1>7, WatchLoadsKeeps, WatchAppliesKeeps
<1>8. ASSUME NEW i \in DOMAIN cmds, Run(i) PROVE IndInv'
  BY <1>8, RunKeeps
<1>9. ASSUME NEW i \in DOMAIN cmds, Continue(i) PROVE IndInv'
  <2>1. /\ cmds[i] \in Commands /\ cmds[i].st = "answered"
        /\ UNCHANGED <<host, page, device, watcher, history>>
    BY <1>9, CommandsType DEF IndInv, Continue, Loaded, Saved, Told, Answer
  <2>2. CASE Loaded(i)
    <3>1. /\ cmds[i].verb = "read" /\ cmds' = RemoveAt(cmds, i) /\ Shows(cmds[i].data, cmds[i].ok)
          /\ UNCHANGED <<saving, view>> /\ cmds[i].ok \in BOOLEAN
      BY <2>1, <2>2 DEF Loaded, Answer, Commands
    <3>2. /\ shown' \in Texts /\ error' \in BOOLEAN /\ loading' \in BOOLEAN
          /\ saving' \in BOOLEAN
      BY <3>1, ShowsAText DEF IndInv, TypeOK
    <3>3. QED
      BY <2>1, <3>1, <3>2, RemovedKeeps DEF IsWrite
  <2>3. CASE Saved(i)
    <3>1. /\ IsWrite(i) /\ saving' = FALSE /\ Answer(i, "write")
          /\ UNCHANGED <<shown, loading, error, view>>
      BY <2>3 DEF Saved, SavingAfter, Answer, IsWrite
    <3>2. CASE cmds[i].ok /\ cmds[i].then # "none"
      <4>1. cmds' = Append(RemoveAt(cmds, i), Command(cmds[i].then, "none", cmds[i].click, Absent))
        BY <2>3, <3>2 DEF Saved
      <4>2. QED
        BY <2>1, <3>1, <3>2, <4>1, SavedKeeps
    <3>3. CASE ~(cmds[i].ok /\ cmds[i].then # "none")
      <4>1. cmds' = RemoveAt(cmds, i)
        BY <2>3, <3>3 DEF Saved
      <4>2. cmds[i].then # "none"
        BY <3>1, ClicksType DEF IndInv, Order, ForClicks, Click
      <4>3. failed
        BY <3>1, <3>3, <4>2 DEF IndInv, Writes
      <4>4. /\ shown' \in Texts /\ error' \in BOOLEAN /\ loading' \in BOOLEAN
            /\ saving' \in BOOLEAN
        BY <3>1 DEF IndInv, TypeOK
      <4>5. QED
        BY <2>1, <3>1, <4>1, <4>3, <4>4, RemovedKeeps
    <3>4. QED
      BY <3>2, <3>3
  <2>4. CASE Told(i)
    <3>1. /\ ~IsWrite(i) /\ cmds' = RemoveAt(cmds, i) /\ UNCHANGED <<store, view>>
      BY <2>4 DEF Told, Answer, IsWrite
    <3>2. /\ shown' \in Texts /\ error' \in BOOLEAN /\ loading' \in BOOLEAN
          /\ saving' \in BOOLEAN /\ UNCHANGED <<saving, loading>>
      BY <3>1 DEF store, IndInv, TypeOK
    <3>3. QED
      BY <2>1, <3>1, <3>2, RemovedKeeps
  <2>5. QED
    BY <1>9, <2>2, <2>3, <2>4 DEF Continue
<1>10. QED
  BY <1>1, <1>2, <1>3, <1>4, <1>5, <1>6, <1>7, <1>8, <1>9 DEF Next, User, System

\* The page keeps its books: types, the order of the clicks, what is to come of them, and
\* what the watcher knows of the file while it applies an older text (saveAndApply,
\* previewDryRun, yay_watch's spawn_apply).  Little of that is said of hosts that run
\* commands at once, or once a command failed.
THEOREM Inductive == Spec => []IndInv
BY IndInit, IndStep, PTL DEF Spec

\* Every variable has its type, and a page has at most one load in flight (load() is
\* called by onMounted only).
THEOREM TypeCorrect == Spec => []TypeOK
BY Inductive, PTL DEF IndInv

\* With window.ksu, commands run in order and nothing failed so far, what yay_apply reads
\* for a click on Apply or Preview is what the page showed at that click, or at a later
\* one on the rules page and with a file interface (saveAndApply, previewDryRun).  Of
\* other hosts, and after a failure, it says nothing.
THEOREM ClickIsApplied == Spec => []AppliesTheClick
<1>1. IndInv => AppliesTheClick
  BY DEF IndInv, PassRead, AppliesTheClick, IsPass, DoesFor
<1>2. QED
  BY <1>1, Inductive, PTL

\* When all is answered and nothing failed, the file holds the lists as they were at the
\* last click, and with window.ksu and commands in order they are what is applied if it
\* was on Apply, unless a pass of the watcher clashed with the page's: then the watcher
\* has yet to apply them, or, on the rules page, the hash cache may stop it
\* (saveAndApply; yay_watch, whose MAPPINGS has the files of all three pages).
THEOREM LastClickIsLast == Spec => []LastClickWins
<1>1. IndInv => LastClickWins
  <2> SUFFICES ASSUME IndInv, cmds = <<>>, clicks # <<>>, ~failed
               PROVE  /\ host.serial \/ page # "rules" => file = LastClick.text
                      /\ host.ksu /\ host.serial /\ LastClick.by = "apply" => AppliedLast
    BY DEF LastClickWins, LastClick, AppliedLast
  <2>1. DOMAIN cmds = {}
    OBVIOUS
  <2>2. QED
    BY <2>1 DEF IndInv, FileFollows, AppliedFollows, Calm
<1>2. QED
  BY <1>1, Inductive, PTL

\* Only a mounted view is edited.
LEMMA MountedFirst == Spec => [](edited => mounted)
<1>1. Init => (edited => mounted)
  BY DEF Init
<1>2. (edited => mounted) /\ [Next]_vars => (edited => mounted)'
  <2> SUFFICES ASSUME edited => mounted, [Next]_vars, edited' PROVE mounted'
    OBVIOUS
  <2>1. CASE UNCHANGED vars
    BY <2>1 DEF vars, view, history
  <2>2. CASE User
    BY <2>2 DEF User, Mount, Edit, Reachable, ClickApply, ClickPreview, ClosePreview, view, history
  <2>3. CASE System
    BY <2>3 DEF System, WatchLoads, WatchApplies, Run, Continue, Loaded, Saved, Told, view, history
  <2>4. QED
    BY <2>1, <2>2, <2>3 DEF Next
<1>3. QED
  BY <1>1, <1>2, PTL DEF Spec

\* The answer to a load never overwrites an edit (load(), onMounted): once the lists of the
\* rules or I/O page were edited, only a further edit changes them.
THEOREM EditsAreKept == Spec => LoadKeepsEdits
<1> DEFINE Kept == page # "games" /\ edited /\ shown' # shown => edited' /\ cmds' = cmds
<1>1. IndInv /\ (edited => mounted) /\ [Next]_vars => [Kept]_vars
  <2> SUFFICES ASSUME IndInv, mounted, Next, page # "games", edited, shown' # shown
               PROVE  edited' /\ cmds' = cmds
    BY DEF vars, store
  <2>1. CASE Edit
    BY <2>1 DEF Edit
  <2>2. ASSUME NEW i \in DOMAIN cmds, Continue(i) PROVE FALSE
    <3>1. Loaded(i)
      BY <2>2 DEF Continue, Saved, Told, store
    <3>2. QED
      BY <3>1 DEF Loaded, Answer, IndInv, Loading
  <2>3. QED
    BY <2>1, <2>2 DEF Next, User, System, Mount, FirstVisit, ClickApply, ClickPreview,
                      ClosePreview, WatchLoads, WatchApplies, Run, store
<1>2. QED
  BY <1>1, Inductive, MountedFirst, PTL DEF Spec, LoadKeepsEdits

===============================================================================
