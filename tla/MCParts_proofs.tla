---------------------------- MODULE MCParts_proofs ----------------------------
(***************************************************************************)
(* The lists, the form of a game and the mirroring thread, and the parts   *)
(* together: what holds of each part for itself holds of it among the      *)
(* others, and every variable has its type.                                *)
(***************************************************************************)
EXTENDS MCParts, Pages_proofs

-----------------------------------------------------------------------------
(* The form of a game.                                                     *)

GameInv ==
    /\ GameTypeOK
    /\ editing = "open" => draft.downscale # "unset"
    /\ quiet => saved.downscale \in {"grid", "disable"} /\ unsafeLogDirs(saved) = {}
    /\ QuietGameIsApplied

\* What the form does not warn of, the engine does not refuse.
LEMMA SafeIsPurged ==
    ASSUME NEW d \in Dirs, isSafePurgeTarget(d)
    PROVE  is_safe_purge_target(d) /\ d.segs[1] = "p"
<1>1. PICK n \in 1..MaxSegments : d.segs \in [1..n -> Segments]
  BY DEF Dirs
<1>2. 1 \in DOMAIN d.segs /\ d.segs[1] = "p"
  BY <1>1, GameFormAssumption DEF isSafePurgeTarget
<1>3. path_contains_segment(d)
  BY <1>2 DEF path_contains_segment
<1>4. QED
  BY <1>2, <1>3 DEF isSafePurgeTarget, is_safe_purge_target

LEMMA GameTypes ==
    ASSUME GameTypeOK
    PROVE  /\ draft \in Games /\ saved \in Games
           /\ saved.downscale \in Downscales /\ saved.cleanup_logs \in BOOLEAN
           /\ saved.log_dirs \in DirLines /\ saved.log_dirs \subseteq Dirs
           /\ draft.downscale \in Downscales
<1>1. draft \in Games /\ saved \in Games
  BY DEF GameTypeOK
<1>2. \A l \in DirLines : l \subseteq Dirs
  BY DEF DirLines
<1>3. QED
  BY <1>1, <1>2 DEF Games

LEMMA GameBegins == GameInit => GameInv
<1> SUFFICES ASSUME GameInit PROVE GameInv
  OBVIOUS
<1>1. PICK dd \in Downscales, b \in BOOLEAN : saved = [NewGame EXCEPT !.downscale = dd, !.cleanup_logs = b]
  BY DEF GameInit
<1>2. NewGame \in Games
  BY DEF NewGame, Games, Downscales, DirLines
<1>3. saved \in Games
  BY <1>1, <1>2 DEF Games
<1>4. GameTypeOK
  BY <1>2, <1>3 DEF GameInit, GameTypeOK
<1>5. QED
  BY <1>4 DEF GameInit, GameInv, QuietGameIsApplied

LEMMA GameStep ==
    ASSUME GameInv, [GameNext]_gameVars
    PROVE  GameInv'
<1> USE DEF GameInv
<1>1. /\ draft \in Games /\ saved \in Games /\ GameTypeOK
      /\ saved.downscale \in Downscales /\ saved.cleanup_logs \in BOOLEAN
      /\ saved.log_dirs \in DirLines /\ saved.log_dirs \subseteq Dirs
      /\ draft.downscale \in Downscales
  BY GameTypes
<1>2. CASE OpenGame
  <2>1. PICK dd : dd = IF saved.downscale = "unset" THEN "grid" ELSE saved.downscale
    OBVIOUS
  <2>2. dd \in Downscales /\ dd # "unset"
    BY <1>1, <2>1 DEF Downscales
  <2>3. draft' = [saved EXCEPT !.downscale = dd] /\ editing' = "open"
        /\ UNCHANGED <<saved, quiet, result>>
    BY <1>2, <2>1 DEF OpenGame
  <2>4. draft' \in Games /\ draft'.downscale = dd
    BY <1>1, <2>2, <2>3 DEF Games
  <2>5. GameTypeOK'
    BY <1>1, <2>3, <2>4 DEF GameTypeOK
  <2>6. QED
    BY <2>2, <2>3, <2>4, <2>5 DEF QuietGameIsApplied, unsafeLogDirs
<1>3. CASE EditGame
  <2>1. editing = "open" /\ UNCHANGED <<editing, saved, quiet, result>>
    BY <1>3 DEF EditGame
  <2>2. draft' \in Games /\ draft'.downscale # "unset"
    <3>1. CASE \E dd \in {"grid", "disable"} : draft' = [draft EXCEPT !.downscale = dd]
      BY <1>1, <3>1 DEF Games, Downscales
    <3>2. CASE draft' = [draft EXCEPT !.cleanup_logs = ~@]
      BY <1>1, <2>1, <3>2 DEF Games
    <3>3. CASE \E l \in DirLines : draft' = [draft EXCEPT !.log_dirs = l]
      BY <1>1, <2>1, <3>3 DEF Games
    <3>4. QED
      BY <1>3, <3>1, <3>2, <3>3 DEF EditGame
  <2>3. GameTypeOK'
    BY <1>1, <2>1, <2>2 DEF GameTypeOK
  <2>4. QED
    BY <2>1, <2>2, <2>3 DEF QuietGameIsApplied, unsafeLogDirs
<1>4. CASE SaveGame
  <2>1. /\ editing = "open" /\ editing' = "done" /\ saved' = draft /\ result' = {}
        /\ quiet' = (~isOffGridDownscale(draft.downscale) /\ unsafeLogDirs(draft) = {})
        /\ draft' = draft
    BY <1>4 DEF SaveGame
  <2>2. quiet' \in BOOLEAN
    BY <2>1
  <2>3. GameTypeOK'
    BY <1>1, <2>1, <2>2 DEF GameTypeOK
  <2>4. quiet' => saved'.downscale \in {"grid", "disable"}
    BY <2>1 DEF isOffGridDownscale
  <2>5. quiet' => unsafeLogDirs(saved') = {}
    BY <2>1
  <2>6. QED
    BY <2>1, <2>3, <2>4, <2>5 DEF QuietGameIsApplied, unsafeLogDirs
<1>5. CASE ApplyGame
  <2>1. PICK purged : purged = IF saved.cleanup_logs
                               THEN {d \in saved.log_dirs : is_safe_purge_target(d)} ELSE {}
    OBVIOUS
  <2>2. purged \in DirLines
    BY <1>1, <2>1 DEF DirLines
  <2>3. PICK downscaled : downscaled = (saved.downscale \in {"grid", "disable"})
    OBVIOUS
  <2>4. PICK r : r = [downscaled |-> downscaled, purged |-> purged]
    OBVIOUS
  <2>5. /\ r \in [downscaled : BOOLEAN, purged : DirLines]
        /\ r.downscaled = downscaled /\ r.purged = purged
        /\ result' = {r} /\ UNCHANGED <<draft, editing, saved, quiet>>
    BY <1>5, <2>1, <2>2, <2>3, <2>4 DEF ApplyGame
  <2>6. ASSUME quiet
        PROVE  /\ downscaled /\ (saved.cleanup_logs => purged = saved.log_dirs)
               /\ \A d \in purged : d.segs[1] = "p"
    <3>1. downscaled
      BY <2>3, <2>6
    <3>2. CASE saved.cleanup_logs
      <4>1. \A d \in saved.log_dirs : d \in Dirs /\ isSafePurgeTarget(d)
        BY <1>1, <2>6, <3>2 DEF unsafeLogDirs
      <4>2. \A d \in saved.log_dirs : is_safe_purge_target(d) /\ d.segs[1] = "p"
        BY <4>1, SafeIsPurged
      <4>3. purged = saved.log_dirs
        BY <2>1, <3>2, <4>2
      <4>4. QED
        BY <3>1, <4>2, <4>3
    <3>3. CASE ~saved.cleanup_logs
      BY <2>1, <3>1, <3>3
    <3>4. QED
      BY <3>2, <3>3
  <2>7. QuietGameIsApplied'
    BY <2>5, <2>6 DEF QuietGameIsApplied
  <2>8. GameTypeOK'
    BY <1>1, <2>5 DEF GameTypeOK
  <2>9. QED
    BY <2>5, <2>7, <2>8 DEF unsafeLogDirs
<1>6. CASE UNCHANGED gameVars
  BY <1>6 DEF gameVars, GameTypeOK, QuietGameIsApplied, unsafeLogDirs
<1>7. QED
  BY <1>2, <1>3, <1>4, <1>5, <1>6 DEF GameNext

-----------------------------------------------------------------------------
(* The mirroring thread.                                                   *)

\* The property is set when adbd is started and when init has waited for it.
MirrorInv ==
    /\ MirrorTypeOK
    /\ child = "none" => serial = 2 * starts
    /\ child # "none" => starts # 0 /\ serial = 2 * starts - 1

LEMMA MirrorTypes ==
    ASSUME MirrorInv
    PROVE  /\ MaxStarts \in Nat /\ ScanTurns \in Nat
           /\ starts \in 0..MaxStarts /\ serial \in 0..2 * MaxStarts
           /\ seen \in 0..serial /\ adbd_pid \in 0..starts /\ turns \in 0..ScanTurns
           /\ reniced \subseteq Starts /\ early \subseteq Starts /\ server \in BOOLEAN
           /\ child = "none" => serial = 2 * starts
           /\ child # "none" => starts # 0 /\ serial = 2 * starts - 1
           /\ child # "none" => starts \in Starts
<1>1. MaxStarts \in Nat /\ ScanTurns \in Nat
  BY MirrorAssumption
<1>2. starts \in 0..MaxStarts /\ serial \in 0..2 * MaxStarts
  BY DEF MirrorInv, MirrorTypeOK
<1>3. seen \in 0..serial /\ adbd_pid \in 0..starts /\ turns \in 0..ScanTurns
  BY DEF MirrorInv, MirrorTypeOK
<1>4. reniced \subseteq Starts /\ early \subseteq Starts /\ server \in BOOLEAN
  BY DEF MirrorInv, MirrorTypeOK
<1>5. /\ child = "none" => serial = 2 * starts
      /\ child # "none" => starts # 0 /\ serial = 2 * starts - 1
  BY DEF MirrorInv
<1>6. starts # 0 => starts \in Starts
  BY <1>1, <1>2 DEF Starts
<1>7. QED
  BY <1>1, <1>2, <1>3, <1>4, <1>5, <1>6

LEMMA MirrorBegins == MirrorInit => MirrorInv
<1> SUFFICES ASSUME MirrorInit PROVE MirrorInv
  OBVIOUS
<1>1. serial = 0 /\ starts = 0 /\ seen = 0 /\ adbd_pid = 0 /\ turns = 0
  BY DEF MirrorInit
<1>2. /\ starts \in 0..MaxStarts /\ serial \in 0..2 * MaxStarts /\ seen \in 0..serial
      /\ adbd_pid \in 0..starts /\ turns \in 0..ScanTurns /\ serial = 2 * starts
  BY <1>1, MirrorAssumption
<1>3. /\ value = "absent" /\ child = "none" /\ server = FALSE /\ thread = "begin"
      /\ reniced = {} /\ early = {}
  BY DEF MirrorInit
<1>4. QED
  BY <1>2, <1>3 DEF MirrorInv, MirrorTypeOK

LEMMA AroundKeeps ==
    ASSUME MirrorInv, Around
    PROVE  MirrorInv'
<1>1. UNCHANGED <<seen, adbd_pid, turns, thread, reniced, early>>
  BY DEF Around, locals
<1>2. /\ value' \in {"absent", "running", "stopped"} /\ server' \in BOOLEAN
      /\ child' \in {"none", "forked", "adbd", "dead"}
  BY DEF MirrorInv, MirrorTypeOK, Around, StartAdbd, ExecAdbd, AdbdDies, ReapAdbd, Mirroring, SetTo
<1>3. PICK m, n : m = MaxStarts /\ n = starts
  OBVIOUS
<1>4. m \in Nat /\ n \in 0..m
  BY <1>3, MirrorTypes
<1>5. /\ starts' \in 0..MaxStarts /\ serial' \in 0..2 * MaxStarts
      /\ starts <= starts' /\ serial <= serial'
      /\ child' = "none" => serial' = 2 * starts'
      /\ child' # "none" => starts' # 0 /\ serial' = 2 * starts' - 1
  <2>1. CASE StartAdbd
    <3>1. serial = 2 * n /\ n < m /\ starts' = n + 1 /\ serial' = serial + 1 /\ child' = "forked"
      BY <1>3, <2>1, MirrorTypes DEF StartAdbd, SetTo
    <3>2. /\ starts' \in 0..m /\ serial' \in 0..2 * m /\ n <= starts' /\ serial <= serial'
          /\ starts' # 0 /\ serial' = 2 * starts' - 1
      BY <1>4, <3>1
    <3>3. QED
      BY <1>3, <3>1, <3>2
  <2>2. CASE ReapAdbd
    <3>1. /\ serial = 2 * n - 1 /\ n # 0 /\ starts' = n /\ serial' = serial + 1
          /\ child' = "none"
      BY <1>3, <2>2, MirrorTypes DEF ReapAdbd, SetTo
    <3>2. /\ starts' \in 0..m /\ serial' \in 0..2 * m /\ n <= starts' /\ serial <= serial'
          /\ serial' = 2 * starts'
      BY <1>4, <3>1
    <3>3. QED
      BY <1>3, <3>1, <3>2
  <2>3. CASE ExecAdbd \/ AdbdDies \/ Mirroring
    <3>1. starts' = starts /\ serial' = serial /\ (child # "none" /\ child' # "none")
      BY <2>3 DEF ExecAdbd, AdbdDies, Mirroring
    <3>2. starts <= starts /\ serial <= serial
      <4>1. starts \in Nat /\ serial \in Nat
        BY MirrorTypes
      <4>2. QED
        BY <4>1
    <3>3. QED
      BY <3>1, <3>2, MirrorTypes
  <2>4. QED
    BY <2>1, <2>2, <2>3 DEF Around
<1>6. seen' \in 0..serial' /\ adbd_pid' \in 0..starts'
  <2>1. serial \in Nat /\ serial' \in Nat /\ starts \in Nat /\ starts' \in Nat
    BY <1>5, MirrorTypes
  <2>2. seen \in 0..serial' /\ adbd_pid \in 0..starts'
    BY <1>5, <2>1, MirrorTypes
  <2>3. QED
    BY <1>1, <2>2
<1>7. turns' \in 0..ScanTurns /\ reniced' \subseteq Starts /\ early' \subseteq Starts
  BY <1>1, MirrorTypes
<1>8. thread' \in {"begin", "first read", "wait", "read", "find", "renice", "scan"}
  BY <1>1 DEF MirrorInv, MirrorTypeOK
<1>9. QED
  BY <1>2, <1>5, <1>6, <1>7, <1>8 DEF MirrorInv, MirrorTypeOK

LEMMA ThreadKeeps ==
    ASSUME MirrorInv, Thread
    PROVE  MirrorInv'
<1>1. UNCHANGED system
  BY DEF Thread
<1>2. thread' \in {"begin", "first read", "wait", "read", "find", "renice", "scan"}
  BY DEF Thread, FindProperty, Wait, ReadValue, FindAdbd, Renice, Scan, MirrorInv, MirrorTypeOK
<1>3. seen' = seen \/ seen' = 0 \/ seen' = serial
  BY DEF Thread, FindProperty, Wait, ReadValue, FindAdbd, Renice, Scan, SeenAfterScan
<1>4. adbd_pid' = adbd_pid \/ adbd_pid' = 0 \/ adbd_pid' = starts
  BY DEF Thread, FindProperty, Wait, ReadValue, FindAdbd, Renice, Scan, find_adbd_pid
<1>5. turns' = turns \/ turns' = 0 \/ (turns # ScanTurns /\ turns' = turns + 1)
  BY DEF Thread, FindProperty, Wait, ReadValue, FindAdbd, Renice, Scan
<1>6. serial \in Nat /\ starts \in Nat /\ ScanTurns \in Nat /\ turns \in 0..ScanTurns
  BY MirrorTypes
<1>7. seen' \in 0..serial /\ adbd_pid' \in 0..starts /\ turns' \in 0..ScanTurns
  BY <1>3, <1>4, <1>5, <1>6, MirrorTypes
<1>8. reniced' = reniced \/ (child = "adbd" /\ reniced' = reniced \cup {starts})
  BY DEF Thread, FindProperty, Wait, ReadValue, FindAdbd, Renice, Scan
<1>9. early' = early \/ (child = "forked" /\ early' = early \cup {starts})
  BY DEF Thread, FindProperty, Wait, ReadValue, FindAdbd, Renice, Scan
<1>10. reniced' \subseteq Starts /\ early' \subseteq Starts
  BY <1>8, <1>9, MirrorTypes
<1>11. /\ value' = value /\ serial' = serial /\ starts' = starts /\ child' = child
       /\ server' = server
  BY <1>1 DEF system
<1>12. QED
  BY <1>2, <1>7, <1>10, <1>11 DEF MirrorInv, MirrorTypeOK

\* What a thread that was told of the last change does of it: it has an adbd to look for, or
\* to renice, or else the adbd of now was reniced, or was looked for before its exec.
Lookout ==
    /\ value = "running" <=> child # "none"
    /\ value # "absent" => serial # 0
    /\ thread = "first read" => seen # serial
    /\ seen = serial =>
          /\ thread = "find" => child # "none"
          /\ thread = "renice" => child \in {"adbd", "dead"} /\ adbd_pid = starts
          /\ thread \in {"scan", "wait"} =>
                /\ child = "forked" => starts \in early
                /\ child = "adbd" => starts \in reniced \cup early

LEMMA LookoutAround ==
    ASSUME MirrorInv, Lookout, Around
    PROVE  Lookout'
<1>1. UNCHANGED <<seen, adbd_pid, turns, thread, reniced, early>>
  BY DEF Around, locals
<1>2. serial \in Nat /\ seen \in 0..serial
  BY MirrorTypes
<1>3. CASE StartAdbd \/ ReapAdbd
  <2>1. serial' = serial + 1
    BY <1>3 DEF StartAdbd, ReapAdbd, SetTo
  <2>2. seen' # serial' /\ serial' # 0
    BY <1>1, <1>2, <2>1
  <2>3. value' = "running" <=> child' # "none"
    BY <1>3 DEF StartAdbd, ReapAdbd, SetTo
  <2>4. QED
    BY <2>2, <2>3 DEF Lookout
<1>4. CASE ExecAdbd \/ AdbdDies \/ Mirroring
  <2>1. UNCHANGED <<value, serial, starts>> /\ child # "none" /\ child' # "none"
        /\ (child' = child \/ child' = "dead" \/ (child = "forked" /\ child' = "adbd"))
    BY <1>4 DEF ExecAdbd, AdbdDies, Mirroring
  <2>2. QED
    BY <1>1, <2>1 DEF Lookout
<1>5. QED
  BY <1>3, <1>4 DEF Around

LEMMA LookoutThread ==
    ASSUME MirrorInv, Lookout, Thread
    PROVE  Lookout'
<1>1. /\ value' = value /\ serial' = serial /\ starts' = starts /\ child' = child
  BY DEF Thread, system
<1>2. child # "none" => starts # 0
  BY DEF MirrorInv
<1>3. child \in {"none", "forked", "adbd", "dead"}
  BY DEF MirrorInv, MirrorTypeOK
<1>4. CASE FindProperty
  <2>1. thread' = "first read" /\ seen' = 0 /\ value # "absent"
    BY <1>4 DEF FindProperty
  <2>2. seen' # serial
    BY <2>1 DEF Lookout
  <2>3. QED
    BY <1>1, <2>1, <2>2 DEF Lookout
<1>5. CASE Wait
  BY <1>1, <1>5 DEF Wait, Lookout
<1>6. CASE ReadValue
  BY <1>1, <1>6 DEF ReadValue, Lookout
<1>7. CASE FindAdbd
  <2>1. thread = "find" /\ seen' = seen /\ reniced' = reniced
    BY <1>7 DEF FindAdbd
  <2>2. CASE seen # serial
    BY <1>1, <1>7, <2>1, <2>2 DEF FindAdbd, Lookout
  <2>3. CASE seen = serial
    <3>1. child # "none" /\ ~Changed
      BY <2>1, <2>3 DEF Lookout, Changed
    <3>2. CASE child = "forked"
      <4>1. adbd_pid' = 0 /\ early' = early \cup {starts}
        BY <1>7, <3>1, <3>2 DEF FindAdbd, find_adbd_pid
      <4>2. thread' = "scan"
        BY <1>7, <4>1 DEF FindAdbd
      <4>3. QED
        BY <1>1, <2>1, <3>2, <4>1, <4>2 DEF Lookout
    <3>3. CASE child # "forked"
      <4>1. child \in {"adbd", "dead"} /\ adbd_pid' = starts
        BY <1>3, <1>7, <3>1, <3>3 DEF FindAdbd, find_adbd_pid
      <4>2. starts > 0
        BY <1>2, <3>1, MirrorTypes
      <4>3. thread' = "renice"
        BY <1>7, <4>1, <4>2 DEF FindAdbd
      <4>4. QED
        BY <1>1, <2>1, <4>1, <4>3 DEF Lookout
    <3>4. QED
      BY <3>2, <3>3
  <2>4. QED
    BY <2>2, <2>3
<1>8. CASE Renice
  BY <1>1, <1>8 DEF Renice, Lookout
<1>9. CASE Scan
  BY <1>1, <1>9 DEF Scan, Lookout, SeenAfterScan
<1>10. QED
  BY <1>4, <1>5, <1>6, <1>7, <1>8, <1>9 DEF Thread

LEMMA LookoutKept ==
    ASSUME MirrorInv, Lookout, [MirrorNext]_mirrorVars
    PROVE  Lookout'
<1>1. CASE UNCHANGED mirrorVars
  BY <1>1 DEF mirrorVars, system, locals, Lookout
<1>2. QED
  BY <1>1, LookoutAround, LookoutThread DEF MirrorNext

LEMMA MirrorStep ==
    ASSUME MirrorInv, [MirrorNext]_mirrorVars
    PROVE  MirrorInv'
<1>1. CASE UNCHANGED mirrorVars
  BY <1>1 DEF mirrorVars, system, locals, MirrorInv, MirrorTypeOK
<1>2. QED
  BY <1>1, AroundKeeps, ThreadKeeps DEF MirrorNext

-----------------------------------------------------------------------------
(* The lists.                                                              *)

\* As long as the modal of a game is open, its index finds the game it was opened for.
ListInv ==
    /\ ListTypeOK
    /\ modal = "open" /\ editIdx # 0 => editIdx \in DOMAIN list /\ list[editIdx].id = opened

Distinct(l) == \A i, j \in DOMAIN l : l[i].id = l[j].id => i = j

LEMMA ListTypes ==
    ASSUME ListTypeOK
    PROVE  /\ list \in Seq(Rows) /\ Len(list) \in Nat /\ DOMAIN list = 1..Len(list)
           /\ \A i \in DOMAIN list : /\ list[i] \in Rows /\ list[i].id \in 1..MaxIds
                                     /\ list[i].tag \in Tags /\ list[i].on \in BOOLEAN
           /\ Distinct(list)
<1>1. list \in Seq(Rows)
  BY DEF ListTypeOK
<1>2. Len(list) \in Nat /\ DOMAIN list = 1..Len(list) /\ \A i \in DOMAIN list : list[i] \in Rows
  BY <1>1
<1>3. \A r \in Rows : r.id \in 1..MaxIds /\ r.tag \in Tags /\ r.on \in BOOLEAN
  BY DEF Rows
<1>4. QED
  BY <1>1, <1>2, <1>3 DEF ListTypeOK, Distinct

LEMMA RowTypes ==
    ASSUME NEW i \in 1..MaxIds, NEW t \in Tags
    PROVE  Row(i, t) \in Rows /\ Row(i, t).id = i
  BY DEF Row, Rows

\* indexOf finds the row itself, with or without a search on the page.
LEMMA IndexOfFinds ==
    ASSUME ListTypeOK, NEW k \in DOMAIN list
    PROVE  IndexOf(k) = k
<1>1. \A j \in DOMAIN list : list[j].id = list[k].id => j = k
  BY ListTypes DEF Distinct
<1>2. (CHOOSE j \in DOMAIN list : list[j].id = list[k].id) = k
  BY <1>1
<1>3. QED
  BY <1>2 DEF IndexOf

LEMMA ListBegins == ListInit => ListInv
<1> SUFFICES ASSUME ListInit PROVE ListInv
  OBVIOUS
<1>1. PICK s, t \in Tags : list = <<Row(1, s), Row(2, t)>>
  BY DEF ListInit
<1>2. Row(1, s) \in Rows /\ Row(2, t) \in Rows /\ Row(1, s).id = 1 /\ Row(2, t).id = 2
  BY ListAssumption, RowTypes
<1>3. list \in Seq(Rows) /\ DOMAIN list = {1, 2} /\ list[1].id = 1 /\ list[2].id = 2
  BY <1>1, <1>2
<1>4. \A i, j \in DOMAIN list : list[i].id = list[j].id => i = j
  BY <1>3
<1>5. 0 \in 0..MaxIds
  BY ListAssumption
<1>6. QED
  BY <1>3, <1>4, <1>5 DEF ListInit, ListInv, ListTypeOK

\* What is left of a list in which only the row `id' was touched.
OnlyTouched(l, m, id) ==
    /\ m \in Seq(Rows) /\ Distinct(m)
    /\ KeepsOthers(l, m, id) /\ KeepsOthers(m, l, id)

LEMMA UntouchedRows ==
    ASSUME NEW l \in Seq(Rows), Distinct(l), NEW id
    PROVE  OnlyTouched(l, l, id)
  BY DEF OnlyTouched, KeepsOthers

\* A row is changed in its place.
LEMMA ChangedRow ==
    ASSUME NEW l \in Seq(Rows), Distinct(l), NEW k \in DOMAIN l,
           NEW r \in Rows, r.id = l[k].id
    PROVE  OnlyTouched(l, [l EXCEPT ![k] = r], l[k].id)
<1>1. PICK m : m = [l EXCEPT ![k] = r]
  OBVIOUS
<1>2. /\ m \in Seq(Rows) /\ DOMAIN m = DOMAIN l /\ m[k] = r
      /\ \A j \in DOMAIN l : j # k => m[j] = l[j]
  BY <1>1
<1>3. \A j \in DOMAIN l : m[j].id = l[j].id
  BY <1>2
<1>4. Distinct(m)
  BY <1>2, <1>3 DEF Distinct
<1>5. KeepsOthers(l, m, l[k].id) /\ KeepsOthers(m, l, l[k].id)
  BY <1>2, <1>3 DEF KeepsOthers
<1>6. QED
  BY <1>1, <1>2, <1>4, <1>5 DEF OnlyTouched

\* A row is taken out.
LEMMA RemovedRow ==
    ASSUME NEW l \in Seq(Rows), Distinct(l), NEW k \in DOMAIN l
    PROVE  OnlyTouched(l, RemoveAt(l, k), l[k].id)
<1>1. PICK m : m = RemoveAt(l, k)
  OBVIOUS
<1>2. m \in Seq(Rows)
  BY <1>1, RemoveAtProperties
<1>3. PICK f : Left(m, l, k, f)
  BY <1>1, RemoveAtLeaves
<1>4. /\ f \in [DOMAIN m -> DOMAIN l \ {k}] /\ \A j \in DOMAIN m : m[j] = l[f[j]]
      /\ \A i, j \in DOMAIN m : (i < j <=> f[i] < f[j]) /\ (f[i] = f[j] => i = j)
      /\ \A j \in DOMAIN l \ {k} : \E i \in DOMAIN m : f[i] = j
  BY <1>3 DEF Left
<1>5. Distinct(m)
  BY <1>4 DEF Distinct
<1>6. DOMAIN m \subseteq Nat /\ DOMAIN l \subseteq Nat
  BY <1>2
<1>7. \A i, j \in DOMAIN m : i <= j <=> f[i] <= f[j]
  BY <1>4, <1>6
<1>8. KeepsOthers(m, l, l[k].id)
  BY <1>4, <1>7 DEF KeepsOthers
<1>9. KeepsOthers(l, m, l[k].id)
  <2> SUFFICES ASSUME NEW i \in DOMAIN l, NEW j \in DOMAIN l,
                      i <= j, l[i].id # l[k].id, l[j].id # l[k].id
               PROVE  \E a, b \in DOMAIN m : a <= b /\ m[a] = l[i] /\ m[b] = l[j]
    BY DEF KeepsOthers
  <2>1. PICK a \in DOMAIN m : f[a] = i
    BY <1>4
  <2>2. PICK b \in DOMAIN m : f[b] = j
    BY <1>4
  <2>3. a <= b /\ m[a] = l[i] /\ m[b] = l[j]
    BY <1>4, <1>7, <2>1, <2>2
  <2>4. QED
    BY <2>3
<1>10. QED
  BY <1>1, <1>2, <1>5, <1>8, <1>9 DEF OnlyTouched

\* A new object is pushed.
LEMMA PushedRow ==
    ASSUME NEW l \in Seq(Rows), Distinct(l), NEW r \in Rows,
           \A j \in DOMAIN l : l[j].id # r.id
    PROVE  /\ OnlyTouched(l, Append(l, r), r.id)
           /\ \A j \in DOMAIN l : j \in DOMAIN Append(l, r) /\ Append(l, r)[j] = l[j]
<1>1. PICK m : m = Append(l, r)
  OBVIOUS
<1>2. /\ m \in Seq(Rows) /\ DOMAIN m = DOMAIN l \cup {Len(l) + 1} /\ m[Len(l) + 1] = r
      /\ \A j \in DOMAIN l : m[j] = l[j]
  BY <1>1, AppendAtEnd
<1>3. Distinct(m)
  BY <1>2 DEF Distinct
<1>4. KeepsOthers(l, m, r.id) /\ KeepsOthers(m, l, r.id)
  BY <1>2 DEF KeepsOthers
<1>5. QED
  BY <1>1, <1>2, <1>3, <1>4 DEF OnlyTouched

\* Two neighbours change places.
LEMMA SwappedRows ==
    ASSUME NEW l \in Seq(Rows), Distinct(l), NEW k \in DOMAIN l, NEW to \in DOMAIN l,
           to \in {k - 1, k + 1}
    PROVE  OnlyTouched(l, Swapped(l, k, to), l[k].id)
<1>1. PICK m : m = Swapped(l, k, to)
  OBVIOUS
<1>2. /\ DOMAIN l = 1..Len(l) /\ Len(l) \in Nat /\ k # to
      /\ \A j \in DOMAIN l : l[j] \in Rows
  BY ElementOfSeq
<1>3. /\ m \in Seq(Rows) /\ DOMAIN m = DOMAIN l /\ m[k] = l[to] /\ m[to] = l[k]
      /\ \A j \in DOMAIN l : j # k /\ j # to => m[j] = l[j]
  BY <1>1, <1>2 DEF Swapped
<1> DEFINE o(j) == IF j = k THEN to ELSE IF j = to THEN k ELSE j
<1>4. \A j \in DOMAIN l : o(j) \in DOMAIN l /\ o(o(j)) = j /\ m[j] = l[o(j)] /\ m[o(j)] = l[j]
  BY <1>2, <1>3
<1>5. \A i, j \in DOMAIN l : i <= j /\ i # k /\ j # k => o(i) <= o(j)
  BY <1>2
<1>6. \A i, j \in DOMAIN l : i <= j /\ i # to /\ j # to => o(i) <= o(j)
  BY <1>2
<1>7. Distinct(m)
  <2> SUFFICES ASSUME NEW i \in DOMAIN l, NEW j \in DOMAIN l, m[i].id = m[j].id PROVE i = j
    BY <1>3 DEF Distinct
  <2>1. o(i) = o(j)
    BY <1>4 DEF Distinct
  <2>2. QED
    BY <1>4, <2>1
<1>8. KeepsOthers(l, m, l[k].id)
  <2> SUFFICES ASSUME NEW i \in DOMAIN l, NEW j \in DOMAIN l,
                      i <= j, l[i].id # l[k].id, l[j].id # l[k].id
               PROVE  \E a, b \in DOMAIN m : a <= b /\ m[a] = l[i] /\ m[b] = l[j]
    BY DEF KeepsOthers
  <2>1. i # k /\ j # k
    OBVIOUS
  <2>2. /\ o(i) <= o(j) /\ m[o(i)] = l[i] /\ m[o(j)] = l[j]
        /\ o(i) \in DOMAIN m /\ o(j) \in DOMAIN m
    BY <1>3, <1>4, <1>5, <2>1
  <2>3. QED
    BY <2>2
<1>9. KeepsOthers(m, l, l[k].id)
  <2> SUFFICES ASSUME NEW i \in DOMAIN l, NEW j \in DOMAIN l,
                      i <= j, m[i].id # l[k].id, m[j].id # l[k].id
               PROVE  \E a, b \in DOMAIN l : a <= b /\ l[a] = m[i] /\ l[b] = m[j]
    BY <1>3 DEF KeepsOthers
  <2>1. i # to /\ j # to
    BY <1>3
  <2>2. /\ o(i) <= o(j) /\ l[o(i)] = m[i] /\ l[o(j)] = m[j]
        /\ o(i) \in DOMAIN l /\ o(j) \in DOMAIN l
    BY <1>4, <1>6, <2>1
  <2>3. QED
    BY <2>2
<1>10. QED
  BY <1>1, <1>3, <1>7, <1>8, <1>9 DEF OnlyTouched

\* Only the row of the tap was touched, but for a second tap on a modal's buttons.
Hits == modal # "leaving" =>
           KeepsOthers(list, list', tapped') /\ KeepsOthers(list', list, tapped')

\* What an action has to leave right.
LEMMA ListKeeps ==
    ASSUME ListInv, which' = which, NEW id, OnlyTouched(list, list', id),
           modal # "leaving" => tapped' = id,
           search' \in Tags \cup {NoTag}, form' \in Tags \cup {NoTag},
           modal' \in {"closed", "open", "leaving"}, editIdx' \in Nat,
           opened' \in 0..MaxIds, tapped' \in 0..MaxIds,
           modal' = "open" /\ editIdx' # 0 => editIdx' \in DOMAIN list' /\ list'[editIdx'].id = opened'
    PROVE  ListInv' /\ Hits
<1>1. list' \in Seq(Rows) /\ Distinct(list')
  BY DEF OnlyTouched
<1>2. ListTypeOK'
  BY <1>1 DEF ListInv, ListTypeOK, Distinct
<1>3. Hits
  BY DEF Hits, OnlyTouched
<1>4. QED
  BY <1>2, <1>3 DEF ListInv

LEMMA ListHas ==
    ASSUME ListInv
    PROVE  /\ search \in Tags \cup {NoTag} /\ form \in Tags \cup {NoTag}
           /\ modal \in {"closed", "open", "leaving"} /\ editIdx \in Nat
           /\ opened \in 0..MaxIds /\ tapped \in 0..MaxIds
           /\ ListTypeOK /\ 0 \in 0..MaxIds
           /\ \A i \in DOMAIN list : list[i].id \in 0..MaxIds
<1>1. MaxIds \in Nat
  BY ListAssumption
<1>2. 0 \in 0..MaxIds /\ \A i \in 1..MaxIds : i \in 0..MaxIds
  BY <1>1
<1>3. \A i \in DOMAIN list : list[i].id \in 0..MaxIds
  BY <1>2, ListTypes DEF ListInv
<1>4. QED
  BY <1>2, <1>3 DEF ListInv, ListTypeOK

\* The taps on a row, on a search or on a chip.
LEMMA TapKeeps ==
    ASSUME ListInv, NEW id \in 0..MaxIds, OnlyTouched(list, list', id), TapOn(id), FormIdle,
           modal = "closed", search' \in Tags \cup {NoTag}
    PROVE  ListInv' /\ Hits
<1>1. tapped' = id /\ which' = which /\ UNCHANGED <<modal, editIdx, form, opened>>
  BY DEF TapOn, FormIdle
<1>2. QED
  BY <1>1, ListHas, ListKeeps

LEMMA OnRowKeeps ==
    ASSUME ListInv, NEW k \in Shown, OnRow(k)
    PROVE  ListInv' /\ Hits
<1>1. k \in DOMAIN list
  BY DEF Shown
<1>2. /\ list \in Seq(Rows) /\ Distinct(list) /\ list[k] \in Rows /\ IndexOf(k) = k
      /\ list[k].id \in 0..MaxIds /\ list[k].on \in BOOLEAN
  BY <1>1, ListTypes, ListHas, IndexOfFinds DEF ListInv
<1>3. CASE Toggle(k)
  <2>1. PICK r : r = [list[k] EXCEPT !.on = ~@]
    OBVIOUS
  <2>2. r \in Rows /\ r.id = list[k].id
    BY <1>2, <2>1 DEF Rows
  <2>3. /\ list' = [list EXCEPT ![k] = r] /\ TapOn(list[k].id) /\ FormIdle /\ modal = "closed"
        /\ search' = search
    BY <1>2, <1>3, <2>1 DEF Toggle, Tappable
  <2>4. OnlyTouched(list, list', list[k].id)
    BY <1>1, <1>2, <2>2, <2>3, ChangedRow
  <2>5. QED
    BY <1>2, <2>3, <2>4, ListHas, TapKeeps
<1>4. CASE RemoveRow(k)
  <2>1. /\ list' = RemoveAt(list, k) /\ TapOn(list[k].id) /\ FormIdle /\ modal = "closed"
        /\ search' = search
    BY <1>1, <1>2, <1>4 DEF RemoveRow, Tappable, Spliced
  <2>2. OnlyTouched(list, list', list[k].id)
    BY <1>1, <1>2, <2>1, RemovedRow
  <2>3. QED
    BY <1>2, <2>1, <2>2, ListHas, TapKeeps
<1>5. CASE OpenEdit(k)
  <2>1. /\ modal' = "open" /\ editIdx' = k /\ form' = list[k].tag /\ opened' = list[k].id
        /\ TapOn(list[k].id) /\ UNCHANGED <<list, search>>
    BY <1>2, <1>5 DEF OpenEdit
  <2>2. OnlyTouched(list, list', list[k].id)
    BY <1>2, <2>1, UntouchedRows
  <2>3. tapped' = list[k].id /\ which' = which
    BY <2>1 DEF TapOn
  <2>4. form' \in Tags \cup {NoTag} /\ editIdx' \in Nat
    BY <1>1, <2>1, ListTypes DEF ListInv
  <2>5. QED
    BY <1>1, <1>2, <2>1, <2>2, <2>3, <2>4, ListHas, ListKeeps
<1>6. ASSUME NEW to \in DOMAIN list, Move(k, to) PROVE ListInv' /\ Hits
  <2>1. /\ list' = Swapped(list, k, to) /\ TapOn(list[k].id) /\ FormIdle /\ modal = "closed"
        /\ search' = search /\ to \in {k - 1, k + 1}
    BY <1>6 DEF Move, Tappable
  <2>2. OnlyTouched(list, list', list[k].id)
    BY <1>1, <1>2, <2>1, SwappedRows
  <2>3. QED
    BY <1>2, <2>1, <2>2, ListHas, TapKeeps
<1>7. QED
  BY <1>3, <1>4, <1>5, <1>6 DEF OnRow

\* A new row has an identity of its own.
LEMMA NewRowKeeps ==
    ASSUME ListInv, NEW t \in Tags, NEW id \in FreshIds, list' = Append(list, Row(id, t))
    PROVE  id \in 0..MaxIds /\ OnlyTouched(list, list', id)
<1>1. id \in 1..MaxIds /\ \A j \in DOMAIN list : list[j].id # id
  BY DEF FreshIds
<1>2. Row(id, t) \in Rows /\ Row(id, t).id = id
  BY <1>1, RowTypes
<1>3. list \in Seq(Rows) /\ Distinct(list)
  BY ListTypes DEF ListInv
<1>4. QED
  BY <1>1, <1>2, <1>3, PushedRow, ListAssumption

\* Save and Delete on the modal of a game.
LEMMA GameRowKeeps ==
    ASSUME ListInv, ConfirmEdit \/ RemoveAndClose
    PROVE  ListInv' /\ Hits
<1>1. /\ modal' = "leaving" /\ tapped' = opened /\ which' = which
      /\ UNCHANGED <<search, editIdx, form, opened>>
      /\ modal # "closed" /\ editIdx # 0
  <2>1. ConfirmEdit => editIdx # 0
    BY ListTypes DEF ConfirmEdit, ListInv
  <2>2. QED
    BY <2>1 DEF ConfirmEdit, RemoveAndClose, Closes, TapOn, ButtonsWork
<1>2. list \in Seq(Rows) /\ Distinct(list)
  BY ListTypes DEF ListInv
<1>3. modal # "leaving" => editIdx \in DOMAIN list /\ list[editIdx].id = opened
  BY <1>1, ListHas DEF ListInv
<1>4. CASE editIdx \in DOMAIN list
  <2>1. OnlyTouched(list, list', list[editIdx].id)
    <3>1. CASE ConfirmEdit
      <4>1. form \in Tags /\ list[editIdx] \in Rows
        BY <1>4, <3>1, ListTypes, ListHas DEF ConfirmEdit, ListInv
      <4>2. PICK r : r = [list[editIdx] EXCEPT !.tag = form, !.on = TRUE]
        OBVIOUS
      <4>3. r \in Rows /\ r.id = list[editIdx].id
        BY <4>1, <4>2 DEF Rows
      <4>4. list' = [list EXCEPT ![editIdx] = r]
        BY <1>2, <1>4, <3>1, <4>2 DEF ConfirmEdit
      <4>5. QED
        BY <1>2, <1>4, <4>3, <4>4, ChangedRow
    <3>2. CASE RemoveAndClose
      BY <1>2, <1>4, <3>2, RemovedRow DEF RemoveAndClose, Spliced
    <3>3. QED
      BY <3>1, <3>2
  <2>2. QED
    BY <1>1, <1>3, <2>1, ListHas, ListKeeps
<1>5. CASE editIdx \notin DOMAIN list
  <2>1. list' = list
    BY <1>5 DEF ConfirmEdit, RemoveAndClose, Spliced
  <2>2. OnlyTouched(list, list', opened)
    BY <1>2, <2>1, UntouchedRows
  <2>3. QED
    BY <1>1, <2>2, ListHas, ListKeeps
<1>6. QED
  BY <1>4, <1>5

LEMMA ListStep ==
    ASSUME ListInv, [ListNext]_listVars
    PROVE  ListInv' /\ Hits
<1>1. list \in Seq(Rows) /\ Distinct(list)
  BY ListTypes DEF ListInv
<1>2. list' = list => \A id : OnlyTouched(list, list', id)
  BY <1>1, UntouchedRows
<1>3. CASE \E k \in Shown : OnRow(k)
  BY <1>3, OnRowKeeps
<1>4. CASE \E t \in Tags : AddScheduler(t)
  <2>1. PICK t \in Tags, id \in FreshIds :
           /\ list' = Append(list, Row(id, t)) /\ TapOn(id) /\ FormIdle
           /\ modal = "closed" /\ search' = search
    BY <1>4 DEF AddScheduler
  <2>2. QED
    BY <2>1, NewRowKeeps, ListHas, TapKeeps
<1>5. CASE Search
  <2>1. modal = "closed" /\ search' \in Tags \cup {NoTag} /\ TapOn(0) /\ FormIdle /\ list' = list
    BY <1>5 DEF Search
  <2>2. QED
    BY <1>2, <2>1, ListHas, TapKeeps
<1>6. CASE OpenAdd \/ Type \/ Cancel \/ Faded
  <2>1. list' = list /\ search' = search /\ which' = which /\ tapped' \in {0, opened}
        /\ modal' \in {"closed", "open", "leaving"} /\ form' \in Tags \cup {NoTag}
        /\ (editIdx' = 0 \/ editIdx' = editIdx) /\ (opened' = 0 \/ opened' = opened)
    BY <1>6, ListHas DEF OpenAdd, Type, Cancel, Faded, TapOn
  <2>2. modal' = "open" /\ editIdx' # 0 => modal = "open" /\ editIdx' = editIdx /\ opened' = opened
    BY <1>6 DEF OpenAdd, Type, Cancel, Faded
  <2>3. tapped' \in 0..MaxIds /\ opened' \in 0..MaxIds /\ editIdx' \in Nat
    BY <2>1, ListHas
  <2>4. modal' = "open" /\ editIdx' # 0 => editIdx' \in DOMAIN list' /\ list'[editIdx'].id = opened'
    BY <2>1, <2>2 DEF ListInv
  <2>5. OnlyTouched(list, list', tapped')
    BY <1>2, <2>1
  <2>6. QED
    BY <2>1, <2>3, <2>4, <2>5, ListHas, ListKeeps
<1>7. CASE ConfirmAdd
  <2>1. PICK id \in FreshIds :
           /\ list' = Append(list, Row(id, form)) /\ tapped' = id /\ which' = which
           /\ form # NoTag /\ modal' = "leaving" /\ UNCHANGED <<search, editIdx, form, opened>>
    BY <1>7 DEF ConfirmAdd, TapOn, Closes
  <2>2. form \in Tags
    BY <2>1, ListHas
  <2>3. id \in 0..MaxIds /\ OnlyTouched(list, list', id)
    BY <2>1, <2>2, NewRowKeeps
  <2>4. QED
    BY <2>1, <2>3, ListHas, ListKeeps
<1>8. CASE ConfirmEdit \/ RemoveAndClose
  BY <1>8, GameRowKeeps
<1>9. CASE UNCHANGED listVars
  <2>1. UNCHANGED <<list, which, search, modal, editIdx, form, opened, tapped>>
    BY <1>9 DEF listVars
  <2>2. ListInv'
    BY <2>1 DEF ListInv, ListTypeOK
  <2>3. Hits
    BY <1>2, <2>1 DEF Hits, OnlyTouched
  <2>4. QED
    BY <2>2, <2>3
<1>10. QED
  BY <1>3, <1>4, <1>5, <1>6, <1>7, <1>8, <1>9 DEF ListNext

-----------------------------------------------------------------------------
(* The theorems.                                                           *)

\* The inductive invariant of the lists.
THEOREM ListInductive == ListSpec => []ListInv
<1>1. ListInit => ListInv
  BY ListBegins
<1>2. ListInv /\ [ListNext]_listVars => ListInv'
  BY ListStep
<1>3. QED
  BY <1>1, <1>2, PTL DEF ListSpec

\* A tap changes no other row than its own, and keeps the others' order.
THEOREM TapsHit == ListSpec => TapHitsItsRow
<1>1. ListInv /\ [ListNext]_listVars =>
         [modal # "leaving" =>
             KeepsOthers(list, list', tapped') /\ KeepsOthers(list', list, tapped')]_listVars
  BY ListStep DEF Hits
<1>2. QED
  BY <1>1, ListInductive, PTL DEF ListSpec, TapHitsItsRow

\* The inductive invariant of the form of a game.
THEOREM GameInductive == GameSpec => []GameInv
<1>1. GameInit => GameInv
  BY GameBegins
<1>2. GameInv /\ [GameNext]_gameVars => GameInv'
  BY GameStep
<1>3. QED
  BY <1>1, <1>2, PTL DEF GameSpec

\* A game saved without a warning is applied as it was saved (isOffGridDownscale and
\* isSafePurgeTarget of Games.vue against apply_game_mode).
THEOREM QuietGamesApply == GameSpec => []QuietGameIsApplied
<1>1. GameInv => QuietGameIsApplied
  BY DEF GameInv
<1>2. QED
  BY <1>1, GameInductive, PTL

\* The inductive invariant of the mirroring thread.
THEOREM MirrorInductive == MirrorSpec => [](MirrorInv /\ Lookout)
<1>1. MirrorInit => MirrorInv
  BY MirrorBegins
<1>2. MirrorInit => Lookout
  BY DEF MirrorInit, Lookout
<1>3. MirrorInv /\ [MirrorNext]_mirrorVars => MirrorInv'
  BY MirrorStep
<1>4. MirrorInv /\ Lookout /\ [MirrorNext]_mirrorVars => Lookout'
  BY LookoutKept
<1>5. QED
  BY <1>1, <1>2, <1>3, <1>4, PTL DEF MirrorSpec

\* The thread does not wait for the next change while there is an adbd that it has neither
\* reniced nor looked for before its exec: the safety half of AdbdReniced, without fairness
\* and for any number of restarts during its scans (run, __system_property_wait).
NotParked == thread = "wait" /\ child = "adbd" /\ starts \notin reniced \cup early => Changed

THEOREM NoStartSleptThrough == MirrorSpec => []NotParked
<1>1. Lookout => NotParked
  BY DEF Lookout, NotParked, Changed
<1>2. QED
  BY <1>1, MirrorInductive, PTL

-----------------------------------------------------------------------------
(* The parts together.                                                     *)

\* A step of one part is a step of each part, or leaves it alone.
LEMMA StepOfEach ==
    ASSUME [MCNext]_allVars
    PROVE  /\ [ListNext]_listVars /\ [SettingsNext]_settingsVars /\ [LogNext]_logVars
           /\ [PickerNext]_pickerVars /\ [GameNext]_gameVars /\ [MirrorNext]_mirrorVars
<1>1. CASE MCNext
  BY <1>1, Zenon DEF MCNext, Lists_Next, Settings_Next, Log_Next, Pickers_Next, Game_Next, Mirror_Next
<1>2. CASE UNCHANGED allVars
  BY <1>2 DEF allVars
<1>3. QED
  BY <1>1, <1>2

\* The parts together are each of the parts, with its scheduling: what is proved of a part
\* holds of it among the others, whose steps leave it alone.
THEOREM PartsImplemented ==
    MCSpec => ListSpec /\ SettingsSpec /\ LogSpec /\ PickerSpec /\ GameSpec /\ MirrorSpec
<1>1. MCInit => ListInit /\ SettingsInit /\ LogInit /\ PickerInit /\ GameInit /\ MirrorInit
  BY DEF MCInit
<1>2. [MCNext]_allVars => /\ [ListNext]_listVars /\ [SettingsNext]_settingsVars
                          /\ [LogNext]_logVars /\ [PickerNext]_pickerVars
                          /\ [GameNext]_gameVars /\ [MirrorNext]_mirrorVars
  BY StepOfEach
<1>3. QED
  BY <1>1, <1>2, PTL
     DEF MCSpec, ListSpec, SettingsSpec, LogSpec, PickerSpec, GameSpec, MirrorSpec

LEMMA LogTyped ==
    ASSUME LogInv
    PROVE  LogTypeOK
<1>1. /\ logged \in 0..MaxLines /\ MaxLines \in Nat /\ loads \in 0..MaxLoads /\ MaxLoads \in Nat
      /\ files \in [Paths -> SUBSET (1..logged)] /\ logs \in [Paths -> SUBSET Lines]
      /\ atBegin \in [1..MaxLoads -> SUBSET (1..logged)]
      /\ DOMAIN reads \subseteq 1..loads /\ reads \in [DOMAIN reads -> [1..2 -> Reads]]
  BY LogAssumption DEF LogInv, LogTypes
<1>2. 1..logged \subseteq Lines /\ 1..loads \subseteq 1..MaxLoads
  BY <1>1 DEF Lines
<1>3. files \in [Paths -> SUBSET Lines] /\ atBegin \in [1..MaxLoads -> SUBSET Lines]
  BY <1>1, <1>2
<1>4. DOMAIN reads \subseteq 1..MaxLoads
  BY <1>1, <1>2
<1>5. QED
  BY <1>1, <1>3, <1>4 DEF LogInv, LogTypes, LogTypeOK

\* Every variable of the parts has its type, and no two rows are the same object.
THEOREM PartsTyped == MCSpec => []TypeOK
<1>1. ListInv => ListTypeOK
  BY DEF ListInv
<1>2. SettingsInv => SettingsTypeOK
  BY DEF SettingsInv
<1>3. LogInv => LogTypeOK
  BY LogTyped
<1>4. PickerInv => PickerTypeOK
  BY DEF PickerInv
<1>5. GameInv => GameTypeOK
  BY DEF GameInv
<1>6. MirrorInv => MirrorTypeOK
  BY DEF MirrorInv
<1>7. QED
  BY <1>1, <1>2, <1>3, <1>4, <1>5, <1>6, PartsImplemented, ListInductive, SettingsInductive,
     LogInductive, PickerInductive, GameInductive, MirrorInductive, PTL DEF TypeOK

\* What was proved of the parts holds of them together, in every state ...
THEOREM PartsSafe ==
    MCSpec => [](SwitchTruth /\ AddedIsKept /\ QuietList /\ QuietGameIsApplied)
  BY PartsImplemented, SwitchesTellTheTruth, AddIsKept, ListIsOfTheField, QuietGamesApply, PTL

\* ... and of every step.
THEOREM PartsStepSafely == MCSpec => TapHitsItsRow /\ ResultKept /\ LogWhole
  BY PartsImplemented, TapsHit, ResultsStay, NoLineIsHidden, PTL

===============================================================================
