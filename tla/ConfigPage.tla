----------------------------- MODULE ConfigPage -----------------------------
(***************************************************************************)
(* A page that edits a config: the store (stores/rules.js, games.js or     *)
(* io.js), the buttons of its view, the bridge and the commands the bridge *)
(* has the host run, with the config file, yay_apply and the watcher at    *)
(* the other end.                                                          *)
(*                                                                         *)
(* A text is what the lists of the page hold; what a tap does to a list is *)
(* the subject of ListPages.  An async function of the store is at any     *)
(* time waiting for one command: `cmds` holds those commands in the order  *)
(* they were issued, and the answer of one is the rest of its function up  *)
(* to the next await.  The host runs the commands one at a time and        *)
(* answers in order (host.serial), or all at once and in any order.        *)
(*                                                                         *)
(* yay_watch, if it runs, starts passes of its own when the file changed;  *)
(* how it comes to know is the subject of ConfigWatch, and what two passes *)
(* at once leave that of RulesApply: here `applied' is the text of the     *)
(* pass that ended last.                                                   *)
(*                                                                         *)
(* Bound: MaxClicks clicks on Apply and Preview.                           *)
(***************************************************************************)
EXTENDS Bridge, Sequences, SequencesExt

CONSTANTS Texts,      \* what the lists of a page can hold
          Empty,      \* the text of empty lists
          Defaults,   \* the first four schedulers of KNOWN_SCHEDULERS
          Absent,     \* no file, or no text
          Truncated,  \* a file the shell has opened with `>' and not yet filled
          Mixed,      \* what two writers of different texts leave
          Pages,      \* the pages looked at: "rules", "games", "io"
          MayFail,    \* may a command fail?
          MaxClicks   \* bound: clicks on Apply and Preview

ASSUME PageAssumption ==
    /\ {Empty, Defaults} \subseteq Texts
    /\ {Absent, Truncated, Mixed} \cap Texts = {}
    /\ Absent # Truncated /\ Absent # Mixed /\ Truncated # Mixed
    /\ Pages \subseteq {"rules", "games", "io"}
    /\ MayFail \in BOOLEAN /\ MaxClicks \in Nat

VARIABLES
    page,     \* which of the three pages this is
    file,     \* the config file
    dirty,    \* is there an event the watcher has not handled?
    applied,  \* the text of the yay_apply that ended last
    watched,  \* does yay_watch run? its MAPPINGS has the files of all three pages
    watchPass, \* the text its own yay_apply has loaded, Absent without one
    clashed,  \* history: did it apply another text beside the page's latest pass?
    shown,    \* the lists of the store
    mounted,  \* has the view been mounted?
    loading, error, saving,  \* the store's flags
    preview,  \* dryRunModal: is the preview on the screen?
    cmds,     \* the commands awaited, in the order of their issue
    clicks,   \* history: the lists at each click, and the button clicked
    edited,   \* history: an edit since the load began
    failed    \* history: a command failed, or a write was lost

device  == <<file, dirty, applied>>
watcher == <<watched, watchPass, clashed>>
store   == <<shown, loading, error, saving>>
view    == <<mounted, preview>>
history == <<clicks, edited, failed>>
vars    == <<host, page, device, watcher, store, view, cmds, history>>

FileTexts == Texts \cup {Absent, Truncated, Mixed}

Verbs == {"read", "write", "apply", "dryrun"}

Commands == [verb : Verbs,
             then : {"none", "apply", "dryrun"},      \* what follows a write
             click : 0..MaxClicks,                    \* the click it belongs to
             st : {"issued", "running", "answered"},
             data : FileTexts,                        \* what it writes, or has read
             ok : BOOLEAN]                            \* errno = 0

Command(verb, then, n, text) ==
    [verb |-> verb, then |-> then, click |-> n, st |-> "issued", data |-> text, ok |-> TRUE]

\* Every variable has its type, and a page has at most one load in flight.
TypeOK ==
    /\ host \in Hosts /\ page \in Pages
    /\ file \in FileTexts /\ dirty \in BOOLEAN /\ applied \in FileTexts
    /\ watched \in BOOLEAN /\ watchPass \in Texts \cup {Absent} /\ clashed \in BOOLEAN
    /\ shown \in Texts /\ mounted \in BOOLEAN
    /\ loading \in BOOLEAN /\ error \in BOOLEAN /\ saving \in BOOLEAN
    /\ preview \in BOOLEAN
    /\ cmds \in Seq(Commands)
    /\ \A i, j \in DOMAIN cmds : cmds[i].verb = "read" /\ cmds[j].verb = "read" => i = j
    /\ clicks \in Seq([text : Texts, by : {"apply", "dryrun"}]) /\ Len(clicks) <= MaxClicks
    /\ edited \in BOOLEAN /\ failed \in BOOLEAN

Init ==
    /\ host \in Hosts /\ page \in Pages
    /\ file \in Texts \cup {Absent} /\ dirty = FALSE /\ applied = Absent
    /\ watched \in {FALSE, isLive(host)} /\ watchPass = Absent /\ clashed = FALSE
    /\ shown = IF page = "io" THEN Defaults ELSE Empty
    /\ mounted = FALSE /\ loading = FALSE /\ error = FALSE /\ saving = FALSE
    /\ preview = FALSE
    /\ cmds = <<>> /\ clicks = <<>> /\ edited = FALSE /\ failed = FALSE

-----------------------------------------------------------------------------
(* The page: its event handlers, up to their first await.                  *)

\* An empty list of schedulers is shown as the defaults.
Decoded(text) == IF page = "io" /\ text = Empty THEN Defaults ELSE text

\* The end of load(): what it shows, or the error instead.
Shows(text, ok) ==
    /\ loading' = FALSE
    /\ shown' = IF ok /\ text \in Texts THEN Decoded(text) ELSE shown
    /\ error' = ~(ok /\ text \in Texts)

\* <keep-alive> mounts a view once, however often the user comes back to it.
FirstVisit_Always == TRUE
FirstVisit == ~mounted

\* onMounted(() => store.load())
Mount ==
    /\ FirstVisit /\ mounted' = TRUE /\ edited' = FALSE
    /\ IF FilesVia(host) = "interface"
       THEN Shows(file, file # Absent) /\ UNCHANGED cmds
       ELSE /\ loading' = TRUE /\ error' = FALSE
            /\ cmds' = Append(cmds, Command("read", "none", 0, Absent))
            /\ UNCHANGED shown
    /\ UNCHANGED <<host, page, device, watcher, saving, preview, clicks, failed>>

\* The modal of the preview covers the page while it is open.
Reachable == mounted /\ ~preview

\* The lists are rendered neither during a load nor after a failed one.
ListShown_Always == TRUE
ListShown == ~loading /\ ~error

\* A tap on the lists; the games page's button "+" is there in any case.
Edit ==
    /\ Reachable /\ (ListShown \/ page = "games")
    /\ \E text \in Texts \ {shown} :
         /\ ListShown \/ text # Empty
         /\ shown' = text
    /\ edited' = TRUE
    /\ UNCHANGED <<host, page, device, watcher, loading, error, saving, view, cmds, clicks,
                   failed>>

SavesFirst_NotAwaited(verb) ==
    LET n == Len(clicks) + 1
    IN  /\ n <= MaxClicks /\ clicks' = Append(clicks, [text |-> shown, by |-> verb])
        /\ saving' = TRUE
        /\ cmds' = cmds \o <<Command(verb, "none", n, Absent), Command("write", "none", n, shown)>>
        /\ UNCHANGED <<file, dirty, failed>>

\* The write of save(): its text is taken from the lists now.
SavesFirst(verb) ==
    LET n == Len(clicks) + 1
        next == Command(verb, "none", n, Absent)
    IN  /\ n <= MaxClicks /\ clicks' = Append(clicks, [text |-> shown, by |-> verb])
        /\ IF FilesVia(host) = "interface"
           THEN /\ \/ file' = shown /\ UNCHANGED failed
                   \/ MayFail /\ failed' = TRUE /\ UNCHANGED file
                /\ dirty' = watched
                /\ cmds' = Append(cmds, next)
                /\ UNCHANGED saving
           ELSE /\ saving' = TRUE
                /\ cmds' = Append(cmds, Command("write", verb, n, shown))
                /\ UNCHANGED <<file, dirty, failed>>

\* The Apply button is disabled while the store is saving.
ApplyEnabled_Always == TRUE
ApplyEnabled == ~saving

ClickApply ==
    /\ Reachable /\ ApplyEnabled
    /\ SavesFirst("apply")
    /\ UNCHANGED <<host, page, applied, watcher, shown, loading, error, view, edited>>

\* The Preview button of the rules page is never disabled.
ClickPreview ==
    /\ Reachable /\ page = "rules"
    /\ SavesFirst("dryrun")
    /\ preview' = TRUE
    /\ UNCHANGED <<host, page, applied, watcher, shown, loading, error, mounted, edited>>

ClosePreview ==
    /\ preview /\ preview' = FALSE
    /\ UNCHANGED <<host, page, device, watcher, store, mounted, cmds, history>>

-----------------------------------------------------------------------------
(* The host: it runs the commands.                                         *)

Runnable(i) == /\ cmds[i].st # "answered"
               /\ InTurn(i, {j \in DOMAIN cmds : cmds[j].st # "answered"})

Issued(i, verb)  == Runnable(i) /\ cmds[i].verb = verb /\ cmds[i].st = "issued"
Running(i, verb) == Runnable(i) /\ cmds[i].verb = verb /\ cmds[i].st = "running"

Answered(i, data, ok) ==
    cmds' = [cmds EXCEPT ![i].st = "answered", ![i].data = data, ![i].ok = ok]

\* base64 of the file, or errno 3 without one; the mock's map has the file.
RunRead(i) ==
    /\ Issued(i, "read") /\ Answered(i, file, file # Absent)
    /\ UNCHANGED <<device, failed>>

\* The shell opens the file with `>' before base64 writes to it.
OpenFile(i) ==
    /\ Issued(i, "write") /\ FilesVia(host) = "shell"
    /\ file' = Truncated
    /\ cmds' = [cmds EXCEPT ![i].st = "running"]
    /\ UNCHANGED <<dirty, applied, failed>>

\* base64 writes from the start of the file, over what another writer left.
FillFile(i) ==
    /\ Running(i, "write")
    /\ file' \in {cmds[i].data} \cup (IF file \in {Truncated, cmds[i].data} THEN {} ELSE {Mixed})
    /\ dirty' = watched
    /\ Answered(i, cmds[i].data, TRUE)
    /\ UNCHANGED <<applied, failed>>

WriteMock(i) ==
    /\ Issued(i, "write") /\ FilesVia(host) = "mock"
    /\ file' = cmds[i].data
    /\ Answered(i, cmds[i].data, TRUE)
    /\ UNCHANGED <<dirty, applied, failed>>

\* yay_apply loads the config, ...
StartPass(i) ==
    /\ \E verb \in {"apply", "dryrun"} : Issued(i, verb)
    /\ ExecVia(host) = "shell"
    /\ cmds' = [cmds EXCEPT ![i].st = "running", ![i].data = file]
    /\ clashed' = IF cmds[i].verb = "apply" THEN watchPass \notin {Absent, file} ELSE clashed
    /\ UNCHANGED <<device, failed>>

\* ... applies it if it is one, and exits with 0 in any case.
EndPass(i) ==
    /\ \E verb \in {"apply", "dryrun"} : Running(i, verb)
    /\ applied' = IF cmds[i].verb = "apply" /\ cmds[i].data \in Texts
                  THEN cmds[i].data ELSE applied
    /\ Answered(i, cmds[i].data, TRUE)
    /\ UNCHANGED <<file, dirty, failed>>

\* exec without window.ksu: errno 0 after a delay.
PassMock(i) ==
    /\ \E verb \in {"apply", "dryrun"} : Issued(i, verb)
    /\ ExecVia(host) = "mock"
    /\ Answered(i, Absent, TRUE)
    /\ UNCHANGED <<device, failed>>

\* The shell, base64 or yay_apply fails or is killed, before or after it began.
Fail(i) ==
    /\ MayFail /\ Runnable(i) /\ isKSU(host)
    /\ failed' = TRUE
    /\ Answered(i, cmds[i].data, FALSE)
    /\ UNCHANGED device

Run(i) == /\ \/ StartPass(i)
             \/ /\ \/ RunRead(i) \/ OpenFile(i) \/ FillFile(i) \/ WriteMock(i)
                   \/ EndPass(i) \/ PassMock(i) \/ Fail(i)
                /\ UNCHANGED clashed
          /\ UNCHANGED <<host, page, watched, watchPass, store, view, clicks, edited>>

-----------------------------------------------------------------------------
(* The watcher: one yay_apply after another.                               *)

\* Is a pass of the page that loaded another text under way?
AppliesOther(text) ==
    \E i \in DOMAIN cmds :
        cmds[i].verb = "apply" /\ cmds[i].st = "running" /\ cmds[i].data # text

\* It starts one for a file it was told of, which loads the file as it is now; a
\* text that is no config ends it, and so may the hash of the rules in the cache.
WatchLoads ==
    /\ dirty /\ watchPass = Absent
    /\ dirty' = FALSE
    /\ \/ watchPass' = IF file \in Texts THEN file ELSE Absent
       \/ page = "rules" /\ watchPass' = Absent
    /\ clashed' = (clashed \/ (watchPass' # Absent /\ AppliesOther(file)))
    /\ UNCHANGED <<host, page, file, applied, watched, store, view, cmds, history>>

\* It applies what it loaded, however late, and the watcher goes on.
WatchApplies ==
    /\ watchPass # Absent
    /\ applied' = watchPass /\ watchPass' = Absent
    /\ UNCHANGED <<host, page, file, dirty, watched, clashed, store, view, cmds, history>>

-----------------------------------------------------------------------------
(* The page: the rest of its async functions, when an answer comes.        *)

Answer(i, verb) == /\ cmds[i].st = "answered" /\ cmds[i].verb = verb
                   /\ InTurn(i, DOMAIN cmds)

Loaded(i) ==
    /\ Answer(i, "read") /\ Shows(cmds[i].data, cmds[i].ok)
    /\ cmds' = RemoveAt(cmds, i)
    /\ UNCHANGED <<saving, view>>

\* saving is reset in a finally block.
SavingAfter_NoFinally(ok) == ~ok
SavingAfter(ok) == FALSE

\* The write is over: the function goes on with its next command, or rejects.
Saved(i) ==
    LET c == cmds[i]
    IN  /\ Answer(i, "write") /\ saving' = SavingAfter(c.ok)
        /\ cmds' = IF c.ok /\ c.then # "none"
                   THEN Append(RemoveAt(cmds, i), Command(c.then, "none", c.click, Absent))
                   ELSE RemoveAt(cmds, i)
        /\ UNCHANGED <<shown, loading, error, view>>

\* What the toast says of the pass, or the preview of the dry run.
Told(i) ==
    /\ Answer(i, "apply") \/ Answer(i, "dryrun")
    /\ cmds' = RemoveAt(cmds, i)
    /\ UNCHANGED <<store, view>>

Continue(i) == /\ Loaded(i) \/ Saved(i) \/ Told(i)
               /\ UNCHANGED <<host, page, device, watcher, history>>

User == Mount \/ Edit \/ ClickApply \/ ClickPreview \/ ClosePreview
System == WatchLoads \/ WatchApplies \/ \E i \in DOMAIN cmds : Run(i) \/ Continue(i)

Next == User \/ System
Spec == Init /\ [][Next]_vars

\* Commands end and are answered; the user does what he likes.
FairSpec == Spec /\ WF_vars(System)

-----------------------------------------------------------------------------
(* Properties.                                                             *)

\* On a host that runs commands in order, what yay_apply reads for a click on
\* Apply or Preview is what the page showed at the click, however the user edits
\* and clicks on while save() and the pass are under way (saveAndApply,
\* previewDryRun); or what it showed at a later click, on the rules page, whose
\* Preview button is never disabled, and where the file interface writes at once.
AppliesTheClick ==
    host.ksu /\ host.serial /\ ~failed =>
        \A i \in DOMAIN cmds :
            cmds[i].verb \in {"apply", "dryrun"} /\ cmds[i].st # "issued" =>
                \E n \in cmds[i].click..Len(clicks) :
                    /\ n = cmds[i].click \/ page = "rules" \/ host.fi
                    /\ cmds[i].data = clicks[n].text

\* When all is answered and nothing failed, the file is whole and holds the lists
\* as they were at the last click, and if that was on Apply and the host runs
\* commands in order, they are what is applied.  But a pass of the watcher that
\* loaded an older text may end after the click's own: then the watcher applies the
\* file once more, or is about to, save on the rules page, where the hash cache may
\* keep it from that.
LastClickWins ==
    cmds = <<>> /\ clicks # <<>> /\ ~failed =>
        LET last == clicks[Len(clicks)]
        IN  /\ host.serial \/ page # "rules" => file = last.text
            /\ host.ksu /\ host.serial /\ last.by = "apply" =>
                  \/ applied = last.text /\ watchPass \in {Absent, last.text}
                  \/ clashed /\ (dirty \/ watchPass = last.text \/ page = "rules")

\* The answer to a load never overwrites an edit: once the lists of the rules or I/O
\* page were edited, only a further edit, which waits for no command, changes them.
\* (The games page can be edited while its load is under way.)
LoadKeepsEdits ==
    [][page # "games" /\ edited /\ shown' # shown => edited' /\ cmds' = cmds]_vars

\* The Apply button is enabled again and again: no failed, overtaken or repeated
\* save leaves `saving' set.
ApplyComesBack == []<>(~saving)

\* A preview is for "previewing the effect of a config change before committing
\* to it" (README.md:93): what is applied was applied with the Apply button.
PreviewIsNoCommit ==
    applied # Absent => \E n \in DOMAIN clicks : clicks[n] = [text |-> applied, by |-> "apply"]

=============================================================================
