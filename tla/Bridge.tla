------------------------------- MODULE Bridge -------------------------------
(***************************************************************************)
(* helpers/bridge.js: which interface of the host serves a call of the web *)
(* UI.  The host h of a session is a record:                               *)
(*   ksu     window.ksu is there (KernelSU, and some WebUI X hosts)        *)
(*   fi      there is a window.$XxFile interface (WebUI X)                 *)
(*   wx      window.$yay is there and not empty (WebUI X)                  *)
(*   serial  it runs commands one at a time and answers in order           *)
(* The modules of the pages take the answers of the calls from here.       *)
(***************************************************************************)
EXTENDS Naturals

CONSTANTS HasKsu, HasFi, Serial  \* the hosts looked at: sets of Booleans

ASSUME HostAssumption == \A S \in {HasKsu, HasFi, Serial} : S \subseteq BOOLEAN

VARIABLE host

\* The mock of a browser tab answers in order.
Hosts == {h \in [ksu : HasKsu, fi : HasFi, wx : HasFi, serial : Serial] :
             h.wx = h.fi /\ (~h.ksu => h.serial)}

isKSU(h) == h.ksu
isWebUIX(h) == h.wx
isLive(h) == isKSU(h) \/ isWebUIX(h)

\* readFile, writeFile and fileExists: the file interface answers at once,
\* the shell and the browser's mock after other events of the page.
FilesVia(h) == IF h.fi THEN "interface" ELSE IF isKSU(h) THEN "shell" ELSE "mock"

\* exec: without window.ksu a mock answers errno 0, and nothing is run.
ExecVia(h) == IF isKSU(h) THEN "shell" ELSE "mock"

\* Is it the turn of the job at index i, if those at the given indices wait as well?
InTurn(i, waiting) == host.serial => \A j \in waiting : i <= j

=============================================================================
