------------------------------- MODULE LogPage -------------------------------
(***************************************************************************)
(* The log page, while the loggers of yay_apply and yay_watch append to    *)
(* run.log and rotate it to run.log.1.                                     *)
(*                                                                         *)
(* A refresh reads both files at once (Promise.all) and shows them when    *)
(* both have been read; the button can be tapped again in the meantime.    *)
(* A log is the set of its lines, which are numbered.                      *)
(*                                                                         *)
(* Bounds: MaxLines lines logged, MaxLoads refreshes.                      *)
(***************************************************************************)
EXTENDS Bridge, Sequences, Functions

CONSTANTS MaxLines, MaxLoads  \* bounds: lines logged, refreshes

ASSUME LogAssumption == MaxLines \in Nat /\ MaxLoads \in Nat

VARIABLES
    files,    \* the lines of run.log and of run.log.1
    logged,   \* how many lines were ever logged
    reads,    \* the two reads of each load under way
    loads,    \* how many loads were begun
    logs,     \* current and previous
    spinning, \* loading
    atBegin   \* history: the lines in the files when each load began

logVars == <<host, files, logged, reads, loads, logs, spinning, atBegin>>

Paths == {"run.log", "run.log.1"}
Lines == 1..MaxLines
Reads == [st : {"issued", "answered"}, data : SUBSET Lines]

InFiles(l) == l["run.log"] \cup l["run.log.1"]

LogTypeOK ==
    /\ host \in Hosts /\ files \in [Paths -> SUBSET Lines] /\ logged \in 0..MaxLines
    /\ reads \in [DOMAIN reads -> [1..2 -> Reads]] /\ DOMAIN reads \subseteq 1..MaxLoads
    /\ loads \in 0..MaxLoads
    /\ logs \in [Paths -> SUBSET Lines] /\ spinning \in BOOLEAN
    /\ atBegin \in [1..MaxLoads -> SUBSET Lines]

LogInit ==
    /\ host \in Hosts
    /\ files = [p \in Paths |-> {}] /\ logged = 0
    /\ reads = <<>> /\ loads = 0 /\ logs = [p \in Paths |-> {}] /\ spinning = FALSE
    /\ atBegin = [i \in 1..MaxLoads |-> {}]

-----------------------------------------------------------------------------
(* The loggers of a device; the files of the mock do not change.           *)

\* A process that opened run.log before it was rotated goes on writing to that file.
Log ==
    /\ isLive(host) /\ logged < MaxLines /\ logged' = logged + 1
    /\ \E p \in Paths : /\ p = "run.log.1" => files[p] # {}
                        /\ files' = [files EXCEPT ![p] = @ \cup {logged + 1}]
    /\ UNCHANGED <<host, reads, loads, logs, spinning, atBegin>>

\* A run.log that is too long becomes run.log.1, in place of the one there was.
Rotate ==
    /\ isLive(host) /\ files["run.log"] # {}
    /\ files' = [p \in Paths |-> IF p = "run.log" THEN {} ELSE files["run.log"]]
    /\ UNCHANGED <<host, logged, reads, loads, logs, spinning, atBegin>>

-----------------------------------------------------------------------------
(* The page.                                                               *)

\* The order in which load() asks for the two files.
ReadOrder_Swapped == <<"run.log.1", "run.log">>
ReadOrder == <<"run.log", "run.log.1">>

NotYet == [k \in 1..2 |-> [st |-> "issued", data |-> {}]]

Load ==
    LET n == loads + 1
    IN  /\ n <= MaxLoads /\ loads' = n
        /\ atBegin' = [atBegin EXCEPT ![n] = InFiles(files)]
        /\ IF FilesVia(host) = "interface"
           THEN logs' = files /\ spinning' = FALSE /\ UNCHANGED reads
           ELSE /\ spinning' = TRUE
                /\ reads' = [m \in DOMAIN reads \cup {n} |-> IF m = n THEN NotYet ELSE reads[m]]
                /\ UNCHANGED logs
        /\ UNCHANGED <<host, files, logged>>

Issued(n, k) == n \in DOMAIN reads /\ reads[n][k].st = "issued"
\* The reads in the order in which they were asked for.
Turn(n, k) == 2 * n + k
Waiting == UNION {{Turn(n, k) : k \in {j \in 1..2 : Issued(n, j)}} : n \in DOMAIN reads}

\* base64 of the file; readLog and readPrevLog turn an error into an empty text.
ReadFile(n, k) ==
    /\ Issued(n, k) /\ InTurn(Turn(n, k), Waiting)
    /\ reads' = [reads EXCEPT ![n] =
                    [@ EXCEPT ![k] = [st |-> "answered", data |-> files[ReadOrder[k]]]]]
    /\ UNCHANGED <<host, files, logged, loads, logs, spinning, atBegin>>

\* Both are there: what Promise.all resolves to.
Ends(n) == (\A k \in 1..2 : ~Issued(n, k)) /\ InTurn(n, DOMAIN reads)

AnswerTo(n, p) == reads[n][CHOOSE k \in 1..2 : ReadOrder[k] = p].data

LoadEnds(n) ==
    /\ n \in DOMAIN reads /\ Ends(n)
    /\ logs' = [p \in Paths |-> AnswerTo(n, p)] /\ spinning' = FALSE
    /\ reads' = Restrict(reads, DOMAIN reads \ {n})
    /\ UNCHANGED <<host, files, logged, loads, atBegin>>

LogNext == \/ Log \/ Rotate \/ Load
           \/ \E n \in DOMAIN reads : (\E k \in 1..2 : ReadFile(n, k)) \/ LoadEnds(n)

LogSpec == LogInit /\ [][LogNext]_logVars

-----------------------------------------------------------------------------
(* Properties.                                                             *)

\* No rotation between the two reads of a load hides a line: on a host that runs
\* commands in order, what was in one of the files when the load began and still is
\* when it ends is on one of the two tabs (log.js load, logger.cpp rotate_if_needed).
LogWhole ==
    [][\A n \in 1..MaxLoads :
          host.serial /\ n \in DOMAIN reads \ DOMAIN reads' =>
              atBegin[n] \cap InFiles(files) \subseteq InFiles(logs')]_logVars

=============================================================================
