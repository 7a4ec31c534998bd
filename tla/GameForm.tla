------------------------------ MODULE GameForm ------------------------------
(***************************************************************************)
(* A game of the games page, from its form to apply_game_mode: the form    *)
(* warns of what the backend ignores, a downscale off Android's grid or a  *)
(* log directory outside the game's own storage.                           *)
(*                                                                         *)
(* A directory is a path under one of the two allowed roots or not, and    *)
(* the segments after it: "p" is the game's package, "q" any other name,   *)
(* ".." one with two dots in it, and "none" stands before or after a       *)
(* double or a last slash.                                                 *)
(*                                                                         *)
(* Bounds: MaxSegments segments; the form is opened once, with at most one *)
(* line of log directories.                                                *)
(***************************************************************************)
EXTENDS Naturals, Sequences, FiniteSets

CONSTANT MaxSegments  \* bound: the segments of a path

ASSUME GameFormAssumption == MaxSegments \in Nat \ {0}

VARIABLES
    draft,   \* the form
    editing, \* "not yet", "open", "done": the form's modal
    saved,   \* the game in game_config.json
    quiet,   \* history: was it saved without a warning?
    result   \* what the last apply_game_mode after the save has done, if any

gameVars == <<draft, editing, saved, quiet, result>>

Segments == {"p", "q", "..", "none"}
Dirs == [rooted : BOOLEAN, segs : UNION {[1..n -> Segments] : n \in 1..MaxSegments}]
DirLines == {{}} \cup {{d} : d \in Dirs}

\* "grid" is 0.5 to 0.9, "off" any other number.
Downscales == {"grid", "disable", "off", "unset"}
Games == [downscale : Downscales, cleanup_logs : BOOLEAN, log_dirs : DirLines]

GameTypeOK ==
    /\ {draft, saved} \subseteq Games /\ quiet \in BOOLEAN
    /\ editing \in {"not yet", "open", "done"}
    /\ result \subseteq [downscaled : BOOLEAN, purged : DirLines]

NewGame == [downscale |-> "grid", cleanup_logs |-> FALSE, log_dirs |-> {}]

\* A game from the config, perhaps edited by hand.
GameInit ==
    /\ draft = NewGame /\ editing = "not yet" /\ quiet = FALSE /\ result = {}
    /\ \E d \in Downscales, b \in BOOLEAN :
          saved = [NewGame EXCEPT !.downscale = d, !.cleanup_logs = b]

-----------------------------------------------------------------------------
(* The page.                                                               *)

OpenGame ==
    /\ editing = "not yet" /\ editing' = "open"
    /\ draft' = [saved EXCEPT !.downscale = IF @ = "unset" THEN "grid" ELSE @]
    /\ UNCHANGED <<saved, quiet, result>>

EditGame ==
    /\ editing = "open"
    /\ \/ \E d \in {"grid", "disable"} : draft' = [draft EXCEPT !.downscale = d]
       \/ draft' = [draft EXCEPT !.cleanup_logs = ~@]
       \/ \* The text area is there only with the cleanup switched on.
          /\ draft.cleanup_logs /\ draft.log_dirs = {}
          /\ \E l \in DirLines : draft' = [draft EXCEPT !.log_dirs = l]
    /\ UNCHANGED <<editing, saved, quiet, result>>

isOffGridDownscale(d) == d \notin {"grid", "disable", "unset"}

isSafePurgeTarget_AnyPackage(d) ==
    /\ \A i \in DOMAIN d.segs : d.segs[i] # ".."
    /\ d.rooted /\ Len(d.segs) > 1

\* The remainder after the root starts with the package and a slash, and goes on.
isSafePurgeTarget(d) ==
    /\ \A i \in DOMAIN d.segs : d.segs[i] # ".."
    /\ d.rooted
    /\ d.segs[1] = "p" /\ Len(d.segs) > 1 /\ Tail(d.segs) # <<"none">>

unsafeLogDirs(g) ==
    IF g.cleanup_logs THEN {d \in g.log_dirs : ~isSafePurgeTarget(d)} ELSE {}

SaveGame ==
    /\ editing = "open" /\ editing' = "done"
    /\ saved' = draft /\ result' = {}
    /\ quiet' = (~isOffGridDownscale(draft.downscale) /\ unsafeLogDirs(draft) = {})
    /\ UNCHANGED draft

-----------------------------------------------------------------------------
(* apply_game_mode.                                                        *)

path_contains_segment(d) == \E i \in DOMAIN d.segs : d.segs[i] = "p"

is_safe_purge_target(d) ==
    /\ \A i \in DOMAIN d.segs : d.segs[i] # ".."
    /\ d.rooted
    /\ Len(d.segs) > 1 /\ Tail(d.segs) # <<"none">>
    /\ path_contains_segment(d)

ApplyGame ==
    /\ result' = {[downscaled |-> saved.downscale \in {"grid", "disable"},
                   purged |-> IF saved.cleanup_logs
                              THEN {d \in saved.log_dirs : is_safe_purge_target(d)}
                              ELSE {}]}
    /\ UNCHANGED <<draft, editing, saved, quiet>>

GameNext == OpenGame \/ EditGame \/ SaveGame \/ ApplyGame
GameSpec == GameInit /\ [][GameNext]_gameVars

-----------------------------------------------------------------------------
(* Properties.                                                             *)

\* A game saved without a warning on its form is applied as it was saved: the
\* downscale command is run, every log directory is purged if the cleanup is on, and
\* each is below the game's own directory, which game_mode.cpp alone does not see to
\* (path_contains_segment finds the package anywhere in the path).
QuietGameIsApplied ==
    quiet => \A r \in result :
                 /\ r.downscaled /\ (saved.cleanup_logs => r.purged = saved.log_dirs)
                 /\ \A d \in r.purged : d.segs[1] = "p"

=============================================================================
