---------------------------- MODULE MCRulesApply ----------------------------
\* Who starts yay_apply --rules in the small instances: the watcher never passes
\* a flag, the web UI applies with --force and previews with --dry-run.
EXTENDS RulesApply

CONSTANTS watcher, webui

MCModesOf == [p \in Procs |-> IF p = watcher THEN {"plain"} ELSE {"force", "dry"}]
=============================================================================
