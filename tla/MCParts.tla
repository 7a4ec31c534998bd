------------------------------- MODULE MCParts -------------------------------
(***************************************************************************)
(* The parts that share no state, but the host of the web UI, checked one  *)
(* after the other: a behaviour is one of the part `focus', and the others *)
(* stand still.                                                            *)
(***************************************************************************)
EXTENDS ListPages, SettingsPage, LogPage, Pickers, GameForm, MirrorPriority

CONSTANT AnyTag  \* the tag of all rows while another page is looked at

VARIABLE focus

MCPackageTexts == {<<>>, <<"a">>, <<"a", ".", "a">>, <<" ", "a", ".", "a", "0">>}
\* Names take "_" as they take "$".
MCNameTexts == UNION {[1..n -> Chars \ {"_"}] : n \in 0..3}

\* Where the host makes a difference: the file interface does not serve the pickers,
\* and of the settings nothing is claimed on a host that changes the order.
HostMatters == CASE focus \in {"lists", "game", "mirror"} -> host.ksu /\ host.serial /\ ~host.fi
                 [] focus = "settings" -> host.serial
                 [] focus = "log"      -> TRUE
                 [] focus = "pickers"  -> ~(host.ksu /\ host.fi)

allVars == <<focus, listVars, settingsVars, logVars, pickerVars, gameVars, mirrorVars>>

MCInit ==
    /\ focus \in {"lists", "settings", "log", "pickers", "game", "mirror"}
    /\ ListInit /\ SettingsInit /\ LogInit /\ PickerInit /\ GameInit /\ MirrorInit
    /\ HostMatters
    /\ focus # "lists" => /\ which = "games"
                          /\ \A i \in DOMAIN list : list[i].tag = AnyTag
    /\ focus # "settings" => flag = [sw \in Switches |-> FALSE]
    /\ focus # "pickers" => kind = "comp"
    /\ focus # "game" => saved = NewGame

Lists_Next ==
    focus = "lists" /\ ListNext /\ UNCHANGED <<settingsVars, logVars, pickerVars, gameVars, mirrorVars>>
Settings_Next ==
    focus = "settings" /\ SettingsNext /\ UNCHANGED <<listVars, logVars, pickerVars, gameVars, mirrorVars>>
Log_Next ==
    focus = "log" /\ LogNext /\ UNCHANGED <<listVars, settingsVars, pickerVars, gameVars, mirrorVars>>
Pickers_Next ==
    focus = "pickers" /\ PickerNext /\ UNCHANGED <<listVars, settingsVars, logVars, gameVars, mirrorVars>>
Game_Next ==
    focus = "game" /\ GameNext /\ UNCHANGED <<listVars, settingsVars, logVars, pickerVars, mirrorVars>>
Mirror_Next ==
    focus = "mirror" /\ MirrorNext /\ UNCHANGED <<listVars, settingsVars, logVars, pickerVars, gameVars>>

MCNext == /\ Lists_Next \/ Settings_Next \/ Log_Next \/ Pickers_Next \/ Game_Next \/ Mirror_Next
          /\ UNCHANGED focus

MCSpec == MCInit /\ [][MCNext]_allVars /\ PickerFairness /\ MirrorFairness

\* The parts' type invariants: every variable has its type, and no two rows of a
\* list are the same object of the store.
TypeOK == ListTypeOK /\ SettingsTypeOK /\ LogTypeOK /\ PickerTypeOK /\ GameTypeOK
          /\ MirrorTypeOK

=============================================================================
