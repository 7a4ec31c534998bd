------------------------------ MODULE ListPages ------------------------------
(***************************************************************************)
(* The lists of the Rules, Games and I/O pages, and what a tap does to     *)
(* them.  A row is an object of the store; `id' is its identity, which     *)
(* indexOf compares, and `tag' what the search and the forms see of it.    *)
(*                                                                         *)
(* A view shows the rows the search leaves, and a tap on one of them goes  *)
(* to the store with an index into the whole list.  The games page keeps   *)
(* such an index (editIdx) as long as its modal is open.                   *)
(*                                                                         *)
(* A modal fades out for 200 ms (Modal.vue), and its buttons still work.   *)
(*                                                                         *)
(* Bound: MaxIds rows ever created.                                        *)
(***************************************************************************)
EXTENDS Naturals, Sequences, FiniteSets, SequencesExt

CONSTANTS Tags,     \* packages, or schedulers
          NoTag,    \* no search, or an empty field
          Lists,    \* the lists looked at: "components", "appops", "games", "io"
          MaxIds    \* bound: rows ever created

ASSUME ListAssumption ==
    /\ NoTag \notin Tags /\ MaxIds \in Nat \ {0, 1}
    /\ Lists \subseteq {"components", "appops", "games", "io"}

VARIABLES
    list,     \* the rows of the store
    which,    \* which list this is
    search,   \* searchQ
    modal,    \* the form's modal: "closed", "open", "leaving"
    editIdx,  \* index of the edited game, 0 for null
    form,     \* the tag in the form
    opened,   \* history: the row the modal was opened for, 0 for a new one
    tapped    \* history: the row the last tap was on

listVars == <<list, which, search, modal, editIdx, form, opened, tapped>>

Rows == [id : 1..MaxIds, tag : Tags, on : BOOLEAN]
Row(i, t) == [id |-> i, tag |-> t, on |-> TRUE]

\* Every variable has its type, and no two rows are the same object.
ListTypeOK ==
    /\ list \in Seq(Rows) /\ which \in Lists
    /\ \A i, j \in DOMAIN list : list[i].id = list[j].id => i = j
    /\ search \in Tags \cup {NoTag} /\ form \in Tags \cup {NoTag}
    /\ modal \in {"closed", "open", "leaving"} /\ editIdx \in Nat
    /\ opened \in 0..MaxIds /\ tapped \in 0..MaxIds

\* A config of two rows, loaded.
ListInit ==
    /\ which \in Lists
    /\ \E s, t \in Tags : /\ which = "io" => s # t
                          /\ list = <<Row(1, s), Row(2, t)>>
    /\ search = NoTag /\ modal = "closed" /\ editIdx = 0 /\ form = NoTag
    /\ opened = 0 /\ tapped = 0

\* The ids a row that is created now may get: the store pushes a new object.
FreshIds_Shared == 1..MaxIds
FreshIds == {i \in 1..MaxIds : \A j \in DOMAIN list : list[j].id # i}

-----------------------------------------------------------------------------
(* The list on the page.                                                   *)

HasSearch == which \in {"components", "games"}

\* filteredComponents and filtered, `includes' of the search text: where the rows on the
\* page are in the list.
Shown == {i \in DOMAIN list : search \in {NoTag, list[i].tag}}

\* indexOf(row) on the pages with a search, the row's own index on the others.
IndexOf_Shown(k) == Cardinality({j \in Shown : j <= k})
IndexOf(k) == IF HasSearch THEN CHOOSE j \in DOMAIN list : list[j].id = list[k].id ELSE k

\* Nothing below a modal can be tapped.
Tappable(k) == modal = "closed" /\ k \in Shown

\* splice(idx, 1) of one element; an index past the end removes nothing.
Spliced(l, idx) == IF idx \in DOMAIN l THEN RemoveAt(l, idx) ELSE l

TapOn(id) == tapped' = id /\ UNCHANGED which
FormIdle == UNCHANGED <<modal, editIdx, form, opened>>

Search ==
    /\ modal = "closed" /\ HasSearch
    /\ search' \in (Tags \cup {NoTag}) \ {search}
    /\ TapOn(0) /\ FormIdle /\ UNCHANGED list

\* toggleComponent, toggleAppop, toggleGame
Toggle(k) ==
    /\ Tappable(k) /\ which # "io"
    /\ list' = [list EXCEPT ![IndexOf(k)].on = ~@]
    /\ TapOn(list[k].id) /\ FormIdle /\ UNCHANGED search

\* removeComponent, removeAppop, removeScheduler
RemoveRow(k) ==
    /\ Tappable(k) /\ which # "games"
    /\ list' = Spliced(list, IndexOf(k))
    /\ TapOn(list[k].id) /\ FormIdle /\ UNCHANGED search

Swapped(l, i, j) == [l EXCEPT ![i] = l[j], ![j] = l[i]]

\* moveUp and moveDown; their buttons are disabled at the ends.
Move(k, to) ==
    /\ Tappable(k) /\ which = "io" /\ to \in DOMAIN list /\ to \in {k - 1, k + 1}
    /\ list' = Swapped(list, k, to)
    /\ TapOn(list[k].id) /\ FormIdle /\ UNCHANGED search

\* A chip of availableSchedulers; addScheduler refuses what is in the list.
AddScheduler(t) ==
    /\ which = "io" /\ modal = "closed"
    /\ \A i \in DOMAIN list : list[i].tag # t
    /\ \E id \in FreshIds : list' = Append(list, Row(id, t)) /\ TapOn(id)
    /\ FormIdle /\ UNCHANGED search

-----------------------------------------------------------------------------
(* The modals: "+", the game tapped on, the fields and the buttons.        *)

OpenAdd ==
    /\ which # "io" /\ modal = "closed" /\ modal' = "open"
    /\ editIdx' = 0 /\ form' = NoTag /\ opened' = 0
    /\ TapOn(0) /\ UNCHANGED <<list, search>>

OpenEdit(k) ==
    /\ which = "games" /\ Tappable(k) /\ modal' = "open"
    /\ editIdx' = IndexOf(k) /\ form' = list[IndexOf(k)].tag
    /\ opened' = list[k].id
    /\ TapOn(list[k].id) /\ UNCHANGED <<list, search>>

Type ==
    /\ modal = "open" /\ form' \in (Tags \cup {NoTag}) \ {form}
    /\ TapOn(opened) /\ UNCHANGED <<list, search, modal, editIdx, opened>>

\* The buttons of the modal work as long as it is on the screen.
ButtonsWork == modal # "closed"

\* show = false: the modal fades out.
Closes == modal' = "leaving"

\* confirmAddComp, confirmAddAppop, and confirmEdit without an index.
ConfirmAdd ==
    /\ ButtonsWork /\ form # NoTag /\ editIdx = 0
    /\ Closes
    /\ \E id \in FreshIds : list' = Append(list, Row(id, form)) /\ TapOn(id)
    /\ UNCHANGED <<search, editIdx, form, opened>>

\* Object.assign(games[editIdx], data), where data.enabled is true; it throws when
\* there is no such game any more.
ConfirmEdit ==
    /\ ButtonsWork /\ form # NoTag /\ editIdx \in DOMAIN list
    /\ Closes
    /\ list' = [list EXCEPT ![editIdx].tag = form, ![editIdx].on = TRUE]
    /\ TapOn(opened) /\ UNCHANGED <<search, editIdx, form, opened>>

\* removeAndClose; the button is there if the modal edits a game.
RemoveAndClose ==
    /\ ButtonsWork /\ editIdx # 0
    /\ Closes
    /\ list' = Spliced(list, editIdx)
    /\ TapOn(opened) /\ UNCHANGED <<search, editIdx, form, opened>>

Cancel ==
    /\ modal = "open" /\ modal' = "leaving"
    /\ TapOn(0) /\ UNCHANGED <<list, search, editIdx, form, opened>>

\* The 200 ms are over.
Faded ==
    /\ modal = "leaving" /\ modal' = "closed"
    /\ TapOn(0) /\ UNCHANGED <<list, search, editIdx, form, opened>>

OnRow(k) == \/ Toggle(k) \/ RemoveRow(k) \/ OpenEdit(k)
            \/ \E to \in DOMAIN list : Move(k, to)

ListNext == \/ \E k \in Shown : OnRow(k)
            \/ \E t \in Tags : AddScheduler(t)
            \/ Search \/ OpenAdd \/ Type \/ Cancel \/ Faded
            \/ ConfirmAdd \/ ConfirmEdit \/ RemoveAndClose

ListSpec == ListInit /\ [][ListNext]_listVars

-----------------------------------------------------------------------------
(* Properties.                                                             *)

\* Each two of the rows other than `id', in their order in l, are in m in this order.
KeepsOthers(l, m, id) ==
    \A i, j \in DOMAIN l :
        i <= j /\ l[i].id # id /\ l[j].id # id =>
            \E k, n \in DOMAIN m : k <= n /\ m[k] = l[i] /\ m[n] = l[j]

\* A tap changes no other row than the one it is on and keeps the order of the
\* others, with a search on the page or not, and whatever happened to the list
\* between the opening of a game and its Save or Delete: indexOf and editIdx find
\* the right row.  (A second tap on Delete, while the modal fades out, removes the
\* next game.)
TapHitsItsRow ==
    [][modal # "leaving" =>
          /\ KeepsOthers(list, list', tapped')
          /\ KeepsOthers(list', list, tapped')]_listVars

=============================================================================
