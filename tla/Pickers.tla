------------------------------- MODULE Pickers -------------------------------
(***************************************************************************)
(* "Add" on the rules page: the form of a component rule or of an appops   *)
(* override (`kind'), its validation in the page and again in the rules    *)
(* engine, and the picker, which asks yay_inspect what there is to pick.   *)
(*                                                                         *)
(* A text is the sequence of the classes of its characters: "a" a letter,  *)
(* "0" a digit, "_", "$", ".", ":", " ", and "?" for all others.           *)
(*                                                                         *)
(* A picker may be closed and opened again, for another package, while an  *)
(* earlier request is under way; Enter sends another one at any time.      *)
(*                                                                         *)
(* Bounds: MaxRequests requests; a name is typed once for a form, and the  *)
(* picker is opened before that, since it does not see the name.           *)
(***************************************************************************)
EXTENDS Bridge, Sequences, SequencesExt

CONSTANTS Kinds,        \* the forms looked at: "comp", "appop"
          PackageTexts, \* what is typed into a field for a package
          NameTexts,    \* what is typed as the component or the op
          SafeDigits,   \* every number of so many digits is a long long; 18 in fact
          MaxRequests   \* bound: requests

Chars == {"a", "0", "_", "$", ".", ":", " ", "?"}

ASSUME PickerAssumption ==
    /\ Kinds \subseteq {"comp", "appop"} /\ MaxRequests \in Nat /\ SafeDigits \in Nat
    /\ PackageTexts \cup NameTexts \subseteq Seq(Chars)

VARIABLES
    kind,     \* which form and picker
    adding,   \* addCompModal or addAppopModal
    pkg, name, \* the fields of the form
    added,    \* history: the entry the last tap added to the list, if any
    picker,   \* is the picker open?
    field,    \* the picker's package field
    waits, loaded, failure,  \* its loading, loaded and error
    items,    \* the package its list is of
    requests, \* the requests that wait for the host
    sent,     \* how many were sent
    typed     \* history: the field was changed since the last load

formVars == <<kind, adding, pkg, name, added>>
listOf == <<waits, loaded, failure, items, requests, sent, typed>>
pickerVars == <<host, formVars, picker, field, listOf>>

Blank == <<>>
NoEntry == {}
Results == {"full", "empty", "error"}

\* What the config has as an op: a string, or a number that is a long long, that comes
\* out negative as one (from 2^63), or that JSON has as a float or as null (from 2^64).
Values == {"text", "fits", "wraps", "float"}

PickerTypeOK ==
    /\ host \in Hosts /\ kind \in Kinds
    /\ {pkg, name, field, items} \subseteq Seq(Chars)
    /\ added \subseteq [pkg : Seq(Chars), name : Seq(Chars), value : Values]
    /\ {adding, picker, waits, loaded, failure, typed} \subseteq BOOLEAN
    /\ requests \in Seq([pkg : Seq(Chars), st : {"issued", "answered"}, res : Results])
    /\ sent \in 0..MaxRequests

PickerInit ==
    /\ host \in Hosts /\ kind \in Kinds
    /\ adding = FALSE /\ pkg = Blank /\ name = Blank /\ added = NoEntry
    /\ picker = FALSE /\ field = Blank /\ waits = FALSE /\ loaded = FALSE
    /\ failure = FALSE /\ items = Blank /\ requests = <<>> /\ sent = 0 /\ typed = FALSE

-----------------------------------------------------------------------------
(* Texts: the validation of the page and that of the engine.               *)

Over(t, chars) == \A i \in DOMAIN t : t[i] \in chars
StartsWith(t, c) == t # Blank /\ Head(t) = c
EndsWith(t, c) == t # Blank /\ Last(t) = c
Twice(t, c) == \E i \in 1..Len(t) - 1 : t[i] = c /\ t[i + 1] = c

Trim(t) == LET inner == {i \in DOMAIN t : t[i] # " "}
           IN  IF inner = {} THEN Blank ELSE SubSeq(t, Min(inner), Max(inner))

isValidIdentifier(s) ==
    /\ s # Blank /\ Over(s, {"a", "0", ".", "_", "$"})
    /\ ~StartsWith(s, ".") /\ ~EndsWith(s, ".") /\ ~Twice(s, ".")

isValidOp_NoColonCheck(op) ==
    LET s == Trim(op)
    IN  /\ s # Blank /\ Over(s, {"a", "0", ".", "_", "$", ":"})
        /\ ~StartsWith(s, ".") /\ ~EndsWith(s, ".") /\ ~Twice(s, ".")

isValidOp(op) ==
    LET s == Trim(op)
    IN  /\ s # Blank
        /\ \/ Over(s, {"0"})
           \/ /\ Over(s, {"a", "0", ".", "_", "$", ":"})
              /\ \A c \in {".", ":"} : ~StartsWith(s, c) /\ ~EndsWith(s, c) /\ ~Twice(s, c)

\* PACKAGE_RE: at least two segments, each a letter and then letters, digits and _.
isPackage(t) ==
    LET starts == {1} \cup {i + 1 : i \in {j \in DOMAIN t : t[j] = "."}}
    IN  /\ Over(t, {"a", "0", "_", "."}) /\ \E i \in DOMAIN t : t[i] = "."
        /\ \A i \in starts : i \in DOMAIN t /\ t[i] = "a"

looks_like_valid_identifier(s) ==
    /\ s # Blank
    /\ Over(s, {"a", "0", ".", "_", "$"})
    /\ Head(s) # "." /\ Last(s) # "."
    /\ ~Twice(s, ".")

looks_like_valid_op_name(s) ==
    /\ s # Blank
    /\ Over(s, {"a", "0", ".", "_", "$", ":"})
    /\ {Head(s), Last(s)} \cap {".", ":"} = {}
    /\ ~Twice(s, ".") /\ ~Twice(s, ":")

\* The entries apply_components and apply_appops make a command of: a number that
\* comes out negative is malformed, and a float neither number nor name.
Kept(e) ==
    /\ looks_like_valid_identifier(e.pkg)
    /\ CASE kind = "comp" -> looks_like_valid_identifier(e.name)
         [] kind = "appop" -> \/ e.value = "fits"
                              \/ e.value = "text" /\ looks_like_valid_op_name(e.name)

-----------------------------------------------------------------------------
(* The form.                                                               *)

\* openAddComponent and openAddAppop
OpenForm ==
    /\ ~adding /\ adding' = TRUE
    /\ pkg' = Blank /\ name' = Blank /\ added' = NoEntry
    /\ UNCHANGED <<host, kind, picker, field, listOf>>

InForm == adding /\ ~picker

TypePackage ==
    /\ InForm /\ pkg' \in PackageTexts \ {pkg}
    /\ UNCHANGED <<host, kind, adding, name, added, picker, field, listOf>>

TypeName ==
    /\ InForm /\ sent = 0 /\ name = Blank /\ name' \in NameTexts
    /\ UNCHANGED <<host, kind, adding, pkg, added, picker, field, listOf>>

CancelForm ==
    /\ InForm /\ adding' = FALSE
    /\ UNCHANGED <<host, kind, pkg, name, added, picker, field, listOf>>

\* parseInt makes a double of the digits, and save() JSON of that.
Parsed(op) == IF ~Over(op, {"0"}) THEN {"text"}
              ELSE IF Len(op) <= SafeDigits THEN {"fits"}
              ELSE {"fits", "wraps", "float"}

\* addComponent and addAppop
Entries == IF kind = "comp"
           THEN {[pkg |-> pkg, name |-> name, value |-> "text"]}
           ELSE [pkg : {pkg}, name : {Trim(name)}, value : Parsed(Trim(name))]

AddEnabled ==
    /\ isValidIdentifier(pkg)
    /\ IF kind = "comp" THEN isValidIdentifier(name) ELSE isValidOp(name)

ConfirmEntry ==
    /\ InForm /\ AddEnabled
    /\ \E e \in Entries : added' = {e}
    /\ adding' = FALSE
    /\ UNCHANGED <<host, kind, pkg, name, picker, field, listOf>>

-----------------------------------------------------------------------------
(* The picker.                                                             *)

Refused(p) == ~isPackage(p) /\ (kind = "comp" \/ p # Blank)

\* load(), up to its await.  What is not a package throws at once; the page of the
\* appops leaves `loaded' as it is then.
LoadsFor(p, ready) ==
    IF Refused(p)
    THEN /\ failure' = TRUE /\ waits' = FALSE
         /\ loaded' = (ready /\ kind = "appop")
         /\ UNCHANGED <<requests, sent>>
    ELSE /\ sent < MaxRequests /\ sent' = sent + 1
         /\ failure' = FALSE /\ waits' = TRUE /\ loaded' = ready
         /\ requests' = Append(requests, [pkg |-> p, st |-> "issued", res |-> "full"])

\* The watch on `show'.
LoadsOnOpen_Idle(p) == ~waits
LoadsOnOpen(p) == kind = "appop" \/ p # Blank

\* A name yay_inspect has.
Found == IF kind = "comp" THEN <<"a", ".", "a">> ELSE <<"a", ":", "a">>

\* The button for components wants an identifier.
OpenPicker ==
    /\ InForm /\ name \in {Blank, Found} /\ (kind = "comp" => isValidIdentifier(pkg))
    /\ picker' = TRUE /\ field' = pkg /\ items' = Blank /\ typed' = FALSE
    /\ IF LoadsOnOpen(Trim(pkg))
       THEN LoadsFor(Trim(pkg), FALSE)
       ELSE /\ failure' = FALSE /\ loaded' = FALSE /\ UNCHANGED <<waits, requests, sent>>
    /\ UNCHANGED <<host, formVars>>

TypeField ==
    /\ picker /\ field' \in PackageTexts \ {field} /\ typed' = TRUE
    /\ UNCHANGED <<host, formVars, picker, waits, loaded, failure, items, requests, sent>>

\* Enter, or the button; load() of the components returns if there is no package.
Submit ==
    /\ picker /\ (kind = "comp" => Trim(field) # Blank)
    /\ LoadsFor(Trim(field), loaded) /\ typed' = FALSE
    /\ UNCHANGED <<host, formVars, picker, field, items>>

ClosePicker ==
    /\ picker /\ picker' = FALSE
    /\ UNCHANGED <<host, formVars, field, listOf>>

ListOnScreen == picker /\ ~waits /\ ~failure /\ loaded

\* pickComponent and pickAppop
Pick ==
    /\ ListOnScreen /\ picker' = FALSE /\ name' = Found
    /\ UNCHANGED <<host, kind, adding, pkg, added, field, listOf>>

\* yay_inspect's answer.  WebUI X without window.ksu answers with an empty output,
\* which is no JSON, and a browser with the fixture.
Outcomes ==
    CASE ~isLive(host) -> {"full"}
      [] isLive(host) /\ ~isKSU(host) -> {"error"}
      [] isKSU(host) -> IF kind = "comp" THEN Results ELSE {"full", "error"}

Inspect(i) ==
    /\ requests[i].st = "issued"
    /\ InTurn(i, {j \in DOMAIN requests : requests[j].st = "issued"})
    /\ \E res \in Outcomes :
          requests' = [requests EXCEPT ![i].st = "answered", ![i].res = res]
    /\ UNCHANGED <<host, formVars, picker, field, waits, loaded, failure, items, sent, typed>>

\* loading is reset in a finally block.
WaitsAfter_NoFinally(res) == res = "error"
WaitsAfter(res) == FALSE

\* The rest of load().  No component at all is an error too.
Listed(i) ==
    LET r == requests[i]
    IN  /\ r.st = "answered" /\ InTurn(i, DOMAIN requests)
        /\ requests' = RemoveAt(requests, i) /\ waits' = WaitsAfter(r.res)
        /\ items' = IF r.res = "error" THEN items ELSE r.pkg
        /\ loaded' = (r.res # "error" \/ (loaded /\ kind = "appop"))
        /\ failure' = (failure \/ r.res # "full")
        /\ UNCHANGED <<host, formVars, picker, field, sent, typed>>

Answering == \E i \in DOMAIN requests : Inspect(i) \/ Listed(i)

PickerNext == \/ OpenForm \/ TypePackage \/ TypeName \/ CancelForm \/ ConfirmEntry
              \/ OpenPicker \/ TypeField \/ Submit \/ ClosePicker \/ Pick
              \/ Answering

PickerFairness == WF_pickerVars(Answering)
PickerSpec == PickerInit /\ [][PickerNext]_pickerVars /\ PickerFairness

-----------------------------------------------------------------------------
(* Properties.                                                             *)

\* What the Add button accepts, the rules engine does not drop, be it as malformed or
\* silently: the page's isValidIdentifier and isValidOp, after the trimming and
\* parsing of addAppop, agree with rules_engine.cpp's own filters.  They do not for
\* an op of more digits than are safe, which the page accepts all the same.
AddedIsKept ==
    \A e \in added : Kept(e) \/ (e.value # "text" /\ Len(e.name) > SafeDigits)

\* On a host that answers in order, a list that is on the screen when no request is
\* under way and the field was not changed since the last load is the list of the
\* package in the field, however often the picker was closed, opened for another
\* package or submitted before the answers came (the load() of the pickers).
QuietList ==
    host.serial /\ ListOnScreen /\ requests = <<>> /\ ~typed => items = Trim(field)

\* The spinner of a picker ends, whatever fails and however often it was opened or
\* submitted meanwhile.
SpinnerEnds == waits ~> ~waits

=============================================================================
