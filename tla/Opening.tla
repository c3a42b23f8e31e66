------------------------------ MODULE Opening ------------------------------
(***************************************************************************)
(* How the phone's app opens: it checks the form of the saved data, starts *)
(* the node and looks for a name, and asks a new user for one.             *)
(*                                                                         *)
(* The app may be killed at any moment.  The device's storage (external)   *)
(* may refuse a read or a write; it runs them in order.                    *)
(***************************************************************************)
EXTENDS Naturals, Sequences

CONSTANTS
    Names,          \* names a user may give
    NoName,
    MaxOpenings,    \* bound on the times the app opens
    MaxEdits        \* bound on what is typed in the profile

\* What the constants have to be; the modules that compose this one assume it.
OpeningConstants == NoName \notin Names /\ {MaxOpenings, MaxEdits} \subseteq Nat

VARIABLES
    marker,         \* the saved marker: none, of this build, of another
    wroteBy,        \* history: the builds that wrote data here, this one or another
    name,           \* the saved name
    openings,
    check,          \* the check of the saved data
    booted,         \* the node was started
    gate,           \* the navigator: what it knows of the name
    form,           \* the profile's screen: its text, and what it holds
    saves,          \* names being saved: by the form that is open, or one that was left
    edits,
    typed,          \* history: what the user typed last and did not save
    named,          \* history: a name was saved
    unmarked, overtaken     \* history: see OpeningIsFair

openingVars == <<marker, wroteBy, name, openings, check, booted, gate, form, saves, edits, typed,
                 named, unmarked, overtaken>>

Text == Names \cup {NoName}
NoForm == [at |-> "closed", text |-> NoName, first |-> FALSE, dirty |-> FALSE, reads |-> 0,
           error |-> FALSE]

OpeningTypeOK ==
    /\ marker \in {"none", "this", "other"} /\ wroteBy \subseteq {"this", "other"}
    /\ {name, typed} \subseteq Text
    /\ openings \in 0 .. MaxOpenings /\ edits \in 0 .. MaxEdits
    /\ check \in {"closed", "marker", "keys", "marking", "ok", "refused"}
    /\ gate \in {"unknown", "first", "known"}
    /\ form \in [at : {"closed", "open"}, text : Text, first : BOOLEAN, dirty : BOOLEAN,
                 reads : 0 .. 1, error : BOOLEAN]
    /\ saves \in Seq([name : Names, here : BOOLEAN]) /\ Len(saves) <= 2
    /\ {booted, named, unmarked, overtaken} \subseteq BOOLEAN

\* A new device, or one that another build was used on.
OpeningInit ==
    /\ \/ marker = "none" /\ wroteBy \in {{}, {"other"}}
       \/ marker \in {"this", "other"} /\ wroteBy = {marker}
    /\ name = NoName /\ openings = 0 /\ check = "closed" /\ booted = FALSE /\ gate = "unknown"
    /\ form = NoForm /\ saves = <<>> /\ edits = 0 /\ typed = NoName /\ named = FALSE
    /\ unmarked = FALSE /\ overtaken = FALSE

savedVars == <<marker, wroteBy, name>>
formVars == <<form, saves, edits, typed, overtaken>>

(***************************************************************************)
(* The app, and the check that gates everything.                           *)
(***************************************************************************)

Open ==
    /\ check = "closed" /\ openings < MaxOpenings
    /\ openings' = openings + 1 /\ check' = "marker"
    /\ UNCHANGED <<savedVars, booted, gate, formVars, named, unmarked>>

\* What was typed and not saved is gone with the app.
Killed ==
    /\ check # "closed" /\ check' = "closed" /\ booted' = FALSE /\ gate' = "unknown"
    /\ form' = NoForm /\ saves' = <<>> /\ typed' = NoName
    /\ UNCHANGED <<savedVars, openings, edits, overtaken, named, unmarked>>

CheckMarker ==
    /\ check = "marker"
    /\ check' = CASE marker = "this" -> "ok" [] marker = "other" -> "refused" [] OTHER -> "keys"
    /\ UNCHANGED <<savedVars, openings, booted, gate, formVars, named, unmarked>>

\* Without a marker, data is of a build from before there were markers.
CheckKeys ==
    /\ check = "keys" /\ check' = IF wroteBy # {} THEN "refused" ELSE "marking"
    /\ UNCHANGED <<savedVars, openings, booted, gate, formVars, named, unmarked>>

Mark ==
    /\ check = "marking" /\ marker' = "this" /\ check' = "ok"
    /\ UNCHANGED <<wroteBy, name, openings, booted, gate, formVars, named, unmarked>>

\* A check that cannot be made does not lock the user out.
CheckFails ==
    /\ check \in {"marker", "keys", "marking"} /\ check' = "ok"
    /\ unmarked' = (unmarked \/ marker = "none")
    /\ UNCHANGED <<savedVars, openings, booted, gate, formVars, named>>

\* The node starts, and from now on this build writes data.
Boot ==
    /\ check = "ok" /\ ~booted /\ booted' = TRUE /\ wroteBy' = wroteBy \cup {"this"}
    /\ UNCHANGED <<marker, name, openings, check, gate, formVars, named, unmarked>>

(***************************************************************************)
(* The name.                                                               *)
(***************************************************************************)

\* A new user begins with the profile's form; a name that cannot be read is taken to be there.
LookForName(readable) ==
    /\ check = "ok" /\ gate = "unknown"
    /\ gate' = IF readable /\ name = NoName THEN "first" ELSE "known"
    /\ form' = IF gate' = "first" THEN [NoForm EXCEPT !.at = "open", !.reads = 1] ELSE form
    /\ UNCHANGED <<savedVars, openings, check, booted, saves, edits, typed, overtaken, named, unmarked>>

OpenForm ==
    /\ gate # "unknown" /\ form.at = "closed"
    /\ form' = [NoForm EXCEPT !.at = "open", !.reads = 1]
    /\ UNCHANGED <<savedVars, openings, check, booted, gate, saves, edits, typed, overtaken, named,
                   unmarked>>

\* The form's read answers, whatever was typed meanwhile.
FormReads(readable) ==
    /\ form.reads > 0
    /\ form' = IF readable
               THEN [form EXCEPT !.reads = 0, !.text = name, !.first = name = NoName]
               ELSE [form EXCEPT !.reads = 0, !.error = TRUE]
    /\ overtaken' = (overtaken \/ (readable /\ typed \notin {NoName, name}))
    /\ UNCHANGED <<savedVars, openings, check, booted, gate, saves, edits, typed, named, unmarked>>

\* A link changes the language: the form reads again.
Relabel ==
    /\ form.at = "open" /\ form.reads = 0 /\ edits < MaxEdits /\ edits' = edits + 1
    /\ form' = [form EXCEPT !.reads = 1]
    /\ UNCHANGED <<savedVars, openings, check, booted, gate, saves, typed, overtaken, named, unmarked>>

Type(n) ==
    /\ form.at = "open" /\ edits < MaxEdits /\ edits' = edits + 1
    /\ form' = [form EXCEPT !.text = n, !.dirty = TRUE] /\ typed' = n
    /\ UNCHANGED <<savedVars, openings, check, booted, gate, saves, overtaken, named, unmarked>>

\* The form is gone; a save goes on.
Closes ==
    /\ form' = NoForm /\ typed' = NoName

\* Back, which a first form does not have: the user is not asked about what was typed.
Back ==
    /\ form.at = "open" /\ gate = "known" /\ Closes
    /\ saves' = [i \in DOMAIN saves |-> [saves[i] EXCEPT !.here = FALSE]]
    /\ UNCHANGED <<savedVars, openings, check, booted, gate, edits, overtaken, named, unmarked>>

\* The button works while a save is under way.
Save ==
    /\ form.at = "open" /\ (form.dirty \/ form.first) /\ form.text # NoName /\ Len(saves) < 2
    /\ saves' = Append(saves, [name |-> form.text, here |-> TRUE])
    /\ UNCHANGED <<savedVars, openings, check, booted, gate, form, edits, typed, overtaken, named,
                   unmarked>>

\* Saved, the form goes away, with what was typed meanwhile.
Saved ==
    /\ saves # <<>> /\ name' = Head(saves).name /\ named' = TRUE
    /\ wroteBy' = wroteBy \cup {"this"}
    /\ saves' = [i \in DOMAIN Tail(saves) |-> [Tail(saves)[i] EXCEPT !.here = @ /\ ~Head(saves).here]]
    /\ IF Head(saves).here
       THEN Closes /\ gate' = "known" /\ overtaken' = (overtaken \/ typed \notin {NoName, name'})
       ELSE UNCHANGED <<gate, form, typed, overtaken>>
    /\ UNCHANGED <<marker, openings, check, booted, edits, unmarked>>

\* What could not be saved stays on the form.
SaveFails ==
    /\ saves # <<>> /\ saves' = Tail(saves)
    /\ form' = [form EXCEPT !.error = @ \/ Head(saves).here]
    /\ UNCHANGED <<savedVars, openings, check, booted, gate, edits, typed, overtaken, named, unmarked>>

OpeningNext ==
    \/ Open \/ Killed \/ CheckMarker \/ CheckKeys \/ Mark \/ CheckFails \/ Boot
    \/ OpenForm \/ Relabel \/ Back \/ Save \/ Saved \/ SaveFails
    \/ \E readable \in BOOLEAN : LookForName(readable) \/ FormReads(readable)
    \/ \E n \in Text : Type(n)

(***************************************************************************)
(* Data is refused only where another build wrote some (data-format.ts:    *)
(* 2-3) - except after a check that failed on a new device: its data has   *)
(* no marker then, and is refused the next time.  A user who gave a name   *)
(* is not asked for one again (AppNavigator.tsx:37-41).  And what is typed *)
(* in the profile stays until it is saved (Profile.tsx:64) - except when a *)
(* read, or a save of what was there before, ends after that.              *)
(***************************************************************************)
OpeningIsFair ==
    /\ check = "refused" => "other" \in wroteBy \/ unmarked
    /\ gate = "first" => ~named
    /\ typed # NoName => form.at = "open" /\ (form.text = typed \/ overtaken)
=============================================================================
