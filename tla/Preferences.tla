---------------------------- MODULE Preferences ----------------------------
(***************************************************************************)
(* One strand's settings, muted and hidden, kept with all the others in    *)
(* one slot.  A change reads the slot and writes it back whole.  It is     *)
(* asked for on the strand's screen, which shows it at once and puts the   *)
(* old value back when it did not take, or in the menu of a row of the     *)
(* list, which reads again when it did.                                    *)
(*                                                                         *)
(* The storage (external) serves one slot's calls in order; a call and     *)
(* what follows its answer are one action, and a save may fail.            *)
(***************************************************************************)
EXTENDS Naturals, Sequences

CONSTANTS
    Settings,       \* what can be set
    Depths,         \* the values of each: 0 .. Depths - 1, the first of them the default
    MaxTaps         \* bound on storage calls that wait while the user acts

\* What the constants have to be; the modules that compose this one assume it.
PreferencesConstants == Settings # {} /\ Depths \in Nat \ {0} /\ MaxTaps \in Nat

VARIABLES
    stored,         \* the slot
    calls,          \* storage calls to come
    switch,         \* what the strand's screen shows
    visible,        \* that screen is open
    rowShows,       \* what the row of the list was read to be
    asked,          \* history: what was last asked for and did not fail
    overwritten,    \* history: settings a save put back to what an earlier read had found
    overtaken       \* history: settings whose switch was set to a value from before a change

preferenceVars == <<stored, calls, switch, visible, rowShows, asked, overwritten, overtaken>>

Values == [Settings -> 0 .. Depths - 1]
Defaults == [s \in Settings |-> 0]

\* load: the screen's reading; relist: the list's; read and save: the two steps of a change.
Call == [op : {"load", "relist", "read", "save"}, setting : Settings, value : 0 .. Depths - 1,
         was : 0 .. Depths - 1, from : {"screen", "row"}, all : Values]

PreferencesTypeOK ==
    /\ {stored, switch, rowShows, asked} \subseteq Values /\ calls \in Seq(Call) /\ visible \in BOOLEAN
    /\ {overwritten, overtaken} \subseteq SUBSET Settings

PreferencesInit ==
    /\ stored = Defaults /\ calls = <<>> /\ switch = Defaults /\ visible = FALSE
    /\ rowShows = Defaults /\ asked = Defaults /\ overwritten = {} /\ overtaken = {}

ARead(op) == [op |-> op, setting |-> CHOOSE s \in Settings : TRUE, value |-> 0, was |-> 0,
              from |-> "screen", all |-> Defaults]

\* The settings a change of which is under way.
Changing(cs) == {cs[i].setting : i \in {i \in DOMAIN cs : cs[i].op \in {"read", "save"}}}

Next1(value) == (value + 1) % Depths

(***************************************************************************)
(* The user.                                                               *)
(***************************************************************************)

\* The strand's screen opens, over the defaults until its read answers, or reads again.
Open ==
    /\ Len(calls) < MaxTaps
    /\ visible' = TRUE /\ switch' = IF visible THEN switch ELSE Defaults
    /\ calls' = Append(calls, ARead("load"))
    /\ overtaken' = IF visible THEN overtaken ELSE Settings
    /\ UNCHANGED <<stored, rowShows, asked, overwritten>>

Close ==
    /\ visible /\ visible' = FALSE
    /\ UNCHANGED <<stored, calls, switch, rowShows, asked, overwritten, overtaken>>

\* The switch goes on to the next value, and the change is asked for.
Tap(s) ==
    /\ visible /\ Len(calls) < MaxTaps
    /\ switch' = [switch EXCEPT ![s] = Next1(@)]
    /\ calls' = Append(calls, [ARead("read") EXCEPT !.setting = s, !.value = switch'[s], !.was = switch[s]])
    /\ asked' = [asked EXCEPT ![s] = switch'[s]]
    /\ UNCHANGED <<stored, visible, rowShows, overwritten, overtaken>>

\* The row's menu: the next of the value the list was read with.
ApplyInList(s) ==
    /\ ~visible /\ Len(calls) < MaxTaps
    /\ calls' = Append(calls, [ARead("read") EXCEPT !.setting = s, !.value = Next1(rowShows[s]),
                                                    !.from = "row"])
    /\ asked' = [asked EXCEPT ![s] = Next1(rowShows[s])]
    /\ UNCHANGED <<stored, switch, visible, rowShows, overwritten, overtaken>>

(***************************************************************************)
(* The storage answers.                                                    *)
(***************************************************************************)

Answers(op) == calls # <<>> /\ Head(calls).op = op
ThenCalls(more) == calls' = Tail(calls) \o more

\* The screen shows what was found, changes under way or not.
Loaded ==
    /\ Answers("load") /\ ThenCalls(<<>>)
    /\ switch' = IF visible THEN stored ELSE switch
    /\ overtaken' = IF visible THEN Changing(calls) ELSE overtaken
    /\ UNCHANGED <<stored, visible, rowShows, asked, overwritten>>

Relisted ==
    /\ Answers("relist") /\ ThenCalls(<<>>) /\ rowShows' = stored
    /\ UNCHANGED <<stored, switch, visible, asked, overwritten, overtaken>>

\* patch: all the settings as they are, with the one changed.
PatchRead ==
    /\ Answers("read")
    /\ LET c == Head(calls)
       IN  ThenCalls(<<[c EXCEPT !.op = "save", !.all = [stored EXCEPT ![c.setting] = c.value]]>>)
    /\ UNCHANGED <<stored, switch, visible, rowShows, asked, overwritten, overtaken>>

\* Another change saved since the read is undone.  The list reads again after its own.
PatchSaved ==
    /\ Answers("save")
    /\ LET c == Head(calls)
       IN  /\ stored' = c.all
           /\ overwritten' = (overwritten \cup {s \in Settings : stored[s] # c.all[s]}) \ {c.setting}
           /\ ThenCalls(IF c.from = "row" THEN <<ARead("relist")>> ELSE <<>>)
           /\ overtaken' = IF visible /\ c.from = "row" THEN overtaken \cup {c.setting} ELSE overtaken
    /\ UNCHANGED <<switch, visible, rowShows, asked>>

\* The change did not take: the switch is put back to where it was tapped, also when it was
\* tapped again meanwhile.
PatchFails ==
    /\ Answers("save") /\ ThenCalls(<<>>)
    /\ LET c == Head(calls)
           back == c.from = "screen" /\ visible
       IN  /\ switch' = IF back THEN [switch EXCEPT ![c.setting] = c.was] ELSE switch
           /\ overtaken' = IF back /\ (c.setting \in Changing(Tail(calls)) \/ stored[c.setting] # c.was)
                           THEN overtaken \cup {c.setting} ELSE overtaken
           /\ asked' = IF c.setting \in Changing(Tail(calls)) THEN asked
                       ELSE [asked EXCEPT ![c.setting] = stored[c.setting]]
    /\ UNCHANGED <<stored, visible, rowShows, overwritten>>

PreferencesNext ==
    \/ Open \/ Close
    \/ \E s \in Settings : Tap(s) \/ ApplyInList(s)
    \/ Loaded \/ Relisted \/ PatchRead \/ PatchSaved \/ PatchFails

(***************************************************************************)
(* A setting stays as the user made it, and is shown as it is stored, when *)
(* no storage call is to come: changes do not undo one another (33: "Both  *)
(* settings are device-local and reversible").  Except where two changes   *)
(* overlap, or a change and a reading of the screen.                       *)
(***************************************************************************)
SettingsStay ==
    calls = <<>> =>
        /\ \A s \in Settings \ overwritten : stored[s] = asked[s]
        /\ visible => \A s \in Settings \ (overwritten \cup overtaken) : switch[s] = stored[s]
=============================================================================
