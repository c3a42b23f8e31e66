------------------------------ MODULE Composer ------------------------------
(***************************************************************************)
(* The words in a conversation's composer: typed, sent or put back, and    *)
(* kept as a draft beside the screen.  Each instance of the screen reads   *)
(* the draft as it opens and saves what it shows whenever that changes,    *)
(* the empty text it opens with included.                                  *)
(*                                                                         *)
(* The phone's storage (external) serves one key's calls in order; a call  *)
(* and what follows its answer are one action, and it may fail.            *)
(***************************************************************************)
EXTENDS Naturals, Sequences

CONSTANTS
    MaxTexts,       \* bound on the texts typed: the n-th is n
    MaxMounts,      \* bound on the instances of the screen
    MaxWaiting      \* bound on storage calls that wait while the user acts

\* What the constants have to be; the modules that compose this one assume it.
ComposerConstants == MaxTexts \in Nat /\ MaxMounts \in Nat /\ MaxWaiting \in Nat

VARIABLES
    mounts,         \* the instances so far, the last of them the newest
    shown,          \* the newest is on the screen
    draft,
    editing,
    slot,           \* the draft stored
    waiting,        \* storage calls to come
    flights,        \* store.send and store.edit under way
    texts,          \* how many texts were typed
    owed,           \* history: what was typed and neither sent nor changed by the user
    lost            \* history: what a step known to lose words took away

composerVars == <<mounts, shown, draft, editing, slot, waiting, flights, texts, owed, lost>>

Empty == 0
Message == MaxTexts + 1     \* what a message that may be edited says
Texts == 0 .. Message

Load == [op |-> "load", text |-> Empty, by |-> mounts']
Save(text) == [op |-> "save", text |-> text, by |-> mounts]
Flight == [text : Texts, edits : BOOLEAN, by : 1 .. MaxMounts]

ComposerTypeOK ==
    /\ mounts \in 0 .. MaxMounts /\ shown \in BOOLEAN
    /\ draft \in Texts /\ editing \in BOOLEAN /\ slot \in Texts
    /\ waiting \in Seq([op : {"load", "save"}, text : Texts, by : 0 .. MaxMounts])
    /\ flights \subseteq Flight
    /\ texts \in 0 .. MaxTexts /\ owed \subseteq 1 .. MaxTexts /\ lost \subseteq 1 .. MaxTexts

ComposerInit ==
    /\ mounts = 0 /\ shown = FALSE /\ draft = Empty /\ editing = FALSE
    /\ slot = Empty /\ waiting = <<>> /\ flights = {}
    /\ texts = 0 /\ owed = {} /\ lost = {}

Typed(text) == {text} \ {Empty, Message}

\* setDraft: a change is saved after the render.
setDraft(text) ==
    /\ draft' = text
    /\ waiting' = IF text = draft THEN waiting ELSE Append(waiting, Save(text))

\* The user acts on the screen.
Acts == shown /\ Len(waiting) < MaxWaiting

\* The screen opens: the draft is asked for, and the empty text saved.
Mount ==
    /\ ~shown /\ mounts < MaxMounts
    /\ mounts' = mounts + 1 /\ shown' = TRUE /\ draft' = Empty /\ editing' = FALSE
    /\ waiting' = waiting \o <<Load, [Save(Empty) EXCEPT !.by = mounts']>>
    /\ UNCHANGED <<slot, flights, texts, owed, lost>>

\* The draft is read: a text that is not empty is shown, over whatever is there.  A read that
\* failed, or came after its screen was left, leaves it to the save behind it.
LoadReturns(fails) ==
    /\ waiting # <<>> /\ Head(waiting).op = "load"
    /\ LET here == shown /\ Head(waiting).by = mounts
           text == IF fails THEN Empty ELSE slot
           read == here /\ text # Empty
       IN  /\ draft' = IF read THEN text ELSE draft
           /\ waiting' = IF read /\ text # draft THEN Append(Tail(waiting), Save(text))
                         ELSE Tail(waiting)
           /\ lost' = lost \cup (IF read THEN Typed(draft) \ {text} ELSE Typed(slot))
    /\ UNCHANGED <<mounts, shown, editing, slot, flights, texts, owed>>

\* A save that fails is not repeated: what it should have stored is lost with the screen.
SaveLands(fails) ==
    /\ waiting # <<>> /\ Head(waiting).op = "save"
    /\ slot' = IF fails THEN slot ELSE Head(waiting).text
    /\ lost' = IF fails THEN lost \cup Typed(Head(waiting).text) ELSE lost
    /\ waiting' = Tail(waiting)
    /\ UNCHANGED <<mounts, shown, draft, editing, flights, texts, owed>>

\* onChangeText: the user changes the text, or clears it.
Type(clears) ==
    /\ Acts
    /\ IF clears THEN setDraft(Empty) /\ UNCHANGED texts
       ELSE texts < MaxTexts /\ texts' = texts + 1 /\ setDraft(texts')
    /\ owed' = (owed \ {draft}) \cup Typed(draft')
    /\ UNCHANGED <<mounts, shown, editing, slot, flights, lost>>

\* A new message or an edit is sent: the composer is emptied at once.
doSend ==
    /\ Acts /\ draft # Empty
    /\ flights' = flights \cup {[text |-> draft, edits |-> editing, by |-> mounts]}
    /\ setDraft(Empty) /\ editing' = FALSE
    /\ UNCHANGED <<mounts, shown, slot, texts, owed, lost>>

Sent(f) ==
    /\ flights' = flights \ {f} /\ owed' = owed \ {f.text}
    /\ UNCHANGED <<mounts, shown, draft, editing, slot, waiting, texts, lost>>

\* Mutant: what could not be sent is not put back.
SendFails_Drops(f) ==
    /\ flights' = flights \ {f}
    /\ UNCHANGED <<mounts, shown, draft, editing, slot, waiting, texts, owed, lost>>

\* What was written is put back, over whatever is there; a screen that was left shows nothing.
SendFails(f) ==
    /\ flights' = flights \ {f}
    /\ IF shown /\ f.by = mounts
       THEN /\ setDraft(f.text) /\ editing' = (editing \/ f.edits)
            /\ lost' = lost \cup (Typed(draft) \ {f.text})
       ELSE lost' = lost \cup Typed(f.text) /\ UNCHANGED <<draft, editing, waiting>>
    /\ UNCHANGED <<mounts, shown, slot, texts, owed>>

\* The menu of a message of one's own: its content is shown over whatever is there.
Edit ==
    /\ Acts
    /\ setDraft(Message) /\ editing' = TRUE /\ lost' = lost \cup Typed(draft)
    /\ UNCHANGED <<mounts, shown, slot, flights, texts, owed>>

CancelEdit ==
    /\ Acts /\ editing
    /\ setDraft(Empty) /\ editing' = FALSE /\ owed' = owed \ {draft}
    /\ UNCHANGED <<mounts, shown, slot, flights, texts, lost>>

\* The screen is left: that an edit was under way is forgotten, its text is not.
Unmount ==
    /\ shown /\ shown' = FALSE /\ draft' = Empty /\ editing' = FALSE
    /\ UNCHANGED <<mounts, slot, waiting, flights, texts, owed, lost>>

\* The process dies: what was not stored yet is gone.
ComposerDies ==
    /\ shown' = FALSE /\ draft' = Empty /\ editing' = FALSE /\ waiting' = <<>> /\ flights' = {}
    /\ lost' = lost \cup (owed \ {slot})
    /\ UNCHANGED <<mounts, slot, texts, owed>>

ComposerNext ==
    \/ Mount
    \/ \E fails \in BOOLEAN : LoadReturns(fails) \/ SaveLands(fails)
    \/ \E clears \in BOOLEAN : Type(clears)
    \/ doSend
    \/ \E f \in flights : Sent(f) \/ SendFails(f)
    \/ Edit
    \/ CancelEdit
    \/ Unmount
    \/ ComposerDies

Reads(i) == waiting[i].op = "load"

\* What the next reading of the draft finds: the last save before it.
ReadsBack(i) ==
    LET saves == {j \in 1 .. i : ~Reads(j)}
    IN  IF saves = {} THEN slot ELSE waiting[CHOOSE j \in saves : \A k \in saves : k <= j].text

\* Where words are: in the composer, on their way, or where a screen that opened, or else the
\* next one, reads them.
Held ==
    {draft} \cup {f.text : f \in flights}
        \cup {ReadsBack(i) : i \in {i \in 1 .. Len(waiting) : Reads(i)}}
        \cup {IF shown THEN draft ELSE ReadsBack(Len(waiting))}

\* What the user typed and neither changed nor sent is never lost, whichever way sending,
\* editing, leaving and opening the screen interleave with its storage (ChatInterface.tsx:150,
\* :209 "keep what they wrote").  Except by the steps that put a text over another one, and
\* by a storage call or a send that failed, or an opening screen left, before it was kept.
WordsAreKept == owed \ lost \subseteq Held
=============================================================================
