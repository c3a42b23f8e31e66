------------------------------ MODULE ChatStore ------------------------------
(***************************************************************************)
(* chatStore() (packages/core/src/stores/chat.ts) for one conversation on  *)
(* screen: what is shown is the last list read with this device's own      *)
(* writes laid over it.  The reads are a Loader's: one at a time, and again *)
(* and again while somebody watches (module Loader).  Below it, `rows` is  *)
(* the strand as this device can read it; writes reach it and leave it at  *)
(* any moment between a call and its return.  The model begins once a first *)
(* list was read, an empty one: until then nothing is laid over anything.   *)
(*                                                                         *)
(* A message's content is a number: 0 no row, 1 as sent, n > 1 as the n-th *)
(* text typed.  Marks, members and the strand's state are left out.        *)
(* A name with a suffix (retire_EverySent) is a faulty variant that no     *)
(* action uses.                                                            *)
(***************************************************************************)
EXTENDS Naturals

CONSTANTS
    Messages,
    MaxContent      \* bound: texts typed, over all messages

ASSUME MaxContentAssumption == MaxContent \in Nat \ {0}

VARIABLES
    rows,           \* the strand's messages: content by id
    sending,        \* send(): "no", "called", "stored", "returned" or "failed"
    editing,        \* edit(): by text, its message and how far it is
    gone,           \* messages refused, withdrawn or deleted
    reading,        \* the list read in flight: what it will return, or NoRead
    listed,         \* the messages of the last list read
    pending, sent, edits    \* Local: the rows and texts laid over it

world == <<rows, sending, editing, gone>>
Local == <<pending, sent, edits>>
vars == <<world, reading, listed, Local>>

Contents == 0..MaxContent
Texts == 2..MaxContent
NoRows == [m \in Messages |-> 0]
NoRead == <<>>
NoEdit == <<>>
Typed == {e \in Texts : editing[e] # NoEdit}

(* compose(): the content shown for a message, 0 if it has no row. *)
Shown(m) ==
    IF listed[m] # 0 THEN (IF edits[m] # 0 THEN edits[m] ELSE listed[m])
    ELSE IF m \in sent \cup pending THEN 1 ELSE 0

-----------------------------------------------------------------------------
(* Reads. *)

retire_EverySent(list) ==
    /\ sent' = {}
    /\ edits' = NoRows

(* A read that includes a sent message, or follows an edit, retires the     *)
(* local copy.                                                              *)
retire(list) ==
    /\ sent' = {m \in sent : list[m] = 0}
    /\ edits' = NoRows

BeginRead ==
    /\ reading = NoRead
    /\ reading' = <<rows>>
    /\ UNCHANGED <<world, listed, Local>>

(* The read comes to the rows late. *)
ReadSees ==
    /\ reading # NoRead /\ reading # <<rows>>
    /\ reading' = <<rows>>
    /\ UNCHANGED <<world, listed, Local>>

ReadReturns_Cached ==
    /\ reading # NoRead /\ reading' = NoRead
    /\ listed' = IF listed = NoRows THEN reading[1] ELSE listed
    /\ retire(listed')
    /\ UNCHANGED <<world, pending>>

ReadReturns ==
    /\ reading # NoRead
    /\ reading' = NoRead
    /\ listed' = reading[1]
    /\ retire(listed')
    /\ UNCHANGED <<world, pending>>

(* The strand is not open: the previous list is returned again, as a value  *)
(* of its own.                                                              *)
ReadNotAttached ==
    /\ reading # NoRead
    /\ reading' = NoRead
    /\ retire(listed)
    /\ UNCHANGED <<world, listed, pending>>

(* A read that fails leaves what was shown. *)
ReadFails ==
    /\ reading # NoRead
    /\ reading' = NoRead
    /\ UNCHANGED <<world, listed, Local>>

-----------------------------------------------------------------------------
(* send() *)

Send(m) ==
    /\ sending[m] = "no"
    /\ sending' = [sending EXCEPT ![m] = "called"]
    /\ pending' = pending \cup {m}
    /\ UNCHANGED <<rows, editing, gone, reading, listed, sent, edits>>

(* insertMessage has run; attachments are still to be written. *)
MessageStored(m) ==
    /\ sending[m] = "called"
    /\ sending' = [sending EXCEPT ![m] = "stored"]
    /\ rows' = [rows EXCEPT ![m] = 1]
    /\ UNCHANGED <<editing, gone, reading, listed, Local>>

SendReturns_KeepsPending(m) ==
    /\ sending[m] = "stored"
    /\ sending' = [sending EXCEPT ![m] = "returned"]
    /\ sent' = sent \cup {m}
    /\ UNCHANGED <<rows, editing, gone, reading, listed, pending, edits>>

SendReturns(m) ==
    /\ sending[m] = "stored"
    /\ sending' = [sending EXCEPT ![m] = "returned"]
    /\ pending' = pending \ {m}
    /\ sent' = sent \cup {m}
    /\ UNCHANGED <<rows, editing, gone, reading, listed, edits>>

(* Before the message was stored, or after (its attachments failed). *)
SendFails(m) ==
    /\ sending[m] \in {"called", "stored"}
    /\ sending' = [sending EXCEPT ![m] = "failed"]
    /\ pending' = pending \ {m}
    /\ UNCHANGED <<rows, editing, gone, reading, listed, sent, edits>>

(* A stored message leaves this device's view: the members refused it, or   *)
(* it was withdrawn (discard) or deleted.                                   *)
Leaves(m) ==
    /\ rows[m] # 0
    /\ rows' = [rows EXCEPT ![m] = 0]
    /\ gone' = gone \cup {m}
    /\ UNCHANGED <<sending, editing, reading, listed, Local>>

-----------------------------------------------------------------------------
(* edit() *)

Edit(m, e) ==
    /\ e \in Texts /\ \A f \in Texts : f \in Typed <=> f < e
    /\ Shown(m) # 0 /\ sending[m] \in {"returned", "failed"}
    /\ editing' = [editing EXCEPT ![e] = <<m, "called">>]
    /\ edits' = [edits EXCEPT ![m] = e]
    /\ UNCHANGED <<rows, sending, gone, reading, listed, pending, sent>>

(* One statement at a time, in the order they were asked for. *)
EditStored(e) ==
    /\ e \in Typed /\ editing[e][2] = "called"
    /\ \A f \in Typed : f < e => editing[f][2] # "called"
    /\ LET m == editing[e][1]
       IN /\ rows' = IF rows[m] # 0 THEN [rows EXCEPT ![m] = e] ELSE rows
          /\ editing' = [editing EXCEPT ![e] = <<m, "stored">>]
    /\ UNCHANGED <<sending, gone, reading, listed, Local>>

EditFails_KeepsText(e) ==
    /\ e \in Typed /\ editing[e][2] = "called"
    /\ editing' = [editing EXCEPT ![e] = <<@[1], "failed">>]
    /\ UNCHANGED <<rows, sending, gone, reading, listed, Local>>

(* The text laid over the message goes, whichever edit put it there. *)
EditFails(e) ==
    /\ e \in Typed /\ editing[e][2] = "called"
    /\ editing' = [editing EXCEPT ![e] = <<@[1], "failed">>]
    /\ edits' = [edits EXCEPT ![editing[e][1]] = 0]
    /\ UNCHANGED <<rows, sending, gone, reading, listed, pending, sent>>

-----------------------------------------------------------------------------
Init ==
    /\ rows = NoRows /\ listed = NoRows /\ edits = NoRows
    /\ sending = [m \in Messages |-> "no"]
    /\ editing = [e \in Texts |-> NoEdit]
    /\ gone = {} /\ pending = {} /\ sent = {}
    /\ reading = NoRead

Next ==
    \/ BeginRead \/ ReadSees \/ ReadReturns \/ ReadNotAttached \/ ReadFails
    \/ \E m \in Messages : Send(m) \/ MessageStored(m) \/ SendReturns(m) \/ SendFails(m) \/ Leaves(m)
    \/ \E m \in Messages, e \in Texts : Edit(m, e)
    \/ \E e \in Texts : EditStored(e) \/ EditFails(e)

(* The loader polls while the conversation is on screen, and a strand that  *)
(* is open some of the time is read then; writes return.  A read may find   *)
(* the strand closed or fail any number of times in between.                *)
Fairness ==
    /\ WF_vars(BeginRead) /\ SF_vars(ReadReturns)
    /\ \A m \in Messages : WF_vars(SendReturns(m) \/ SendFails(m))
    /\ \A e \in Texts : WF_vars(EditStored(e) \/ EditFails(e))

Spec == Init /\ [][Next]_vars
FairSpec == Spec /\ Fairness

-----------------------------------------------------------------------------
(* Properties. *)

TypeOK ==
    /\ rows \in [Messages -> Contents] /\ listed \in [Messages -> Contents]
    /\ sending \in [Messages -> {"no", "called", "stored", "returned", "failed"}]
    /\ editing \in [Texts -> {NoEdit} \cup (Messages \X {"called", "stored", "failed"})]
    /\ gone \subseteq Messages /\ pending \subseteq Messages /\ sent \subseteq Messages
    /\ pending \cap sent = {}
    /\ reading \in {NoRead} \cup {<<r>> : r \in [Messages -> Contents]}
    /\ edits \in [Messages -> Contents]

(* "Sent but not read back yet: shown as stored, so the row does not        *)
(* flicker": from the call of send() on, a message that did not fail and    *)
(* did not leave the strand is on screen, whichever read ends when.         *)
NeverVanishes ==
    \A m \in Messages :
        sending[m] \in {"called", "stored", "returned"} /\ m \notin gone => Shown(m) # 0

(* A text whose edit was refused is not on screen as the message's own.     *)
FailedEditIsNotShown ==
    \A e \in Typed : editing[e][2] = "failed" => Shown(editing[e][1]) # e

(* The screen comes to show what the strand holds.                          *)
ShowsTheStrand ==
    \A m \in Messages, c \in Contents :
        (rows[m] = c /\ c # 0) ~> (Shown(m) = c \/ rows[m] # c)

(* model/messages.ts:14: `failed`: "its rows have left this device's view". *)
GoneIsNotShown ==
    \A m \in Messages : (m \in gone /\ rows[m] = 0) ~> (Shown(m) = 0)
=============================================================================
