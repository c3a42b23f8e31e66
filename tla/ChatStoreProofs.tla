-------------------------- MODULE ChatStoreProofs --------------------------
(***************************************************************************)
(* The conversation on screen, for any messages and any number of texts:   *)
(* NeverVanishes and FailedEditIsNotShown.                                 *)
(*                                                                         *)
(* The rows, the read in flight and the list shown are three lists of one  *)
(* strand at three times.  The invariant relates them: what a later one    *)
(* lacks has left the strand, and every content in any of them was stored. *)
(***************************************************************************)
EXTENDS ChatStore, TLAPS

Reads == {<<r>> : r \in [Messages -> Contents]}

Types ==
    /\ rows \in [Messages -> Contents] /\ listed \in [Messages -> Contents]
    /\ sending \in [Messages -> {"no", "called", "stored", "returned", "failed"}]
    /\ gone \subseteq Messages /\ pending \subseteq Messages /\ sent \subseteq Messages
    /\ reading \in {NoRead} \cup Reads

EditTypes ==
    /\ editing \in [Texts -> {NoEdit} \cup (Messages \X {"called", "stored", "failed"})]
    /\ edits \in [Messages -> Contents]

(* Every list that may be shown, now or later. *)
InFlight == {r \in [Messages -> Contents] : reading = <<r>>}
Lists == {rows, listed} \cup InFlight

(* A row is there only of a message that was stored. *)
OnlyStored(st, list) == \A m \in Messages : list[m] # 0 => st[m] \notin {"no", "called"}

(* A list lacks nothing of an older one but what has left the strand.       *)
Lacks(g, old, new) == \A m \in Messages \ g : old[m] # 0 => new[m] # 0

(* The texts of a list are those of edits that were stored. *)
TextsStored(ed, list) == \A m \in Messages : list[m] \in Texts => ed[list[m]] = <<m, "stored">>

(* A text laid over message m is that of an edit of m that did not fail.    *)
Overlaid(m, c) == c \in Texts /\ editing[c] \in {<<m, "called">>, <<m, "stored">>}

(* send(): what it laid over the list is there while it runs, and what it   *)
(* returned is kept until a list has it.                                    *)
SendsAgree ==
    /\ \A m \in Messages : m \in pending <=> sending[m] \in {"called", "stored"}
    /\ \A m \in sent : sending[m] = "returned"
    /\ \A m \in Messages \ gone : sending[m] \in {"stored", "returned"} => rows[m] # 0
    /\ \A m \in Messages \ gone : sending[m] = "returned" => m \in sent \/ listed[m] # 0

ListsAgree ==
    /\ \A list \in Lists : OnlyStored(sending, list)
    /\ \A list \in Lists : Lacks(gone, listed, list) /\ Lacks(gone, list, rows)

TextsAgree ==
    /\ \A list \in Lists : TextsStored(editing, list)
    /\ \A m \in Messages : edits[m] # 0 => Overlaid(m, edits[m])

ChatInv == Types /\ EditTypes /\ SendsAgree /\ ListsAgree /\ TextsAgree

-----------------------------------------------------------------------------
LEMMA OneIsNoText == 0 \in Contents /\ 1 \in Contents /\ Texts \subseteq Contents /\ 0 \notin Texts /\ 1 \notin Texts
BY MaxContentAssumption DEF Contents, Texts

LEMMA NoRowsTyped == NoRows \in [Messages -> Contents] /\ (\A m \in Messages : NoRows[m] = 0)
BY OneIsNoText DEF NoRows

LEMMA ChatInit == Init => ChatInv
<1> SUFFICES ASSUME Init PROVE ChatInv
  OBVIOUS
<1>1. Types
  BY NoRowsTyped DEF Init, Types
<1>2. EditTypes
  BY NoRowsTyped DEF Init, EditTypes
<1>3. InFlight = {}
  BY DEF Init, InFlight, NoRead
<1>4. Lists = {NoRows}
  BY <1>3 DEF Lists, Init
<1>5. SendsAgree
  BY DEF Init, SendsAgree
<1>6. ListsAgree
  BY <1>4, NoRowsTyped DEF Init, ListsAgree, OnlyStored, Lacks
<1>7. TextsAgree
  BY <1>4, NoRowsTyped, OneIsNoText DEF Init, TextsAgree, TextsStored
<1> QED BY <1>1, <1>2, <1>5, <1>6, <1>7 DEF ChatInv

-----------------------------------------------------------------------------
(* Reads. *)

AnyRead == BeginRead \/ ReadSees \/ ReadReturns \/ ReadNotAttached \/ ReadFails

(* A read in flight is one list, and the list shown after it is that one or *)
(* the one shown before.                                                    *)
LEMMA InFlightIsOne ==
    ASSUME Types, reading # NoRead
    PROVE  reading[1] \in [Messages -> Contents] /\ InFlight = {reading[1]}
BY DEF Types, Reads, InFlight

LEMMA ReadMoves ==
    ASSUME Types, AnyRead
    PROVE  /\ UNCHANGED <<rows, sending, editing, gone, pending>>
           /\ \/ listed' = listed /\ Lists' \subseteq Lists
              \/ listed' \in InFlight /\ Lists' = {rows, listed'}
           /\ \/ sent' = sent /\ edits' = edits /\ listed' = listed
              \/ sent' = {m \in sent : listed'[m] = 0} /\ edits' = NoRows
           /\ reading' \in {NoRead} \cup Reads
<1>1. <<rows>> \in Reads /\ rows \in [Messages -> Contents]
  BY DEF Types, Reads
<1>2. ASSUME reading' = <<rows>>, UNCHANGED <<rows, listed>> PROVE Lists' \subseteq Lists
  BY <1>2 DEF Lists, InFlight
<1>3. ASSUME reading' = NoRead PROVE InFlight' = {}
  BY <1>3 DEF InFlight, NoRead
<1>4. CASE BeginRead \/ ReadSees
  BY <1>1, <1>2, <1>4, Zenon DEF BeginRead, ReadSees, world, Local
<1>5. CASE ReadReturns
  BY <1>3, <1>5, InFlightIsOne DEF ReadReturns, retire, world, Lists
<1>6. CASE ReadNotAttached \/ ReadFails
  BY <1>3, <1>6 DEF ReadNotAttached, ReadFails, retire, world, Local, Lists
<1> QED BY <1>4, <1>5, <1>6 DEF AnyRead

LEMMA ReadsKeep == ChatInv /\ AnyRead => ChatInv'
<1> SUFFICES ASSUME ChatInv, AnyRead PROVE ChatInv'
  OBVIOUS
<1>1. Types /\ EditTypes /\ SendsAgree /\ ListsAgree /\ TextsAgree
  BY DEF ChatInv
<1>2. UNCHANGED <<rows, sending, editing, gone, pending>>
  BY <1>1, ReadMoves
<1>3. listed' \in Lists /\ Lists' \subseteq Lists
  BY <1>1, ReadMoves DEF Lists
<1>4. \A list \in Lists : list \in [Messages -> Contents]
  BY <1>1 DEF Lists, InFlight, Types
<1>5. sent' \subseteq sent /\ (sent' = sent \/ sent' = {m \in sent : listed'[m] = 0})
  BY <1>1, ReadMoves
<1>6. Types'
  BY <1>1, <1>2, <1>3, <1>4, <1>5, ReadMoves DEF Types
<1>7. EditTypes'
  BY <1>1, <1>2, ReadMoves, NoRowsTyped DEF EditTypes
<1>8. ListsAgree'
  <2>1. \A list \in Lists' : OnlyStored(sending, list) /\ Lacks(gone, list, rows)
    BY <1>1, <1>3 DEF ListsAgree
  <2>2. \A list \in Lists' : Lacks(gone, listed', list)
    <3>1. CASE listed' = listed
      BY <1>1, <1>3, <3>1 DEF ListsAgree
    <3>2. CASE Lists' = {rows, listed'}
      BY <1>1, <1>3, <3>2 DEF ListsAgree, Lacks
    <3> QED BY <1>1, <3>1, <3>2, ReadMoves
  <2> QED BY <1>2, <2>1, <2>2 DEF ListsAgree
<1>9. SendsAgree'
  <2>1. ASSUME NEW m \in Messages \ gone, sending[m] = "returned" PROVE m \in sent' \/ listed'[m] # 0
    <3>1. CASE listed[m] # 0
      BY <1>1, <1>3, <2>1, <3>1 DEF ListsAgree, Lacks
    <3>2. CASE m \in sent
      BY <1>5, <3>2
    <3> QED BY <1>1, <2>1, <3>1, <3>2 DEF SendsAgree
  <2> QED BY <1>1, <1>2, <1>5, <2>1 DEF SendsAgree
<1>10. TextsAgree'
  BY <1>1, <1>2, <1>3, ReadMoves, NoRowsTyped DEF TextsAgree, Overlaid
<1> QED BY <1>6, <1>7, <1>8, <1>9, <1>10 DEF ChatInv

-----------------------------------------------------------------------------
(* send(), and what leaves the strand. *)

(* A write touches no list but the strand's own.                            *)
LEMMA WritesTouchRows ==
    ASSUME UNCHANGED <<reading, listed>>
    PROVE  Lists' \subseteq Lists \cup {rows'} /\ (rows' = rows => Lists' = Lists)
BY DEF Lists, InFlight

LEMMA SendsKeep == \A m \in Messages :
    ChatInv /\ (Send(m) \/ MessageStored(m) \/ SendReturns(m) \/ SendFails(m)) => ChatInv'
<1> SUFFICES ASSUME ChatInv, NEW m \in Messages, Send(m) \/ MessageStored(m) \/ SendReturns(m) \/ SendFails(m)
    PROVE ChatInv'
  OBVIOUS
<1>1. Types /\ EditTypes /\ SendsAgree /\ ListsAgree /\ TextsAgree
  BY DEF ChatInv
<1>2. UNCHANGED <<editing, gone, reading, listed, edits>>
  BY DEF Send, MessageStored, SendReturns, SendFails, Local
<1>3. \/ rows' = rows
      \/ sending[m] = "called" /\ sending' = [sending EXCEPT ![m] = "stored"] /\ rows' = [rows EXCEPT ![m] = 1]
  BY DEF Send, MessageStored, SendReturns, SendFails
<1>4. /\ rows' \in [Messages -> Contents]
      /\ \A x \in Messages : rows[x] # 0 => rows'[x] # 0
      /\ \A x \in Messages : rows'[x] = rows[x] \/ rows'[x] = 1
  BY <1>1, <1>3, OneIsNoText DEF Types
<1>5. Types'
  BY <1>1, <1>2, <1>4 DEF Send, MessageStored, SendReturns, SendFails, Local, Types
<1>6. EditTypes'
  BY <1>1, <1>2 DEF EditTypes
<1>7. SendsAgree'
  <2>1. CASE Send(m)
    BY <1>1, <1>2, <2>1 DEF Send, SendsAgree, Types
  <2>2. CASE MessageStored(m)
    BY <1>1, <1>2, <2>2 DEF MessageStored, SendsAgree, Types, Local
  <2>3. CASE SendReturns(m)
    BY <1>1, <1>2, <2>3 DEF SendReturns, SendsAgree, Types
  <2>4. CASE SendFails(m)
    BY <1>1, <1>2, <2>4 DEF SendFails, SendsAgree, Types
  <2> QED BY <2>1, <2>2, <2>3, <2>4
<1>8. ListsAgree'
  <2>1. ASSUME NEW list \in Lists, OnlyStored(sending, list) PROVE OnlyStored(sending', list)
    <3>1. \A x \in Messages : sending[x] \notin {"no", "called"} => sending'[x] \notin {"no", "called"}
      BY <1>1 DEF Send, MessageStored, SendReturns, SendFails, Types
    <3> QED BY <2>1, <3>1 DEF OnlyStored
  <2>2. OnlyStored(sending', rows')
    <3>1. CASE rows' = rows
      BY <1>1, <2>1, <3>1 DEF ListsAgree, Lists
    <3>2. CASE sending' = [sending EXCEPT ![m] = "stored"] /\ rows' = [rows EXCEPT ![m] = 1]
      BY <1>1, <3>2 DEF ListsAgree, Lists, OnlyStored, Types
    <3> QED BY <1>3, <3>1, <3>2
  <2>3. \A list \in Lists' : OnlyStored(sending', list)
    BY <1>1, <1>2, <2>1, <2>2, WritesTouchRows DEF ListsAgree
  <2>4. \A list \in Lists' : Lacks(gone, listed, list) /\ Lacks(gone, list, rows')
    <3>1. ASSUME NEW list \in Lists PROVE Lacks(gone, listed, list) /\ Lacks(gone, list, rows')
      BY <1>1, <1>4 DEF ListsAgree, Lacks
    <3>2. Lacks(gone, listed, rows') /\ Lacks(gone, rows', rows')
      BY <3>1 DEF Lists, Lacks
    <3> QED BY <1>2, <3>1, <3>2, WritesTouchRows
  <2> QED BY <1>2, <2>3, <2>4 DEF ListsAgree
<1>9. TextsAgree'
  <2>1. TextsStored(editing, rows')
    BY <1>1, <1>4, OneIsNoText DEF TextsAgree, TextsStored, Lists
  <2>2. \A list \in Lists' : TextsStored(editing, list)
    BY <1>1, <1>2, <2>1, WritesTouchRows DEF TextsAgree
  <2> QED BY <1>1, <1>2, <2>2 DEF TextsAgree, Overlaid
<1> QED BY <1>5, <1>6, <1>7, <1>8, <1>9 DEF ChatInv

LEMMA LeavesKeeps == \A m \in Messages : ChatInv /\ Leaves(m) => ChatInv'
<1> SUFFICES ASSUME ChatInv, NEW m \in Messages, Leaves(m) PROVE ChatInv'
  OBVIOUS
<1>1. Types /\ EditTypes /\ SendsAgree /\ ListsAgree /\ TextsAgree
  BY DEF ChatInv
<1>2. rows' = [rows EXCEPT ![m] = 0] /\ gone' = gone \cup {m}
      /\ UNCHANGED <<sending, editing, reading, listed, pending, sent, edits>>
  BY DEF Leaves, Local
<1>3. Types'
  BY <1>1, <1>2, OneIsNoText DEF Types
<1>4. EditTypes'
  BY <1>1, <1>2 DEF EditTypes
<1>5. SendsAgree'
  BY <1>1, <1>2 DEF SendsAgree, Types
<1>6. \A x \in Messages : rows'[x] = (IF x = m THEN 0 ELSE rows[x])
  BY <1>1, <1>2 DEF Types
<1>7. Lists' \subseteq Lists \cup {rows'}
  BY <1>2, WritesTouchRows
<1>8. ListsAgree'
  <2>1. OnlyStored(sending, rows')
    BY <1>1, <1>6 DEF ListsAgree, OnlyStored, Lists
  <2>2. ASSUME NEW list \in Lists PROVE Lacks(gone', listed, list) /\ Lacks(gone', list, rows')
    BY <1>1, <1>2, <1>6 DEF ListsAgree, Lacks
  <2>3. Lacks(gone', listed, rows') /\ Lacks(gone', rows', rows')
    BY <2>2 DEF Lists, Lacks
  <2> QED BY <1>1, <1>2, <1>7, <2>1, <2>2, <2>3 DEF ListsAgree
<1>9. TextsAgree'
  <2>1. TextsStored(editing, rows')
    BY <1>1, <1>6, OneIsNoText DEF TextsAgree, TextsStored, Lists
  <2> QED BY <1>1, <1>2, <1>7, <2>1 DEF TextsAgree, Overlaid
<1> QED BY <1>3, <1>4, <1>5, <1>8, <1>9 DEF ChatInv

-----------------------------------------------------------------------------
(* edit() *)

(* What an edit writes, it writes for its own message, and no stored text   *)
(* is an edit still to be stored.                                           *)
LEMMA EditsKeep == \A m \in Messages, e \in Texts : ChatInv /\ Edit(m, e) => ChatInv'
<1> SUFFICES ASSUME ChatInv, NEW m \in Messages, NEW e \in Texts, Edit(m, e) PROVE ChatInv'
  OBVIOUS
<1>1. Types /\ EditTypes /\ SendsAgree /\ ListsAgree /\ TextsAgree
  BY DEF ChatInv
<1>2. editing' = [editing EXCEPT ![e] = <<m, "called">>] /\ edits' = [edits EXCEPT ![m] = e]
      /\ UNCHANGED <<rows, sending, gone, reading, listed, pending, sent>>
  BY DEF Edit
<1>3. editing[e] = NoEdit
  <2>1. ~(e < e)
    BY DEF Texts
  <2> QED BY <2>1 DEF Edit, Typed
<1>4. Types' /\ SendsAgree'
  BY <1>1, <1>2 DEF Types, SendsAgree
<1>5. EditTypes'
  <2>1. <<m, "called">> \in Messages \X {"called", "stored", "failed"}
    OBVIOUS
  <2> QED BY <1>1, <1>2, <2>1, OneIsNoText DEF EditTypes
<1>6. Lists' = Lists
  BY <1>2 DEF Lists, InFlight
<1>7. ListsAgree'
  BY <1>1, <1>2, <1>6 DEF ListsAgree
<1>8. ASSUME NEW c \in Texts, editing[c] # NoEdit PROVE editing'[c] = editing[c]
  BY <1>1, <1>2, <1>3, <1>8 DEF EditTypes
<1>9. \A x \in Messages : <<x, "called">> # NoEdit /\ <<x, "stored">> # NoEdit
  BY DEF NoEdit
<1>10. TextsAgree'
  <2>1. ASSUME NEW list \in Lists PROVE TextsStored(editing', list)
    BY <1>1, <1>8, <1>9 DEF TextsAgree, TextsStored
  <2>2. ASSUME NEW x \in Messages, edits'[x] # 0 PROVE Overlaid(x, edits[x])'
    <3>1. CASE x = m
      BY <1>1, <1>2, <3>1 DEF EditTypes, Overlaid
    <3>2. CASE x # m
      <4>1. edits'[x] = edits[x]
        BY <1>1, <1>2, <3>2 DEF EditTypes
      <4>2. edits[x] \in Texts /\ editing[edits[x]] \in {<<x, "called">>, <<x, "stored">>}
        BY <1>1, <2>2, <4>1 DEF TextsAgree, Overlaid
      <4>3. edits[x] # e
        BY <1>3, <1>9, <4>2
      <4> QED BY <1>1, <1>2, <4>1, <4>2, <4>3 DEF EditTypes, Overlaid
    <3> QED BY <3>1, <3>2
  <2> QED BY <1>6, <2>1, <2>2 DEF TextsAgree
<1> QED BY <1>4, <1>5, <1>7, <1>10 DEF ChatInv

(* One statement at a time: the edit that ends has not ended before.        *)
LEMMA EditEnds == \A e \in Texts : EditTypes /\ (EditStored(e) \/ EditFails(e)) =>
    \E m \in Messages :
        /\ editing[e] = <<m, "called">>
        /\ \/ /\ editing' = [editing EXCEPT ![e] = <<m, "stored">>]
              /\ rows' = (IF rows[m] # 0 THEN [rows EXCEPT ![m] = e] ELSE rows)
              /\ edits' = edits
           \/ /\ editing' = [editing EXCEPT ![e] = <<m, "failed">>]
              /\ edits' = [edits EXCEPT ![m] = 0]
              /\ rows' = rows
        /\ UNCHANGED <<sending, gone, reading, listed, pending, sent>>
<1> SUFFICES ASSUME NEW e \in Texts, EditTypes, EditStored(e) \/ EditFails(e)
    PROVE \E m \in Messages :
        /\ editing[e] = <<m, "called">>
        /\ \/ /\ editing' = [editing EXCEPT ![e] = <<m, "stored">>]
              /\ rows' = (IF rows[m] # 0 THEN [rows EXCEPT ![m] = e] ELSE rows)
              /\ edits' = edits
           \/ /\ editing' = [editing EXCEPT ![e] = <<m, "failed">>]
              /\ edits' = [edits EXCEPT ![m] = 0]
              /\ rows' = rows
        /\ UNCHANGED <<sending, gone, reading, listed, pending, sent>>
  OBVIOUS
<1>1. editing[e] \in Messages \X {"called", "stored", "failed"} /\ editing[e][2] = "called"
  BY DEF EditTypes, EditStored, EditFails, Typed
<1>2. editing[e][1] \in Messages /\ editing[e] = <<editing[e][1], "called">>
  BY <1>1
<1>3. CASE EditStored(e)
  BY <1>2, <1>3 DEF EditStored, Local
<1>4. CASE EditFails(e)
  BY <1>2, <1>4 DEF EditFails
<1> QED BY <1>3, <1>4

LEMMA EditEndsKeep == \A e \in Texts : ChatInv /\ (EditStored(e) \/ EditFails(e)) => ChatInv'
<1> SUFFICES ASSUME ChatInv, NEW e \in Texts, EditStored(e) \/ EditFails(e) PROVE ChatInv'
  OBVIOUS
<1>1. Types /\ EditTypes /\ SendsAgree /\ ListsAgree /\ TextsAgree
  BY DEF ChatInv
<1>2. PICK m \in Messages :
        /\ editing[e] = <<m, "called">>
        /\ \/ /\ editing' = [editing EXCEPT ![e] = <<m, "stored">>]
              /\ rows' = (IF rows[m] # 0 THEN [rows EXCEPT ![m] = e] ELSE rows)
              /\ edits' = edits
           \/ /\ editing' = [editing EXCEPT ![e] = <<m, "failed">>]
              /\ edits' = [edits EXCEPT ![m] = 0]
              /\ rows' = rows
        /\ UNCHANGED <<sending, gone, reading, listed, pending, sent>>
  BY <1>1, EditEnds
<1>3. e \in Contents /\ e # 0
  BY OneIsNoText
<1>4. /\ rows' \in [Messages -> Contents]
      /\ \A x \in Messages : rows'[x] # 0 <=> rows[x] # 0
      /\ \A x \in Messages : rows'[x] = rows[x] \/ (x = m /\ rows'[x] = e /\ editing' = [editing EXCEPT ![e] = <<m, "stored">>])
  BY <1>1, <1>2, <1>3 DEF Types
<1>5. Types' /\ SendsAgree'
  BY <1>1, <1>2, <1>4 DEF Types, SendsAgree
<1>6. EditTypes'
  <2>1. <<m, "stored">> \in Messages \X {"called", "stored", "failed"}
        /\ <<m, "failed">> \in Messages \X {"called", "stored", "failed"}
    OBVIOUS
  <2> QED BY <1>1, <1>2, <2>1, OneIsNoText DEF EditTypes
<1>7. Lists' \subseteq Lists \cup {rows'}
  BY <1>2, WritesTouchRows
<1>8. ListsAgree'
  <2>1. OnlyStored(sending, rows')
    BY <1>1, <1>4 DEF ListsAgree, OnlyStored, Lists
  <2>2. ASSUME NEW list \in Lists PROVE Lacks(gone, listed, list) /\ Lacks(gone, list, rows')
    BY <1>1, <1>4 DEF ListsAgree, Lacks
  <2>3. Lacks(gone, listed, rows') /\ Lacks(gone, rows', rows')
    BY <2>2 DEF Lists, Lacks
  <2> QED BY <1>1, <1>2, <1>7, <2>1, <2>2, <2>3 DEF ListsAgree
<1>9. \A c \in Texts : c # e => editing'[c] = editing[c]
  BY <1>1, <1>2 DEF EditTypes
<1>10. \A x \in Messages : <<x, "called">> # <<x, "stored">>
  OBVIOUS
<1>11. TextsAgree'
  <2>1. ASSUME NEW list \in Lists PROVE TextsStored(editing', list)
    BY <1>1, <1>2, <1>9 DEF TextsAgree, TextsStored
  <2>2. TextsStored(editing', rows')
    <3>1. ASSUME NEW x \in Messages, rows'[x] \in Texts PROVE editing'[rows'[x]] = <<x, "stored">>
      <4>1. CASE rows'[x] = rows[x]
        BY <2>1, <3>1, <4>1 DEF Lists, TextsStored
      <4>2. CASE x = m /\ rows'[x] = e /\ editing' = [editing EXCEPT ![e] = <<m, "stored">>]
        BY <1>1, <4>2 DEF EditTypes
      <4> QED BY <1>4, <4>1, <4>2
    <3> QED BY <3>1 DEF TextsStored
  <2>3. ASSUME NEW x \in Messages, edits'[x] # 0 PROVE Overlaid(x, edits[x])'
    <3>1. edits'[x] = edits[x] /\ (x = m => editing' = [editing EXCEPT ![e] = <<m, "stored">>])
      BY <1>1, <1>2, <2>3 DEF EditTypes
    <3>2. Overlaid(x, edits[x])
      BY <1>1, <2>3, <3>1 DEF TextsAgree
    <3>3. CASE edits[x] = e
      BY <1>1, <1>2, <3>1, <3>2, <3>3 DEF Overlaid, EditTypes
    <3>4. CASE edits[x] # e
      BY <1>9, <3>1, <3>2, <3>4 DEF Overlaid
    <3> QED BY <3>3, <3>4
  <2> QED BY <1>7, <2>1, <2>2, <2>3 DEF TextsAgree
<1> QED BY <1>5, <1>6, <1>8, <1>11 DEF ChatInv

-----------------------------------------------------------------------------
LEMMA ChatStep == ChatInv /\ [Next]_vars => ChatInv'
<1> SUFFICES ASSUME ChatInv, [Next]_vars PROVE ChatInv'
  OBVIOUS
<1>1. CASE AnyRead
  BY <1>1, ReadsKeep
<1>2. CASE \E m \in Messages : Send(m) \/ MessageStored(m) \/ SendReturns(m) \/ SendFails(m) \/ Leaves(m)
  BY <1>2, SendsKeep, LeavesKeeps
<1>3. CASE \E m \in Messages, e \in Texts : Edit(m, e)
  BY <1>3, EditsKeep
<1>4. CASE \E e \in Texts : EditStored(e) \/ EditFails(e)
  BY <1>4, EditEndsKeep
<1>5. CASE UNCHANGED vars
  <2>1. UNCHANGED <<rows, sending, editing, gone, reading, listed, pending, sent, edits>>
    BY <1>5 DEF vars, world, Local
  <2>2. Lists' = Lists
    BY <2>1 DEF Lists, InFlight
  <2> QED BY <2>1, <2>2 DEF ChatInv, Types, EditTypes, SendsAgree, ListsAgree, TextsAgree, Overlaid
<1> QED BY <1>1, <1>2, <1>3, <1>4, <1>5 DEF Next, AnyRead

LEMMA ChatStays == Spec => []ChatInv
BY ChatInit, ChatStep, PTL DEF Spec

(* The store keeps its types, and a message is never both still being sent  *)
(* and sent: SendReturns moves it.                                          *)
THEOREM ChatTypes == Spec => []TypeOK
<1>1. ChatInv => TypeOK
  <2> SUFFICES ASSUME ChatInv PROVE TypeOK
    OBVIOUS
  <2>1. pending \cap sent = {}
    BY DEF ChatInv, SendsAgree, Types
  <2> QED BY <2>1 DEF ChatInv, Types, EditTypes, Reads, TypeOK
<1> QED BY <1>1, ChatStays, PTL

(* From the call of send() on a message is on screen until it fails or      *)
(* leaves the strand, whichever read sees it and whichever ends first.      *)
THEOREM MessagesNeverVanish == Spec => []NeverVanishes
<1>1. ChatInv => NeverVanishes
  BY DEF ChatInv, SendsAgree, Types, NeverVanishes, Shown
<1> QED BY <1>1, ChatStays, PTL

(* No list ever read holds the text of an edit that failed, and what        *)
(* EditFails leaves laid over the message is not that text either.          *)
THEOREM FailedEditsAreNotShown == Spec => []FailedEditIsNotShown
<1>1. ChatInv => FailedEditIsNotShown
  <2> SUFFICES ASSUME ChatInv, NEW e \in Typed, editing[e][2] = "failed" PROVE Shown(editing[e][1]) # e
    BY DEF FailedEditIsNotShown
  <2>1. e \in Texts /\ editing[e] \in Messages \X {"called", "stored", "failed"}
    BY DEF ChatInv, EditTypes, Typed
  <2>2. PICK m \in Messages : editing[e] = <<m, "failed">> /\ editing[e][1] = m
    BY <2>1
  <2>3. listed[m] # e
    BY <2>1, <2>2 DEF ChatInv, TextsAgree, TextsStored, Lists
  <2>4. edits[m] # e
    BY <2>1, <2>2, OneIsNoText DEF ChatInv, TextsAgree, Overlaid
  <2> QED BY <2>1, <2>2, <2>3, <2>4, OneIsNoText DEF Shown
<1> QED BY <1>1, ChatStays, PTL
=============================================================================
