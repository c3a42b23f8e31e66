-------------------------------- MODULE Codes --------------------------------
(***************************************************************************)
(* Invitations and node codes as texts: what is handed out, in which form  *)
(* it may come, and what each way to open it reads: a link the phone's     *)
(* system opens, the scanner and its paste field, the dialog for a node    *)
(* code, and serchat's `join`.                                             *)
(*                                                                         *)
(* A text is one of the forms the code tells apart, what it is the text    *)
(* of, and whether something follows it: tracking parameters after a `?`,  *)
(* the rest of a sentence.  The navigation's path parser is external.      *)
(***************************************************************************)

CONSTANTS
    Invited,         \* invitations, by their tokens
    Nodes            \* machines waiting to be claimed, by their codes

VARIABLES
    inView,          \* the text the camera saw last
    value,           \* the scanner's text
    handledRef,      \* the last text it took from the camera
    camera,          \* not asked yet, or whether the camera may be used
    edited,          \* history: the text was typed over since the camera saw one
    read             \* history: the last text that was opened: how, and as what

codesVars == <<inView, value, handledRef, camera, edited, read>>

InviteForms == {"hash", "path", "query", "scheme", "token"}
NodeForms == {"code", "inLink", "newer"}
NoCode == [kind |-> "none", id |-> "none"]
Invitation(t) == [kind |-> "invitation", id |-> t]
NodeCode(n) == [kind |-> "node", id |-> n]
Garbled == "garbled"      \* a token or a code with what followed it

Texts == [form : InviteForms, of : Invited, more : BOOLEAN] \cup
         [form : NodeForms, of : Nodes, more : BOOLEAN] \cup
         [form : {"other"}, of : {"none"}, more : BOOLEAN]
NoText == [form |-> "other", of |-> "none", more |-> FALSE]

\* What it was when it was handed out.
Thing(text) ==
    IF text.form \in InviteForms THEN Invitation(text.of)
    ELSE IF text.form \in NodeForms THEN NodeCode(text.of) ELSE NoCode

\* The link that is handed out, and the code a node shows.
buildInviteUrl(t) == [form |-> "hash", of |-> t, more |-> FALSE]
Handed == {buildInviteUrl(t) : t \in Invited} \cup {[form |-> "code", of |-> n, more |-> FALSE] : n \in Nodes}

\* parseInviteToken: after `#` all of it is the token; the other forms end at `?` or `#`.
parseInviteToken(text) ==
    CASE text.form = "hash" -> Invitation(IF text.more THEN Garbled ELSE text.of)
      [] text.form \in {"path", "query", "scheme"} -> Invitation(text.of)
      [] OTHER -> NoCode

\* nodeCodeFromUrl: in a link the code ends where it must, at the start of a text it is all of it.
nodeCodeFromUrl(text) ==
    CASE text.form \in {"code", "newer"} -> NodeCode(IF text.more THEN Garbled ELSE text.of)
      [] text.form = "inLink" -> NodeCode(text.of)
      [] OTHER -> NoCode

\* readNodeCode: a code, or which problem it has.
readNodeCode(text) ==
    LET code == nodeCodeFromUrl(text)
    IN  IF code = NoCode THEN "not-node-code"
        ELSE IF text.form = "newer" THEN "newer-version"
        ELSE IF code.id = Garbled THEN "damaged" ELSE "ok"

\* getStateFromPath: the fragment is mapped onto the route of the older links, and its token ends at `?`.
\* The form with a query is the route that makes an invitation, and a node's code is no link of ours.
Routed(text) ==
    IF text.form \in {"hash", "path", "scheme"} THEN Invitation(text.of) ELSE NoCode

\* The scanner: a node's code first, then an invitation.
Scanned(text) == IF nodeCodeFromUrl(text) # NoCode THEN nodeCodeFromUrl(text) ELSE parseInviteToken(text)

\* `join` takes what is no link for a token itself.
Joined(text) ==
    IF parseInviteToken(text) # NoCode THEN parseInviteToken(text)
    ELSE Invitation(IF text.form = "token" /\ ~text.more THEN text.of ELSE Garbled)

\* The dialog gives the text to the review as it is.
Pasted(text) == IF readNodeCode(text) = "ok" THEN nodeCodeFromUrl(text) ELSE NoCode

Ways == {"link", "scanner", "dialog", "join"}
Read(way, text) ==
    CASE way = "link" -> Routed(text) [] way = "scanner" -> Scanned(text)
      [] way = "dialog" -> Pasted(text) [] way = "join" -> Joined(text)
NotRead == [way |-> "none", text |-> NoText, as |-> NoCode]

CodesTypeOK ==
    /\ {inView, value, handledRef} \subseteq Texts /\ camera \in {"not-determined", "authorized", "denied"}
    /\ edited \in BOOLEAN
    /\ read.text \in Texts /\ read.way \in Ways \cup {"none"}
    /\ read.as.kind \in {"none", "invitation", "node"} /\ read.as.id \in Invited \cup Nodes \cup {"none", Garbled}

CodesInit ==
    /\ inView = NoText /\ value = NoText /\ handledRef = NoText /\ camera = "not-determined"
    /\ edited = FALSE /\ read = NotRead

scannerVars == <<inView, value, handledRef, camera, edited>>

\* The system opens a link, a command is typed, a text is pasted in the dialog.
Open(way, text) ==
    /\ way # "scanner" /\ read' = [way |-> way, text |-> text, as |-> Read(way, text)]
    /\ UNCHANGED scannerVars

Permission(granted) ==
    /\ camera = "not-determined" /\ camera' = IF granted THEN "authorized" ELSE "denied"
    /\ UNCHANGED <<inView, value, handledRef, edited, read>>

\* onCodeScanned: a text is taken when it differs from the one taken last.
CameraSees(text) ==
    /\ camera = "authorized" /\ text # NoText /\ inView' = text
    /\ \/ /\ handledRef = text /\ UNCHANGED <<value, handledRef, edited>>
       \/ /\ handledRef # text
          /\ handledRef' = text /\ value' = text /\ edited' = FALSE
    /\ UNCHANGED <<camera, read>>

\* The paste field, which what the camera sees is written to as well.
Typed(text) ==
    /\ text # value /\ value' = text /\ edited' = TRUE
    /\ UNCHANGED <<inView, handledRef, camera, read>>

\* The button, off for what is neither.
Opened ==
    /\ Scanned(value) # NoCode
    /\ read' = [way |-> "scanner", text |-> value, as |-> Scanned(value)] /\ UNCHANGED scannerVars

\* Another scanner is opened.
ScannerOpens ==
    /\ inView' = NoText /\ value' = NoText /\ handledRef' = NoText /\ camera' = "not-determined"
    /\ edited' = FALSE /\ UNCHANGED read

CodesNext ==
    \/ \E text \in Texts : CameraSees(text) \/ Typed(text) \/ \E way \in Ways : Open(way, text)
    \/ \E granted \in BOOLEAN : Permission(granted)
    \/ Opened \/ ScannerOpens

(***************************************************************************)
(* Properties.                                                             *)
(***************************************************************************)

\* "So the scheme can never drift out of sync again" (invite-link.ts:27-28): what is handed out is
\* read as what it is in every way it can come, and a text in any form that was ever handed out is
\* never read as something else.  The exceptions: a link whose token is followed by more
\* is read with it by the scanner and by `join`, a code likewise; and `join` tries any text.
ReadAsMade ==
    /\ (read.text \in Handed /\ read.way # "none") =>
         read.as \in {Thing(read.text)} \cup
            (IF read.way \in {"dialog", "link"} THEN {NoCode} ELSE {})
            \cup (IF read.way = "join" /\ read.text.form = "code" THEN {Invitation(Garbled)} ELSE {})
    /\ read.as \notin {NoCode, Thing(read.text)} =>
         /\ read.as.id = Garbled
         /\ read.text.more \/ (read.way = "join" /\ read.text.form \notin InviteForms)
    /\ (read.text.form = "hash" /\ read.way = "link") => read.as = Thing(read.text)
    /\ (read.way = "dialog" /\ read.as # NoCode) => read.as.kind = "node"

\* The scanner's text is what the camera saw last, unless the user typed over it: a text that is
\* seen again is not taken again (QrScanner.tsx:30-31).
ScannedIsInView == value = inView \/ edited

CodesAreRead == ReadAsMade /\ ScannedIsInView
=============================================================================
