---------------------------- MODULE Invitations ----------------------------
(***************************************************************************)
(* Invitations into new conversations.  The invitation screen has one      *)
(* founded while its terms are chosen (prepare); creating the invitation   *)
(* takes it, or founds another.  The prepared ones and the invitations     *)
(* handed out are each one slot, rewritten whole by whoever read it.  Each *)
(* await is a boundary between actions.  The node (external) founds        *)
(* conversations and publishes invitations, or fails to.                   *)
(***************************************************************************)
EXTENDS Naturals, FiniteSets

CONSTANTS
    Kinds,          \* Private and Open
    Creators,       \* invitation screens that create
    MaxFounded,     \* bound on conversations founded
    Unset

\* What the constants have to be; the modules that compose this one assume it.
InvitationConstants == MaxFounded \in Nat /\ Unset \notin Nat

VARIABLES
    prepared,       \* the slot `preparedStrands`
    founded,        \* how many conversations were founded
    attached,       \* those open on the node
    job,            \* prepareStrand, one job per kind
    create,         \* createInvitation, of each creator
    outgoing,       \* the slot `outgoingInvitations`: the conversations led into
    listing,        \* OutgoingInvitations.list: what it read, and what it drops
    forgetting,     \* OutgoingInvitations.forget: which one, and the list it read
    handed,         \* history: who published an invitation into each new conversation
    gone,           \* history: conversations whose invitation was used or forgotten
    forgotten,      \* history: those the user had forgotten
    raced, dropped  \* history: the slot was written between a read and the write after it

invitationVars == <<prepared, founded, attached, job, create, outgoing, listing, forgetting, handed,
                    gone, forgotten, raced, dropped>>

Conversations == 1 .. MaxFounded
Slot == [Kinds -> Conversations \cup {Unset}]
NoJob == [pc |-> "idle", seen |-> [k \in Kinds |-> Unset], id |-> Unset]
NoCreate == [pc |-> "idle", kind |-> Unset, seen |-> NoJob.seen, id |-> Unset, out |-> {}]
NoListing == [pc |-> "idle", seen |-> {}]
NotForgetting == [of |-> Unset, seen |-> {}]
forgetVars == <<forgetting, forgotten>>

InvitationsTypeOK ==
    /\ prepared \in Slot /\ founded \in 0 .. MaxFounded /\ attached \subseteq Conversations
    /\ job \in [Kinds -> [pc : {"idle", "checks", "founds", "reads", "saves"}, seen : Slot,
                          id : Conversations \cup {Unset}]]
    /\ create \in [Creators ->
         [pc : {"idle", "waits", "reads", "saves", "founds", "publishes", "notes", "stores"},
          kind : Kinds \cup {Unset}, seen : Slot, id : Conversations \cup {Unset}, out : SUBSET Conversations]]
    /\ outgoing \subseteq Conversations
    /\ listing \in [pc : {"idle", "asks"}, seen : SUBSET Conversations]
    /\ forgetting \in [of : Conversations \cup {Unset}, seen : SUBSET Conversations]
    /\ handed \in [Conversations -> SUBSET Creators]
    /\ gone \subseteq Conversations /\ forgotten \subseteq gone
    /\ raced \in BOOLEAN /\ dropped \in BOOLEAN

InvitationsInit ==
    /\ prepared = NoJob.seen /\ founded = 0 /\ attached = {}
    /\ job = [k \in Kinds |-> NoJob] /\ create = [c \in Creators |-> NoCreate]
    /\ outgoing = {} /\ listing = NoListing /\ forgetting = NotForgetting
    /\ handed = [s \in Conversations |-> {}] /\ gone = {} /\ forgotten = {}
    /\ raced = FALSE /\ dropped = FALSE

\* A new conversation, open on the node at once.
Found ==
    /\ founded < MaxFounded
    /\ founded' = founded + 1 /\ attached' = attached \cup {founded'}

\* The slot is rewritten from what was read of it.
SavePrepared(slot, seen) ==
    /\ prepared' = slot /\ raced' = (raced \/ seen # prepared)

(***************************************************************************)
(* Preparing.                                                              *)
(***************************************************************************)

\* The job of kind k ends, however it does: takePrepared goes on where it waited for it.
JobEnds(k) ==
    /\ job' = [job EXCEPT ![k] = NoJob]
    /\ create' = [c \in Creators |->
         IF create[c].pc = "waits" /\ create[c].kind = k THEN [create[c] EXCEPT !.pc = "reads"]
         ELSE create[c]]

\* prepareStrand: one job of a kind at a time.
prepareStrand(k) ==
    /\ job[k].pc = "idle" /\ job' = [job EXCEPT ![k].pc = "checks"]
    /\ UNCHANGED <<prepared, founded, attached, create, outgoing, listing, handed, gone, raced,
                   dropped, forgetVars>>

\* One prepared earlier is reused.
PreparedAlready(k) ==
    /\ job[k].pc = "checks"
    /\ \/ prepared[k] # Unset /\ JobEnds(k)
       \/ prepared[k] = Unset /\ job' = [job EXCEPT ![k].pc = "founds"] /\ UNCHANGED create
    /\ UNCHANGED <<prepared, founded, attached, outgoing, listing, handed, gone, raced,
                   dropped, forgetVars>>

PreparedFounded(k) ==
    /\ job[k].pc = "founds" /\ Found
    /\ job' = [job EXCEPT ![k].pc = "reads", ![k].id = founded']
    /\ UNCHANGED <<prepared, create, outgoing, listing, handed, gone, raced,
                   dropped, forgetVars>>

\* The slot is read again, to keep what the other kind put there meanwhile.
ReadBeforeSave(k) ==
    /\ job[k].pc = "reads"
    /\ job' = [job EXCEPT ![k].pc = "saves", ![k].seen = prepared]
    /\ UNCHANGED <<prepared, founded, attached, create, outgoing, listing, handed, gone, raced,
                   dropped, forgetVars>>

PreparedSaved(k) ==
    /\ job[k].pc = "saves" /\ JobEnds(k)
    /\ SavePrepared([job[k].seen EXCEPT ![k] = job[k].id], job[k].seen)
    /\ UNCHANGED <<founded, attached, outgoing, listing, handed, gone,
                   dropped, forgetVars>>

\* Whatever fails is logged: a conversation founded and not saved stays in the list.
PrepareFails(k) ==
    /\ job[k].pc \in {"founds", "saves"} /\ JobEnds(k)
    /\ UNCHANGED <<prepared, founded, attached, outgoing, listing, handed, gone, raced,
                   dropped, forgetVars>>

(***************************************************************************)
(* Creating an invitation into a new conversation.                         *)
(***************************************************************************)

\* takePrepared waits for the job of its kind.  A screen creates one at a time (loading).
createInvitation(c, k) ==
    /\ create[c].pc = "idle" /\ \A s \in Conversations : c \notin handed[s]
    /\ create' = [create EXCEPT ![c] = [NoCreate EXCEPT
                    !.pc = IF job[k].pc = "idle" THEN "reads" ELSE "waits", !.kind = k]]
    /\ UNCHANGED <<prepared, founded, attached, job, outgoing, listing, handed, gone, raced,
                   dropped, forgetVars>>

\* Mutant: one is taken without looking whether it is there and open.
takePrepared_Unchecked(c) ==
    /\ create[c].pc = "reads"
    /\ create' = [create EXCEPT ![c].seen = prepared, ![c].pc = "saves",
                    ![c].id = prepared[create[c].kind]]
    /\ UNCHANGED <<prepared, founded, attached, job, outgoing, listing, handed, gone, raced,
                   dropped, forgetVars>>

\* One prepared and open is taken; one that is not open yet stays prepared.
takePrepared(c) ==
    /\ create[c].pc = "reads"
    /\ LET id == prepared[create[c].kind] IN
       create' = [create EXCEPT ![c].seen = prepared,
                    ![c].pc = IF id \in attached THEN "saves" ELSE "founds",
                    ![c].id = IF id \in attached THEN id ELSE Unset]
    /\ UNCHANGED <<prepared, founded, attached, job, outgoing, listing, handed, gone, raced,
                   dropped, forgetVars>>

\* Mutant: the one taken stays prepared.
Taken_StaysPrepared(c) ==
    /\ create[c].pc = "saves" /\ create' = [create EXCEPT ![c].pc = "publishes"]
    /\ UNCHANGED <<prepared, raced, founded, attached, job, outgoing, listing, handed, gone,
                   dropped, forgetVars>>

\* It is no longer prepared, so the list shows it.
Taken(c) ==
    /\ create[c].pc = "saves"
    /\ SavePrepared([create[c].seen EXCEPT ![create[c].kind] = Unset], create[c].seen)
    /\ create' = [create EXCEPT ![c].pc = "publishes"]
    /\ UNCHANGED <<founded, attached, job, outgoing, listing, handed, gone,
                   dropped, forgetVars>>

\* Nothing prepared: a conversation is founded for this invitation.
FoundedNow(c) ==
    /\ create[c].pc = "founds" /\ Found
    /\ create' = [create EXCEPT ![c].pc = "publishes", ![c].id = founded']
    /\ UNCHANGED <<prepared, job, outgoing, listing, handed, gone, raced,
                   dropped, forgetVars>>

\* publishFormationInvite makes it redeemable: it may be used from here on.
Published(c) ==
    /\ create[c].pc = "publishes"
    /\ handed' = [handed EXCEPT ![create[c].id] = @ \cup {c}]
    /\ create' = [create EXCEPT ![c].pc = "notes"]
    /\ UNCHANGED <<prepared, founded, attached, job, outgoing, listing, gone, raced,
                   dropped, forgetVars>>

\* Founding, saving or publishing fails: so does the invitation, and its conversation stays.
CreateFails(c) ==
    /\ create[c].pc \in {"saves", "founds", "publishes"}
    /\ create' = [create EXCEPT ![c] = NoCreate]
    /\ UNCHANGED <<prepared, founded, attached, job, outgoing, listing, handed, gone, raced,
                   dropped, forgetVars>>

\* OutgoingInvitations.remember reads the list, then writes it with this one.
RememberReads(c) ==
    /\ create[c].pc = "notes"
    /\ create' = [create EXCEPT ![c].pc = "stores", ![c].out = outgoing]
    /\ UNCHANGED <<prepared, founded, attached, job, outgoing, listing, handed, gone, raced,
                   dropped, forgetVars>>

StoreOutgoing(list, seen) == outgoing' = list /\ dropped' = (dropped \/ seen # outgoing)

\* A failure to remember it costs the listing only.
RememberStores(c) ==
    /\ create[c].pc = "stores"
    /\ StoreOutgoing(create[c].out \cup {create[c].id}, create[c].out)
    /\ create' = [create EXCEPT ![c] = NoCreate]
    /\ UNCHANGED <<prepared, founded, attached, job, listing, handed, gone, raced, forgetVars>>

NotRemembered(c) ==
    /\ create[c].pc = "stores"
    /\ create' = [create EXCEPT ![c] = NoCreate]
    /\ gone' = gone \cup {create[c].id}
    /\ UNCHANGED <<prepared, founded, attached, job, outgoing, listing, handed, raced,
                   dropped, forgetVars>>

(***************************************************************************)
(* Outstanding invitations.                                                *)
(***************************************************************************)

\* Somebody redeems it (external).
Redeemed(s) ==
    /\ handed[s] # {} /\ s \notin gone /\ gone' = gone \cup {s}
    /\ UNCHANGED <<prepared, founded, attached, job, create, outgoing, listing, handed, raced,
                   dropped, forgetVars>>

ListReads ==
    /\ listing.pc = "idle" /\ listing' = [pc |-> "asks", seen |-> outgoing]
    /\ UNCHANGED <<prepared, founded, attached, job, create, outgoing, handed, gone, raced,
                   dropped, forgetVars>>

\* The use of each was asked for: the spent ones that were seen to be are dropped.
ListStores ==
    /\ listing.pc = "asks" /\ listing' = NoListing
    /\ \E spent \in SUBSET (listing.seen \cap gone) :
         IF spent = {} THEN UNCHANGED <<outgoing, dropped>>
         ELSE StoreOutgoing(listing.seen \ spent, listing.seen)
    /\ UNCHANGED <<prepared, founded, attached, job, create, handed, gone, raced, forgetVars>>

\* The user has an invitation of the screen's list forgotten: the list is read, and written without it.
ForgetReads(s) ==
    /\ forgetting = NotForgetting /\ s \in outgoing
    /\ forgetting' = [of |-> s, seen |-> outgoing]
    /\ UNCHANGED <<prepared, founded, attached, job, create, outgoing, listing, handed, gone,
                   forgotten, raced, dropped>>

ForgetStores ==
    /\ forgetting # NotForgetting /\ forgetting' = NotForgetting
    /\ StoreOutgoing(forgetting.seen \ {forgetting.of}, forgetting.seen)
    /\ gone' = gone \cup {forgetting.of} /\ forgotten' = forgotten \cup {forgetting.of}
    /\ UNCHANGED <<prepared, founded, attached, job, create, listing, handed, raced>>

\* The process dies; its conversations open again one by one.
InvitingDies ==
    /\ attached # {}
    /\ attached' = {} /\ job' = [k \in Kinds |-> NoJob] /\ create' = [c \in Creators |-> NoCreate]
    /\ listing' = NoListing /\ forgetting' = NotForgetting
    /\ gone' = gone \cup {s \in Conversations : handed[s] # {} /\ s \notin outgoing}
    /\ UNCHANGED <<prepared, founded, outgoing, handed, forgotten, raced, dropped>>

OpensAgain(s) ==
    /\ s \in 1 .. founded \ attached /\ attached' = attached \cup {s}
    /\ UNCHANGED <<prepared, founded, job, create, outgoing, listing, handed, gone, raced,
                   dropped, forgetVars>>

InvitationsNext ==
    \/ \E k \in Kinds :
         \/ prepareStrand(k) \/ PreparedAlready(k) \/ PreparedFounded(k) \/ ReadBeforeSave(k)
         \/ PreparedSaved(k) \/ PrepareFails(k)
    \/ \E c \in Creators :
         \/ \E k \in Kinds : createInvitation(c, k)
         \/ takePrepared(c) \/ Taken(c) \/ FoundedNow(c) \/ Published(c) \/ CreateFails(c)
         \/ RememberReads(c) \/ RememberStores(c) \/ NotRemembered(c)
    \/ \E s \in Conversations : Redeemed(s) \/ OpensAgain(s) \/ ForgetReads(s)
    \/ ForgetStores \/ ListReads \/ ListStores \/ InvitingDies

\* A conversation is handed to one new invitation only, and one with an invitation out is not
\* hidden as prepared (model.ts:184-186), over crashes, failures and prepare jobs meanwhile;
\* an invitation that was not used stays listed, and one that was forgotten does not
\* (local-state.ts:128).  Except after a slot was written between
\* another's read and write of it: then a taken conversation may be prepared again, an
\* invitation just made forgotten, or a forgotten one listed again.
InvitationsAreKept ==
    /\ ~raced => \A s \in Conversations : handed[s] # {} =>
         /\ Cardinality(handed[s]) = 1
         /\ \A k \in Kinds : prepared[k] # s /\ job[k].id # s
    /\ ~dropped => \A s \in Conversations :
         handed[s] # {} /\ s \notin gone
             => s \in outgoing \/ \E c \in handed[s] : create[c].pc \in {"notes", "stores"}
    /\ ~dropped /\ ~raced => forgotten \cap outgoing = {}
=============================================================================
