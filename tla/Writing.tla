------------------------------ MODULE Writing ------------------------------
(***************************************************************************)
(* What the model's operations do to a strand's tables: a message sent,    *)
(* edited or deleted, a reaction given or taken back, by any device of the *)
(* strand.  A delete is several statements, and a message whose insert     *)
(* found too few of the other members is inserted again.                   *)
(*                                                                         *)
(* A statement on the strand's database (external) is one action.  It      *)
(* commits, and the call may hear of a failure all the same; or it fails   *)
(* and nothing was committed, as a transient failure always is.  It sees,  *)
(* and is checked against, what its device has heard of: the others hear   *)
(* of a call some time after it committed, all of them at once, and do not *)
(* check it again (docs/data-integrity.md:283).  Until they have heard of  *)
(* it they may refuse it, though the call returned (messages.ts:14).       *)
(***************************************************************************)
EXTENDS Naturals, Sequences, FiniteSets

CONSTANTS
    Writers,        \* the devices
    MaxWritings,    \* bound on the calls, all devices together
    MaxAttempts     \* how often an insert is tried (5 in the code)

\* What the constants have to be; the modules that compose this one assume it.
WritingConstants == MaxWritings \in Nat /\ MaxAttempts \in Nat \ {0}

VARIABLES
    writings,       \* the calls, in the order they began
    inserted,       \* rows of App.Message: which attempt of which call inserted them
    erased,         \* the deletes that took their message away
    reactions,      \* rows of App.Reaction: <<message, device>>
    unshared,       \* calls that wrote something the other devices have not heard of
    given,          \* history: reactions given and not taken back
    unclear,        \* history: sends that committed, though the call heard of a failure
    stripped,       \* history: messages a delete of which failed or was refused after their reactions went
    apart           \* history: messages written about by one who had not heard they were gone, deleted by
                    \* one who had not heard of a reaction, or with a part refused that another rests on

writingVars == <<writings, inserted, erased, reactions, unshared, given, unclear, stripped, apart>>

Calls == 1 .. Len(writings)
Rows == (1 .. MaxWritings) \X (1 .. MaxAttempts)     \* each insert draws a new id
NoRow == <<0, 0>>

Writing == [op : {"send", "edit", "delete", "react", "unreact"}, by : Writers,
            on : Rows \cup {NoRow}, try : 1 .. MaxAttempts,
            at : {"begun", "between", "done", "failed", "void", "refused"}]

WritingTypeOK ==
    /\ writings \in Seq(Writing) /\ Len(writings) <= MaxWritings
    /\ {inserted, stripped, apart} \subseteq SUBSET Rows
    /\ {reactions, given} \subseteq SUBSET (Rows \X Writers)
    /\ {erased, unshared, unclear} \subseteq SUBSET (1 .. MaxWritings)

WritingInit ==
    /\ writings = <<>> /\ inserted = {} /\ erased = {} /\ reactions = {} /\ unshared = {}
    /\ given = {} /\ unclear = {} /\ stripped = {} /\ apart = {}

At(n, op, at) == writings[n].op = op /\ writings[n].at = at
Ends(n, at) == writings' = [writings EXCEPT ![n].at = at]

\* How a call whose statement committed ends: it returns, or hears of a failure.
Answers == {"done", "failed"}

On(n) == writings[n].on
Reaction(n) == <<On(n), writings[n].by>>
ReactionsOn(m) == {r \in reactions : r[1] = m}

\* The messages there once everyone has heard of everything.
messages == {m \in inserted : \A d \in erased : On(d) # m}

(***************************************************************************)
(* What the device of a call has heard of.                                 *)
(***************************************************************************)

NotHeard(d, n) == d \in unshared /\ writings[d].by # writings[n].by

\* Its message is there, for all it knows.
Sees(n) == On(n) \in inserted /\ \A d \in erased : On(d) = On(n) => NotHeard(d, n)

\* The reactions to its message it does not know.
UnknownTo(n) ==
    {r \in ReactionsOn(On(n)) : \E k \in Calls : NotHeard(k, n) /\ writings[k].op = "react" /\ Reaction(k) = r}

\* Its reaction is there, for all it knows: another device's delete may have begun to take it.
SeesReaction(n) ==
    \/ Reaction(n) \in reactions
    \/ Reaction(n) \in given /\ \E d \in Calls : writings[d].op = "delete" /\ On(d) = On(n) /\ NotHeard(d, n)

\* The others hear of a call.
Heard(n) ==
    /\ n \in unshared /\ unshared' = unshared \ {n}
    /\ UNCHANGED <<writings, inserted, erased, reactions, given, unclear, stripped, apart>>

\* A device writes about a message its screen shows, there or gone since; a send is of a new one.
Begin(by, op, on) ==
    /\ Len(writings) < MaxWritings
    /\ op # "send" => on \in messages /\ (on[1] \in unshared => writings[on[1]].by = by)
    /\ writings' = Append(writings, [op |-> op, by |-> by, on |-> on, try |-> 1, at |-> "begun"])
    /\ UNCHANGED <<inserted, erased, reactions, unshared, given, unclear, stripped, apart>>

(***************************************************************************)
(* send.                                                                   *)
(***************************************************************************)

\* The message is there, whatever the call is told.
RowInserted(n, at) ==
    /\ At(n, "send", "begun") /\ at \in Answers /\ Ends(n, at)
    /\ inserted' = inserted \cup {<<n, writings[n].try>>}
    /\ unshared' = unshared \cup {n}
    /\ unclear' = unclear \cup (IF at = "failed" THEN {n} ELSE {})
    /\ UNCHANGED <<erased, reactions, given, stripped, apart>>

\* Too few members answered: inserted again in a while, under a new id.
TryAgain(n) ==
    IF writings[n].try < MaxAttempts THEN writings' = [writings EXCEPT ![n].try = @ + 1]
    ELSE Ends(n, "failed")

InsertTooFew(n) ==
    /\ At(n, "send", "begun") /\ TryAgain(n)
    /\ UNCHANGED <<inserted, erased, reactions, unshared, given, unclear, stripped, apart>>

(***************************************************************************)
(* The other operations: each a statement, and a delete two of them.       *)
(***************************************************************************)

\* An edit writes content, which is not told apart here; of a message that is gone it writes
\* nothing, and has not failed.
Edited(n, at) ==
    /\ At(n, "edit", "begun") /\ at \in Answers /\ Ends(n, at)
    /\ UNCHANGED <<inserted, erased, reactions, unshared, given, unclear, stripped, apart>>

\* One to a message the device knows to be gone is refused (StatementFails).
Reacted(n, at) ==
    /\ At(n, "react", "begun") /\ at \in Answers /\ Ends(n, at)
    /\ Sees(n) /\ ~SeesReaction(n)
    /\ reactions' = reactions \cup {Reaction(n)} /\ given' = given \cup {Reaction(n)}
    /\ unshared' = unshared \cup {n}
    /\ apart' = apart \cup ({On(n)} \ messages)
    /\ UNCHANGED <<inserted, erased, unclear, stripped>>

Unreacted(n, at) ==
    /\ At(n, "unreact", "begun") /\ at \in Answers /\ Ends(n, at)
    /\ SeesReaction(n)
    /\ reactions' = reactions \ {Reaction(n)} /\ given' = given \ {Reaction(n)}
    /\ unshared' = unshared \cup {n}
    /\ UNCHANGED <<inserted, erased, unclear, stripped, apart>>

\* A reaction given twice is one, one that is not there cannot be taken back, and a message that
\* is gone is not deleted: the statement writes nothing, and the call returns.
NothingToWrite(n) ==
    /\ \/ At(n, "react", "begun") /\ SeesReaction(n)
       \/ At(n, "unreact", "begun") /\ ~SeesReaction(n)
       \/ At(n, "delete", "between") /\ ~Sees(n)
    /\ Ends(n, "void")
    /\ UNCHANGED <<inserted, erased, reactions, unshared, given, unclear, stripped, apart>>

\* The reactions of the message go first, everyone's the device knows.
ReactionsRemoved(n, fails) ==
    /\ At(n, "delete", "begun") /\ Ends(n, IF fails THEN "failed" ELSE "between")
    /\ reactions' = reactions \ (ReactionsOn(On(n)) \ UnknownTo(n))
    /\ unshared' = unshared \cup {n}
    /\ stripped' = stripped \cup (IF fails THEN {On(n)} ELSE {})
    /\ UNCHANGED <<inserted, erased, given, unclear, apart>>

\* Then the message: refused if the device knows of a reaction (StatementFails).
Removed(n, at) ==
    /\ At(n, "delete", "between") /\ at \in Answers /\ Ends(n, at)
    /\ Sees(n) /\ ReactionsOn(On(n)) \subseteq UnknownTo(n)
    /\ erased' = erased \cup {n}
    /\ unshared' = unshared \cup {n}
    /\ apart' = apart \cup {r[1] : r \in UnknownTo(n)}
    /\ UNCHANGED <<inserted, reactions, given, unclear, stripped>>

\* The statement fails and wrote nothing; a delete may have taken the reactions.
StatementFails(n) ==
    /\ writings[n].at \in {"begun", "between"} /\ Ends(n, "failed")
    /\ stripped' = stripped \cup (IF writings[n].at = "begun" THEN {} ELSE {On(n)})
    /\ UNCHANGED <<inserted, erased, reactions, unshared, given, unclear, apart>>

(***************************************************************************)
(* A call that returned is refused by the others: its rows leave, or are   *)
(* back.                                                                   *)
(***************************************************************************)

Refused(n, op) ==
    /\ At(n, op, "done") /\ n \in unshared
    /\ Ends(n, "refused") /\ unshared' = unshared \ {n}
    /\ UNCHANGED unclear

\* Only its own device wrote about it.
SendRefused(n) ==
    /\ Refused(n, "send")
    /\ inserted' = inserted \ {<<n, writings[n].try>>}
    /\ apart' = apart \cup {<<n, writings[n].try>>}
    /\ UNCHANGED <<erased, reactions, given, stripped>>

ReactRefused(n) ==
    /\ Refused(n, "react")
    /\ reactions' = reactions \ {Reaction(n)} /\ given' = given \ {Reaction(n)}
    /\ UNCHANGED <<inserted, erased, stripped, apart>>

UnreactRefused(n) ==
    /\ Refused(n, "unreact")
    /\ reactions' = reactions \cup {Reaction(n)} /\ given' = given \cup {Reaction(n)}
    /\ apart' = apart \cup ({On(n)} \ messages)
    /\ UNCHANGED <<inserted, erased, stripped>>

\* The message is back, unless another delete took it; its reactions are another statement's.
DeleteRefused(n) ==
    /\ Refused(n, "delete")
    /\ erased' = erased \ {n} /\ stripped' = stripped \cup {On(n)}
    /\ UNCHANGED <<inserted, reactions, given, apart>>

\* The statement that took the reactions is refused by itself.
ReactionsBack(n) ==
    /\ writings[n].op = "delete" /\ n \in unshared
    /\ reactions' = reactions \cup {r \in given : r[1] = On(n)}
    /\ apart' = apart \cup ({On(n)} \ messages)
    /\ UNCHANGED <<writings, inserted, erased, unshared, given, unclear, stripped>>

WritingNext ==
    \/ \E by \in Writers :
         \/ Begin(by, "send", NoRow)
         \/ \E op \in {"edit", "delete", "react", "unreact"}, m \in messages : Begin(by, op, m)
    \/ \E n \in Calls :
         \/ InsertTooFew(n) \/ NothingToWrite(n) \/ StatementFails(n) \/ Heard(n)
         \/ \E at \in Answers :
              RowInserted(n, at) \/ Edited(n, at) \/ Reacted(n, at) \/ Unreacted(n, at) \/ Removed(n, at)
         \/ \E fails \in BOOLEAN : ReactionsRemoved(n, fails)
         \/ SendRefused(n) \/ ReactRefused(n) \/ UnreactRefused(n) \/ DeleteRefused(n) \/ ReactionsBack(n)

(***************************************************************************)
(* What is promised, whichever way the operations of the devices mix.      *)
(***************************************************************************)

\* The rows a call's inserts left.
InsertedBy(n) == {m \in inserted : m[1] = n}

\* A send puts at most one message in the strand however often it is tried, and none when it
\* failed because too few members answered (model.ts:69 "retrying cannot duplicate the message")
\* or was refused.
OnePerSend ==
    \A n \in Calls : writings[n].op = "send" =>
        /\ Cardinality(InsertedBy(n)) <= 1
        /\ writings[n].at = "failed" /\ n \notin unclear => InsertedBy(n) = {}
        /\ writings[n].at = "refused" => InsertedBy(n) = {}

\* A message deleted is gone, and no reaction is left of a message that is gone: except where a
\* device wrote of what another had not heard of, or a refusal took the part the other rests on
\* (`apart`).  A reaction not taken back is there while its message is: except while a delete is
\* between its statements, or after it failed there or was refused (`stripped`).
DeletedIsGone ==
    /\ \A n \in Calls : At(n, "delete", "done") => On(n) \notin messages
    /\ \A r \in reactions : r[1] \in messages \cup apart
    /\ \A r \in given : \/ r \in reactions \/ r[1] \notin messages \/ r[1] \in stripped
                          \/ \E n \in Calls : At(n, "delete", "between") /\ On(n) = r[1]

WritesAreWhole == OnePerSend /\ DeletedIsGone
=============================================================================
