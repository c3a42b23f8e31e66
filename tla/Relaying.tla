------------------------------ MODULE Relaying -------------------------------
(***************************************************************************)
(* What a profile of serchat is configured with.  Its file: a process      *)
(* reads it, or makes it with a new party, before it takes the profile's   *)
(* lock (module ProfileLock), and saves its own copy whole from then on.   *)
(* And its `relay` command: a relay is added under any name it is known    *)
(* by, and removed by its address or by its row in the last list.          *)
(*                                                                         *)
(* An address pins the peer that answers there.  What a host publishes in  *)
(* DNS, and who answers at an address, are external and may change at any  *)
(* time.  The prompt runs one command at a time (module Serchat), so the   *)
(* saved relays stay while one of them waits.  The file's part counts the  *)
(* changes of relays and no more: the two parts share nothing else.        *)
(***************************************************************************)
EXTENDS Naturals, Sequences, SequencesExt

CONSTANTS
    RelayHosts,           \* hosts, each with the one place it answers relays at
    Peers,           \* peer ids
    ExtraHost, ExtraPeer, \* the relay given by --relay for this run
    MaxRelays,       \* bound on the commands that change the saved relays
    Runs,            \* processes of the profile
    MaxConfigured    \* bound on the parties made, the ports chosen and the changes of relays

NoPeer == "no peer"
Addresses == [host : RelayHosts, peer : Peers]
Extra == [host |-> ExtraHost, peer |-> ExtraPeer]

\* What the constants have to be; the modules that compose this one assume it.
RelayingConstants ==
    Extra \in Addresses /\ MaxRelays \in Nat /\ NoPeer \notin Peers /\ MaxConfigured \in Nat

VARIABLES
    savedRelays,     \* config.relays
    adding,          \* the `relay add` under way: where it is, and what was given or found
    printedRelays,   \* the list printed last
    relayChanges,    \* how often the saved relays changed
    removed,         \* history: the last removal by row: what it removed, what was printed there
    profileFile,     \* profile.json
    run,             \* each process: where it is, and its copy of the file
    configured,      \* how many parties, ports and changes there were
    nodeParty,       \* the party the profile's keys and blocks are of
    lastRelays,      \* history: the relays chosen last
    behind,          \* history: processes whose copy another's save made old
    outrun           \* history: such a copy was saved

configVars == <<profileFile, run, configured, nodeParty, lastRelays, behind, outrun>>
relayingVars ==
    <<savedRelays, adding, printedRelays, relayChanges, removed, configVars>>

\* relays(): the saved ones, then those of this run, each once.
relays ==
    IF Contains(savedRelays, Extra) THEN savedRelays ELSE Append(savedRelays, Extra)

\* What a person types: a full address, one without a peer, /dnsaddr/, a host, or a host and port.
Forms == {"full", "bare", "dnsaddr", "host", "port"}
NotAdding == [pc |-> "idle", form |-> "full", host |-> "none", peer |-> NoPeer]
Counts == 0 .. MaxConfigured
Configs == [party : Counts, port : Counts, relays : Counts]
NoFile == [party |-> 0, port |-> 0, relays |-> 0]
NotRemoved == [address |-> Extra, printed |-> Extra]

RelayingTypeOK ==
    /\ savedRelays \in Seq(Addresses) /\ printedRelays \in Seq(Addresses)
    /\ adding = NotAdding \/
       adding \in [pc : {"lookup", "dial", "resolved"}, form : Forms, host : RelayHosts, peer : Peers \cup {NoPeer}]
    /\ relayChanges \in 0 .. MaxRelays
    /\ removed \in [address : Addresses, printed : Addresses]
    /\ profileFile \in Configs
    /\ run \in [Runs -> [pc : {"none", "creating", "opened", "runs"}, config : Configs]]
    /\ {configured, nodeParty, lastRelays} \subseteq Counts /\ behind \subseteq Runs /\ outrun \in BOOLEAN

RelayingInit ==
    /\ savedRelays = <<>> /\ adding = NotAdding /\ printedRelays = <<>> /\ relayChanges = 0
    /\ removed = NotRemoved
    /\ profileFile = NoFile /\ run = [p \in Runs |-> [pc |-> "none", config |-> NoFile]]
    /\ configured = 0 /\ nodeParty = 0 /\ lastRelays = 0 /\ behind = {} /\ outrun = FALSE

\* resolveRelayAddress: what it does first with each form of a relay.
Add(form, host, peer) ==
    /\ adding = NotAdding /\ relayChanges < MaxRelays
    /\ adding' = [pc |-> CASE form = "full" -> "resolved" [] form \in {"dnsaddr", "host"} -> "lookup"
                           [] OTHER -> "dial",
                  form |-> form, host |-> host, peer |-> IF form = "full" THEN peer ELSE NoPeer]
    /\ UNCHANGED <<savedRelays, printedRelays, relayChanges, removed>>

\* publishedAddress: of the host's records, a WebSocket address with its peer, which may be another host's.
Published ==
    /\ adding.pc = "lookup"
    /\ \E address \in Addresses :
         adding' = [adding EXCEPT !.pc = "resolved", !.host = address.host, !.peer = address.peer]
    /\ UNCHANGED <<savedRelays, printedRelays, relayChanges, removed>>

\* A host that publishes none is tried as it is; /dnsaddr/ fails, and nothing is printed.
NotPublished ==
    /\ adding.pc = "lookup"
    /\ adding' = IF adding.form = "host" THEN [adding EXCEPT !.pc = "dial"] ELSE NotAdding
    /\ UNCHANGED <<savedRelays, printedRelays, relayChanges, removed>>

\* learned: whoever answers first is pinned; nobody does, or the node does not run.
Learned ==
    /\ adding.pc = "dial"
    /\ \/ \E peer \in Peers : adding' = [adding EXCEPT !.pc = "resolved", !.peer = peer]
       \/ adding' = NotAdding
    /\ UNCHANGED <<savedRelays, printedRelays, relayChanges, removed>>

\* applyRelays saves them, and the list is printed.
Apply(next) ==
    /\ savedRelays' = next /\ relayChanges' = relayChanges + (IF next = savedRelays THEN 0 ELSE 1)
    /\ printedRelays' = relays'

\* "The same relay under another name": not when a saved one has that peer.
Added ==
    /\ adding.pc = "resolved" /\ adding' = NotAdding
    /\ Apply(IF \E i \in DOMAIN savedRelays : savedRelays[i].peer = adding.peer THEN savedRelays
             ELSE Append(savedRelays, [host |-> adding.host, peer |-> adding.peer]))
    /\ UNCHANGED removed

\* The others, in their order.
Without(target) ==
    LET kept == {row \in DOMAIN savedRelays : savedRelays[row] # target}
        nth(k) == CHOOSE row \in kept : Cardinality(kept \cap 1 .. row) = k IN
    [k \in 1 .. Cardinality(kept) |-> savedRelays[nth(k)]]

\* An address has to be one of the saved ones.
Drop(address) ==
    /\ adding = NotAdding /\ relayChanges < MaxRelays
    /\ Contains(savedRelays, address) /\ Apply(Without(address)) /\ UNCHANGED adding

\* A row counts in the saved relays, whether or not they were printed.
RemoveRow(row) ==
    /\ row \in DOMAIN savedRelays /\ Drop(savedRelays[row])
    /\ removed' = IF row \in DOMAIN printedRelays
                  THEN [address |-> savedRelays[row], printed |-> printedRelays[row]] ELSE removed

RemoveAddress(address) == Drop(address) /\ UNCHANGED removed

\* `relay` alone.
List == adding = NotAdding /\ Apply(savedRelays) /\ UNCHANGED <<adding, removed>>

(***************************************************************************)
(* The profile's file.                                                     *)
(***************************************************************************)

Becomes(p, pc, config) == run' = [run EXCEPT ![p] = [pc |-> pc, config |-> config]]
Live == {p \in Runs : run[p].pc # "none"}

\* openProfile: the file as it is, or a new party where there is none.
openProfile(p) ==
    /\ run[p].pc = "none" /\ behind' = behind \ {p}
    /\ IF profileFile # NoFile THEN Becomes(p, "opened", profileFile) /\ UNCHANGED configured
       ELSE /\ configured < MaxConfigured /\ configured' = configured + 1
            /\ Becomes(p, "creating", [NoFile EXCEPT !.party = configured'])
    /\ UNCHANGED <<profileFile, nodeParty, lastRelays, outrun>>

\* saveConfig, and the write of a new profile: the process's copy, whole.
Saves(p, config) ==
    /\ profileFile' = config
    /\ behind' = (behind \ {p}) \cup {q \in Live \ {p} : run[q].config # config}
    /\ outrun' = (outrun \/ p \in behind)

Created(p) ==
    /\ run[p].pc = "creating" /\ Saves(p, run[p].config) /\ Becomes(p, "opened", run[p].config)
    /\ UNCHANGED <<configured, nodeParty, lastRelays>>

\* lockProfile: the node starts, with the keys and blocks there are or, the first time, new ones.
Locks(p) ==
    /\ run[p].pc = "opened" /\ \A q \in Runs : run[q].pc # "runs"
    /\ Becomes(p, "runs", run[p].config)
    /\ nodeParty' = IF nodeParty = 0 THEN run[p].config.party ELSE nodeParty
    /\ UNCHANGED <<profileFile, configured, lastRelays, behind, outrun>>

Reconfigures(p, config) ==
    /\ run[p].pc = "runs" /\ configured < MaxConfigured /\ configured' = configured + 1
    /\ Becomes(p, "runs", config) /\ Saves(p, config)
    /\ UNCHANGED nodeParty

\* defaultListenAddress: a free port, chosen once.
Listens(p) ==
    /\ run[p].config.port = 0 /\ Reconfigures(p, [run[p].config EXCEPT !.port = configured'])
    /\ UNCHANGED lastRelays

\* applyRelays.
Relayed(p) ==
    Reconfigures(p, [run[p].config EXCEPT !.relays = configured']) /\ lastRelays' = configured'

\* The profile is in use, the process is done, or it dies.
Ends(p) ==
    /\ run[p].pc # "none" /\ Becomes(p, "none", NoFile) /\ behind' = behind \ {p}
    /\ UNCHANGED <<profileFile, configured, nodeParty, lastRelays, outrun>>

CommandNext ==
    \/ \E form \in Forms, host \in RelayHosts, peer \in Peers : Add(form, host, peer)
    \/ Published \/ NotPublished \/ Learned \/ Added \/ List
    \/ \E row \in 1 .. MaxRelays : RemoveRow(row)
    \/ \E address \in Addresses : RemoveAddress(address)

ConfigNext ==
    \E p \in Runs :
        openProfile(p) \/ Created(p) \/ Locks(p) \/ Listens(p) \/ Relayed(p) \/ Ends(p)

(***************************************************************************)
(* Properties.                                                             *)
(***************************************************************************)

\* "One entry per relay, identified by its peer id" (settings.ts:96-97): whichever names a relay was
\* given under, and whatever DNS and the network answered meanwhile.
OneEntryPerRelay ==
    \A i, j \in DOMAIN savedRelays : savedRelays[i].peer = savedRelays[j].peer => i = j

\* A row is counted in the saved relays, the list printed has those of this run too (host.ts:104,
\* settings.ts:105): what is removed is what was printed there.
RemovedIsPrinted == removed.address = removed.printed

\* A run works with what the file says, on the party its keys and blocks are of, and what an earlier
\* run saved is not lost (home.ts:98, host.ts:196).  Except for a process that opened the profile, or
\* made it, before another saved it: the lock, taken after, lets it pass (main.ts:135-136).
ConfigIsKept ==
    ~outrun =>
        /\ profileFile.relays = lastRelays
        /\ \A p \in Runs \ behind : run[p].pc = "runs" =>
              profileFile = run[p].config /\ run[p].config.party = nodeParty

RelaysAreNamed == OneEntryPerRelay /\ RemovedIsPrinted /\ ConfigIsKept
=============================================================================
