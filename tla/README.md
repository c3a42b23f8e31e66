# A verification of sereus-chat

TLA+ models of the parts of sereus-chat that are hard to test, the TLC runs that
check them on small instances, and TLAPS proofs of what matters most about them.
Paths are relative to the repository. `core` stands for `packages/core/src`,
`mobile` for `apps/mobile/src`, `cli` for `apps/cli/src`, `mobile-ns` for
`apps/mobile-ns`.

## The system

sereus-chat is a chat application whose conversations ("strands") are replicated
databases kept by their members' own machines. The repository holds the layer
between the screens and that stack (cadre-core, Optimystic): `core`, used by a
phone app, a NativeScript app and a command line (`serchat`).

| Component | State it keeps | Operations | What makes it correct |
|---|---|---|---|
| Delivery tracker, `core/sereus/delivery.ts` | a mark for each of this device's writes, refusals, a buffer of early events, the `outbox` slot | status and durability events, `load`, `record`, `refresh`, `dismiss`, `forgetStrand`, a timer | marks are true, go forward, survive restarts and are never stuck; a withdrawal is offered only while safe |
| Loader, `core/stores/loader.ts` over `store.ts` | what was read, one read in flight, `again`, a debounce and a poll | subscribe and leave, change signals, timers, `reload` | one read at a time; no change it is told of is missed; nothing runs unwatched |
| Conversation store, `core/stores/chat.ts` | the last list, pending and sent rows, edits | `send`, `edit`, `delete`, `react`, `discard`, reads | nothing sent flickers away, what is shown becomes what is stored |
| Strand runtime, `core/sereus/strands.ts` | strands being attached, what was subscribed to, how start-up went | `boot`, offers, the sweep of remembered joins, `leave` | every offer followed, nothing attached twice, joins kept, leaves lasting |
| Local slots, `core/sereus/local-state.ts` | joined strands, prepared and outgoing invitations, summaries, preferences, drafts, settings of strands | read-modify-write of a JSON slot | no update lost across an await |
| Chat model, `core/sereus/model.ts` | prepared strands, watches, caches, the claim under way | lists, `send`, edits, reactions, search, invitations, joining, leaving, claiming and removing machines, nicknames | the order of its steps under failure |
| Node hosts, `mobile/host`, `cli/host.ts`, `mobile-ns/src/host.ts` | the node, pending settings, rebuild hooks | start, restart with settings, sleep and wake | settings are applied; handlers follow the node |
| Private store, `core/sereus/private-store.ts` | which node the schema was applied on | `ready`, nicknames | the schema is there before it is used |
| WebSocket batching, `core/transport` | parts waiting per socket | `send`, `close`, flush | order kept, nothing lost at close |
| Command line, `cli` | the prompt's queue, printed rows, the profile's files and lock | lines, commands, `tail`, scripts | lines run once and in order, numbers name what was printed, one process per profile |
| Phone screens, `mobile/screens`, `mobile/cadre-ui` | what was read, what the user is asked, banners | opening, home, a conversation, its settings, invitations, search, machines, settings, scanner | what is shown is so, what was asked for happens, and only that |
| NativeScript storage, `mobile-ns` | databases that open lazily | calls, opening, `close` | an opening in use is not closed or repeated |
| Codes, `core/protocol/invite-link.ts`, `node-code-text.ts`, `core/sereus/node-code.ts` | none | formatting, reading | a text is opened as what it was made as |
| Interface and mock of the model, diagnostics, translations | little or none | | |

They interact as follows. A screen subscribes to a store; the store's loader
reads through the chat model and is told to read again by its change signals.
Writes go from the store through the model to the strand's database, and their
transaction id to the tracker, which the node's events tell where the write
stands. The runtime attaches strands to the node, which offers them as events;
the host replaces the node when a setting changes, and everyone's handlers move
to the new one. Persistent state is in JSON slots that are loaded, changed and
saved whole.

What is hard: JavaScript runs one step at a time, so the interleavings are those of
awaits, events, timers and saves nobody waits for; the process can die between any
two steps (a phone's does); the node is rebuilt under running operations; events
of a write can come before the write's id; screens outlive, or do not outlive, the
calls they made.

`PROJECT.json` lists each hazard at its line with the properties that cover it.

## Modules

Four modules are specifications of one component each, with a run of their own:

| Module | Models | State and actions |
|---|---|---|
| `Delivery` | the tracker, and the strand's queue and journal below it | `mark` is `byTx`, `failures`, `early`, `slot`/`onDisk`/`loadText` are the outbox slot; one action for each operation (`load`, `record`, `refresh`, `dismiss`, `forgetStrand`, `DeliveredTimer`) and one for each step of the stack together with the tracker's handler of its event (`Submit`, `BackOff`, `Commit`, `Refuse`, ...). `MCDelivery` gives the strand of each write to TLC |
| `Loader` | `loader()` over `writable()` | `inFlight` has a third value, `settled`: the read has settled and its `.finally` has not run. `again`, `debounce`, `poll`, `active` are the code's; `shown` is the store |
| `ChatStore` | `chatStore()` for one conversation, over the strand's rows | `pending`, `sent`, `edits` are `Local`; `Shown` is `compose`; reads see the rows at any moment between their start and end |
| `StrandRuntime` | the runtime, `acceptInvitation` of the model and the `joinedStrands` slot | each await is a boundary; `attaches` are the attaches in progress, with the node (`gen`) they were asked of; `accept` and `leave` are, by strand, the program counters of the writers of the slot with the list they have read; `crossed` is history |

`Reader` is the abstract specification of a loader: one read at a time, and a read
after every change it is told of while open. `Loader` implements it
(`R == INSTANCE Reader WITH open <- active, reading <- (inFlight = "loading")`,
checked as `ImplementsReader`).

The other components are modules composed by one of two:

* `Hosts`: the processes and what they stand on, and what a user of the phone
  decides about the whole app.
* `Screens`: what the screens show of conversations and keep for them.

Both have a variable `subject` that says which part a behaviour is about; the
other parts stay where they begin. That loses nothing, as these parts write
different slots, or run in different processes, and share no variable here; where
two do share state they are composed: the private tables of `LazyStores` are over the
node of `PhoneHost`, a rebuild of which they have to notice. It keeps one run per question
of the system and not one per file. So a run's states are the sum of those of its
parts, and not their product.

Parts of `Hosts`:

| Module | Models | State and actions |
|---|---|---|
| `PhoneHost` | `mobile/host/CadreService.ts`: start, the three settings, rebuilds | `kit` is where the node kit is, `options` what the node runs with, `pendingRelays`, `pendingNoise`, `change` the restart in progress; an action per await |
| `LazyStores` | two stores that open when first used: `private-store.ts`, and the lazy block storage of `mobile-ns` | `appliedOn`, `applying` as in the code, `uses` the operations and what each awaits; `cached` is `openByDbName` for one name |
| `PhoneEvents` | `CadreService.ts`: app state, status and address events | `sweeps` wake the strands one by one, `wakes` are those under way, `addrsShown` what the screens were told |
| `Serchat` | `cli/main.ts`, `host.ts`, `commands/`: the node, the prompt, the way out | `queue`, `running`, `asker`, `closed` are the prompt's; `handlers`, `attached` the node's |
| `Session` | `cli/session.ts` and the end of a run | the rows in memory, those in the profile, an action per command |
| `ProfileLock` | `cli/home.ts`: `lockProfile` | `file`, and where each process is between its calls on it |
| `Relaying` | `cli/relay-address.ts`, the relay commands, and the profile's file over processes | `saved` relays and the command's list; `profileFile` and each process's own copy |
| `Following` | `tail` of one strand, `cli/commands/strands.ts` | `seen`, `reader`, `again` are the code's, `printed` counts how often each message was printed; messages arrive in any order of time |
| `NsHost` | `mobile-ns/src/host.ts` | the option objects in memory, the saved ones, a database that does one call after the other |
| `Batching` | `core/transport` | `waiting`, `tasks`, what each socket carried |
| `Opening` | `mobile` `App.tsx`, `AppNavigator.tsx`, `data-format.ts`, `Profile.tsx` | the marker, the name, the check, the form |
| `AppSettings` | `Settings.tsx`, `RelayOffer.tsx`, `prefs.set` of the model | stored preferences, the copy each call read, relays on their way to the node |
| `Machines` | `CadreManager.tsx`: list, removal, backup | the list's read, the removals asked for, the secret shown |
| `MemberNames` | nicknames: the table, `StrandDetail.tsx`, `NicknameSheet.tsx`, the lists | reads of the screen answer in any order, lists read through a loader |
| `Leaving` | the dialogs of `StrandDetail.tsx`, `leave` and `forget` of the model | what each dialog promised, what the stack stopped and withdrew |
| `Marks` | which write a message's mark is of, `delivery.ts`, and the store that reads them | the writes followed with their clocks |
| `Codes` | `invite-link.ts`, `node-code-text.ts`, `QrScanner.tsx`, the links the system opens, `join` | a text is its form, what it is of, and whether something follows it |

Parts of `Screens`:

| Module | Models | State and actions |
|---|---|---|
| `Invitations` | `createInvitation`, `prepareStrand`, `takePrepared`, listing and forgetting | the slots `preparedStrands` and `outgoingInvitations`, an action per await |
| `Watching` | the strand-list store's watches, `changes.strand` | `base` is the database published, each watch the one it is on |
| `Summaries` | `SummaryCache`, the model's list, `leave` | the slot, and what each list and each leave read of it |
| `Registration` | the member's row: attaches, sends, and the profile's rename | the row of each strand, what is remembered as registered, calls under way |
| `Composer` | the draft: `ChatInterface.tsx`, `drafts` | instances of the screen, calls of the storage in order |
| `Claiming` | `CadreManager.tsx`, `NodeCodeModal.tsx`, `claimNode` | dialogs, the claim, its bound |
| `Searching` | `SearchInterface.tsx`, the model's sweep | the query, the sweeps, what their batches told the screen; a closed strand is counted without a batch |
| `Accepting` | `InvitationAcceptance.tsx`, `acceptInvitation` | a token redeemed once, the preview, the join, the banner's Retry |
| `InviteScreen` | `InvitationGenerator.tsx`, with its panel over `reachability.ts` | what it was opened for and looks up, terms, what was made and is shown, the panel a device shows that nobody reaches |
| `Rows` | the reads of `operations.ts` and `chat.ts`, and the rows of `ChatInterface.tsx` | messages with asserted times, the last read, days, runs, replies |
| `Writing` | `operations.ts`: insert with retries, edit, delete, react | the tables, each call's next statement and how it ended, which writes the other devices have not heard of |
| `Listing` | `strand-list.ts` and `StrandList.tsx` | the start-up, the read, the introduction |
| `Preferences` | settings of a strand, `StrandDetail.tsx` and the row menu | the slot's calls in order, what the switches show |

The modules with theorems are `DeliveryProofs`, `LoaderProofs`, `ChatStoreProofs` and
`StrandRuntimeProofs`, each of the module it is named after; `MemberPartsProofs`, of five parts
of `Screens` (`Registration`, `Accepting`, `Invitations`, `Composer`, `Writing`) by themselves, and
`ScreensProofs`, of the others and the composition; `HostsProofs`, of ten parts of `Hosts` and what the
composition promises of those alone, and `HostPartsProofs`, of the others and the rest.

A definition with a suffix (`record_NoRead`) is a faulty variant. No action
uses one: each shows, put in the place of the definition it is named after, that
the property it is listed with in `PROJECT.json` would fail.

### How the parts are kept small

Control is kept whole: each await, callback, timer or call on a file is a boundary
between actions, every guard, early return and failure is in its action, and what
a handler does before its next await is one action. Data is abstracted to what the
properties tell apart: a text, a name or a code is a number or a model value.

* `Delivery`: texts, kinds, previews, times, the `mayFail` flag and listeners are left
  out. The buffer of early events holds one mark per write instead of a list of closures:
  replaying reports one by one on a fresh write, or the mark they add up to, gives
  the same state. Which write an overflowing buffer drops is left open (the code
  drops the oldest). `inDoubt`, `held`, `stage`, `published` are the stack's. A save not
  waited for is `onDisk`, the set of rows a crash may leave: everything requested since
  the last save known to have landed. What a mark says of several writes of one message
  is the subject of `Marks`, which leaves the queue out.
* `Loader`: what is read is a version number; timers fire at any time after being set.
  A failing read keeps its error out of sight. Modules that read through a loader
  (`MemberNames`, `Machines`, `Listing`, `InviteScreen`) repeat its promise, that reads do
  not overlap and a change told of is followed by one, and not its timers.
* `ChatStore`: a message's content is a number. It begins once a first list was read:
  before that nothing is laid over anything. The order and the looks of rows are in
  `Rows`, the statements behind a call in `Writing`.
* `StrandRuntime`: registering as a member is a phase of an attach, and the subject of
  `Registration`. The refusal of a leave with unsent writes is in `Leaving`, the summaries
  are in `Summaries`. The node offers each stored strand once per start (the comment at
  `strands.ts:74-78`), records a join by itself (`local-state.ts:207`), and tracks a strand
  once `addStrand` has resolved (`strands.ts:39`).
* `Writing`: a statement is one step, which may commit although its call hears of a failure. It
  sees, and is checked against, what its device has heard of: replicas do not check again
  (`docs/data-integrity.md:275,283`). The other devices hear of a call all at once, in any
  order among calls; until then they may refuse it. The attachments' delete, between the two others, is
  left out, as attachments are.
* `Searching`: strands are visited in any order; the batch of one that failed to be read tells, of
  one that is closed none does (`model.ts:774`, `795`).
* `InviteScreen`: it is opened for a new conversation, for one that exists, or with one of that one's
  invitations (`StrandDetail.tsx:258`). Nothing opens it with an invitation alone.
* Storage of the phone (`Composer`, `Preferences`) serves one key's calls in order; a slot
  that is read and written by several callers (`Invitations`, `Summaries`, `AppSettings`) may
  interleave them. `Leaving`, `Machines`, `Accepting` and `Claiming` let the other side answer
  late, or never, and carry out what was given up.
* Times (`Rows`, `Marks`) are small numbers that another device may assert as it likes.
  Only this device's clock may be set back, once (`MaxClock`).

## Runs

Bounds are constants of the modules. The numbers of states are distinct states.

| Run | Instance | States | Shows |
|---|---|---|---|
| `Delivery` | two writes of one strand, one queued and one online, `EarlyEvents` 1, 2 attempts, 2 restarts | 287 000 | the properties of `Delivery` below |
| `Loader` | two subscribers, 3 changes, 1 failing read, polling or not | 12 800 | the refinement of `Reader`, and what it leaves open |
| `ChatStore` | two messages, two edits | 40 700 | no flicker, no refused text, and the strand in the end |
| `StrandRuntime` | one strand founded, one to join, one crash or rebuild, three joins and leaves, which overlap | 5 630 000 | attaches, joins, leaves and offers |
| `Hosts` | each part on an instance of its own, see below | 997 000 | the hosts and the user's decisions |
| `Screens` | each part on an instance of its own, see below | 1 710 000 | what is shown and kept of conversations |
| `DeliveryUnconfirmed`, `DeliveryRefusals`, `ChatStoreGone`, `StrandRuntimeOffers`, `StrandRuntimeLeft`, `StrandRuntimeWriters` | the least instance that shows it | | the disagreements below |

Why these bounds are enough for the cases that matter:

* `Delivery`: two writes with a buffer of one are what it takes for one write's events to
  evict the other's, and for one's save to overwrite the other's row. Two attempts reach a
  retry after doubt. Two restarts reach a crash in the recovery from a crash.
* `Loader`, `ChatStore`: three versions let a change come before, during and after a read.
  With two edits one can fail while the other is shown.
* `StrandRuntime`: one founded and one joined strand take the two paths of `leave` and can
  be attached by every route. Three operations: two that overlap, after or before a third. (The
  violation runs take two.)
* `PhoneHost` with the private tables: two relay lists, two modes, two callers, two changes and
  three nodes: a change during the restart of another, twice. Two operations, each once.
* `Serchat`: three lines, one of each kind at will: one that runs, one that answers or is
  queued, one after a cancelled question. `Session`: three commands over two runs or one,
  two things and one change of a list (`MaxMoves`): a list, a change, a use of its number.
* `ProfileLock`: three processes: one that left the lock and two that take it over.
* `Relaying`: two hosts and two peers make an address known by either of its parts;
  three changes add, replace and remove. Two processes of a profile over four changes.
* `Following`: four messages with a first read of three and later ones of two, so that a
  read can be short of what arrived. The code reads 100, and 50.
* `NsHost`: two screens and the host, three calls, two starts of the app. Its storage: two
  operations and three openings: one closed, one failed, one used. `Batching`: two sockets
  with two sends each, which share the queue of microtasks.
* `Opening`: two openings and two edits, two names. `AppSettings`: two preferences and two
  relays, two calls at once. `Machines`: one other machine, removed, rejoined or given up.
  `MemberNames`: one other member, two names, two reads at once. `Leaving`: two dialogs gone
  through, two messages. `Marks`: one message, three writes, one step of the clock.
  `PhoneEvents`: two strands, two sweeps, two nodes, one address. `Codes`: one invitation
  and one node code in every form, alone or followed by something.
* `Invitations`: two kinds of conversation, two creations at once, two foundings. `Watching`:
  two strands, three databases, so one is replaced twice. `Summaries`: two lists and two
  strands. `Registration`: one strand, one sender beside an attach, two names, two changes.
* `Composer`: two texts, two instances of the screen, two calls waiting. `Claiming`: two codes.
  `Searching`: two strands, three texts, so that an answer can be two texts old. `Accepting`: two
  screens for one invitation. `InviteScreen`: two choices, two conversations.
* `Rows`: three members, three messages over two stretches of time and a midnight, a read of
  two: a run, its break, and a message beyond the limit. `Writing`: two devices, three calls,
  two attempts: a message, and two calls about it of devices that have not heard of each other. `Listing`: two strands. `Preferences`: two settings of two values, two calls waiting.

Counters are capped by the guards that name the constants. `CHECK_DEADLOCK FALSE` stands in
every configuration since all of these systems may stop: writes settle, users leave,
processes end.

The run of `Screens` identifies states that differ only in which of two screens creates which
invitation, or which of two lists read what (`SYMMETRY Alike`). Nothing in the modules chooses among
these or compares them, and the run checks invariants only, so it loses no behaviour.

### Properties

`Delivery`
* `PendingAgrees`: while its strand is up and read, a write is marked as on its way
  exactly while the queue still has it, whatever came in which order.
* `MarksAreTrue`: no mark says more than what happened. `WithdrawalIsSafe`: no
  withdrawal is offered of a write an attempt may have delivered.
* `StaysRemembered`: what reached the disk is marked or listed after any restart, until
  it settles or is let go.
* `NeverRetreats`: a committed mark goes forward only.
* `NeverStuckPending`, `RefusalSurfaces`: pending marks move on, refusals come to be listed.

`Loader`: `ImplementsReader`; `AwakeWhileWatched` (no timer or read is left when nobody watches,
and one is set when somebody does); `PollCoversSilentChanges` (a change nobody told of is
shown in the end, where polling is on).

`ChatStore`: `NeverVanishes` (no flicker, whichever read ends when), `FailedEditIsNotShown`,
`ShowsTheStrand` (in the end).

`StrandRuntime`: `GuardedAttachesAreAlone` (the attaches that consult `attaching` never
overlap on a strand), `JoinsAreKept` and `LeaveLasts` (joins and leaves overlap), `OffersAreFollowed` (of
subscription, offer, drain and rebuild, in any order).

`Hosts`. A property joins what its parts promise of one kind; each is stated in the part's module.
* `SettingsAreInUse`: the phone's node runs with the settings last asked for, no preference or
  relay chosen is lost to another, a relay has one entry, `relay remove` removes the one
  printed, and a profile keeps its party and its configuration.
* `SchemaBeforeUse`: no statement runs on a node whose schema was not applied.
* `NodeIsCurrent`: serchat's node has the profile's relays and every handler, and its predecessor is
  stopped; the NativeScript node runs with the party that was saved; strands of a phone in front
  are awake, or being woken, one at a time.
* `UserIsHeeded`: lines run once, in order, or answer a question; a leave drops what the dialog
  named and no more; the opening refuses only another build's data and asks a name only of who
  has none; a row number names what was printed; a run ends when what it founded is
  started; a text is opened as what it was made as; a mark is of the last write.
* `OneProcess`: one process goes on with a profile.
* `ConnectionIsHeld`: an opening that is cached is one that may be used; a closed or failed one is not kept.
* `StreamIsKept`: what a socket carried, and what waits, is what was sent, in order, and what waits will go.
* `ChangesAreTold`: `tail` prints every message it is told of, once; lists show the names saved
  here; the network screen shows the machines last read and no removal as done that
  was not; screens are told how the device can be reached.
* `PromptEnds`: a closed terminal ends the process, unless a command asks or follows.

`Screens`
* `InvitationsAreKept`: no conversation goes into two invitations, no invitation handed out is
  forgotten but by its user.
* `WatchesFollow`: the watch of a listed strand is on the database published now, and what was committed
  before it is read.
* `LeftIsForgotten`: a strand left is not listed from the cache again.
* `NameIsRegistered`: a strand taken to hold the profile's name does.
* `WordsAreKept`: what was typed and not sent is in the composer or in the draft; of a message
  deleted no reaction stays behind, one given stays with its message, and a send that is tried
  again makes one message.
* `ShownIsSo`: the claim shown is the one under way; a search's answer is of what was typed, adds up, and tells of
  the strands it went through; the rows tell who spoke, when, and in reply to what; the list does not say that
  nobody is there, or that the start-up failed, when it is not so.
* `RetryCanSucceed`: the Retry offered repeats something that can succeed.
* `ScreenIsConsistent`: the invitation screen shows the terms, the invitation and the conversation that go
  together, and its panel what the device last knew; a strand's switches show what is stored,
  and no setting is lost to another.

### What the properties except

A property that fails in a rare case of the code does so at a place a history variable
names; the property then holds elsewhere, and the exception is what a reader should know.
Those with a run of their own are below; the others are these.

| Module | Excepted | The case |
|---|---|---|
| `Invitations` | `raced`, `dropped` | a slot written between another's read and write of it: a conversation that was taken may be prepared again (said not to be at `model.ts:184-186`), an invitation just made is forgotten, one forgotten is listed again |
| `Summaries` | `raced` | a list under way at the end of a leave writes the strand's row back (`local-state.ts:106-107` says the row goes) |
| `StrandRuntime` | `crossed`, `skipped` | a row of the `joinedStrands` slot written while another join or leave was between its read of the slot and its write, which then loses it or puts it back; an offer not followed because of an attach to the node before |
| `Registration` | `ignored`, `refused` | an insert finds the row another registration put there under an earlier name, and counts as done; a row the members refused |
| `Composer` | `lost` | a failed send, or a draft read late, puts its text over newer words; a storage call or a send fails, or an opening screen is left, before the words were kept |
| `Claiming` | `stuck` | `claimNode` throws without a node, where `result.ts:2` promises an answer, and the screen shows its claim until it is left |
| `Searching` | `unsaid` | strands found closed after the last one that was read: `continue` (`model.ts:774`) passes over the `yield` (`model.ts:795`), so the note of what was left out does not count them; when all are closed, a search that ended shows no answer and no note (against `SearchInterface.tsx:7-9` and `model.ts:756`, "reporting what could not be read"). For 300 ms after a key the answer to the text before is shown |
| `Accepting` | `keyLost` | the key is delivered and the slot not written: Retry cannot succeed, where `InvitationAcceptance.tsx:55-56` says it can; Retry is also shown for a token that is spent |
| `InviteScreen` | `reset`, `early`, `switched`, `stale` | a late default resets chosen terms; the invitation the screen was opened for, looked up late, is shown in the place of one just made; the kind is changed while the first invitation is made; an answer of the store from before a failed look takes the panel down |
| `Rows` | | a run that crosses midnight shows no time on its first day; a message sent before the members were read shows as a stranger's; a reply to a message beyond the limit is said to be to one that is gone |
| `Writing` | `stripped`, `unclear`, `apart` | a delete that failed between its statements, or was refused, leaves a message without its reactions; a send may have committed although its call heard of a failure; a reaction given by a device that has not heard of the delete, or not yet known to the one that deletes, outlives its message, as checks run on the writing device alone (`docs/data-integrity.md:275,283`), and so does one put back by a refusal |
| `Listing` | `revived` | a strand opened during the read is not listed until the next (against `strand-list.ts:84-85`); a node that came up after the start was given up |
| `Preferences` | `overwritten`, `overtaken` | two changes at once lose one; a change overlaps with a reading of the screen. `clear` has no caller, so a strand joined again is muted as before |
| `PhoneHost` | `late` | relays changed during a restart are pending until the next one; a send mode changed during any start |
| `LazyStores` | | an operation that awaited the schema on a node that was replaced goes on without, and finds no table |
| `PhoneEvents` | `overlapped`, `missed` | sweeps overlap, where `CadreService.ts:113` says one strand at a time, and go on in the background; a wake that failed, or was joined to one of the node before, leaves a strand asleep; the loss of every address before any update is not told |
| `NsHost` | | a relay change into options another caller replaced, or during a rebuild, is saved and not applied |
| `ProfileLock` | `raced` | two processes take over one stale lock, or a lock is judged while still empty (against `home.ts:117`) |
| `Relaying` | `behind`, `outrun` | a process reads or makes the profile before it takes the lock, runs with an old copy and may save it over what another saved (against `main.ts:135-136`) |
| `Session` | `unseen`, `shifted`, `hurried` | rows are remembered of a list that was not printed; numbers of members, invitations and relays count in today's list (against `commands.md:74`); a founded strand not started within a minute at the end of a run, or a run that was killed |
| `Following` | | a message between the first read and the watch; a read that failed, until the next change; more than 50 messages at once |
| `Opening` | `unmarked`, `overtaken` | data of a first run whose check failed has no marker and is refused the next time (against the comment at `App.tsx:80`); a name typed while a read or an earlier save was under way. `profile.md:23` promises a confirmation before discarding that the code lacks |
| `AppSettings` | `overwritten`, `crossed`, `refused` | two calls at once lose a preference or a relay (against `relay-offer.md:28`); a node that could not be rebuilt with a relay. `Settings.tsx:53,66` calls a `setScheme` the theme does not have (`ThemeProvider.tsx:85-99`) |
| `Machines` | `unheard`, `reopened` | another machine's change is not told; a list that timed out shows this device alone; a secret asked for as the dialog was closed opens it again |
| `MemberNames` | | an older read answers last and is shown; names that cannot be read show as none, of which nobody is told |
| `Leaving` | `late`, `guessed`, `halted`, `overlapped` | a message saved while the user is asked is dropped with those named; they could not be counted; a message came while the strand was stopped, so a leave given up leaves it stopped; a leave beside a forget writes the record from a list read before |
| `Marks` | | the clock set back makes an earlier write the last; discard takes the first waiting write and not the last (against `model/messages.ts:118`); once the last write is let go the mark falls back to an earlier one |
| `Codes` | | a node code in the form of a query, opened by the system, reaches the invitation screen; a token followed by parameters is read with them by the scanner and `join`; a bare code followed by words is damaged |

### Fairness

* `Delivery`: the reading of the slot, saves, the recording of a write that returned,
  refreshes, and the publication of a strand that was not left (the host starts its
  node, and the boot attaches every strand). Nothing is assumed of the members'
  answers, of timers or of the user.
* `Loader`: timers that are set fire; `load()` settles one way or the other; its
  `.finally` runs. Nobody has to subscribe.
* `ChatStore`: reads begin (the poll); calls return. Strong fairness of a read's
  return says that a conversation on screen is open and readable again and again,
  and not that any one read succeeds: a strand that never opens shows nothing new.
* `Hosts`: for serchat, a node's start ends one way or the other, its boot and its commands
  go on (but for what they ask the user, or follow), and the way out waits for a bounded
  time (`main.ts` races each wait with a timer). Nothing is assumed of the user, of the terminal,
  or of any other part.
* `StrandRuntime` and `Screens` state safety only.

### Where the code and what is said of it differ

Each has a run whose counterexample is short to read; details in `PROJECT.json`.

1. `DeliveryUnconfirmed`: a refusal dismissed just before the process dies comes back as
   `unconfirmed`, documented as "committed", since the queue has been told to forget
   its outcome while the save was only requested.
2. `DeliveryRefusals`: a refusal that was saved is lost ("Refusals stay listed until the
   user dismisses them") when another write is recorded before the slot was read and the
   process dies again. `StaysRemembered` and `RefusalSurfaces` except such rows
   (`dropped`); without a crash in that window memory still has them.
3. `ChatStoreGone`: a message refused, withdrawn or deleted before any read included it
   stays on screen while the conversation is open.
4. `StrandRuntimeOffers`: an offer made by a rebuilt node is skipped because of an attach
   to the old node, and not followed later. `OffersAreFollowed` excepts these (`skipped`).
5. `StrandRuntimeLeft`: a join this device did not come to remember is left as a founded
   strand, and offered again at the next start. `LeaveLasts` excepts these.
6. `StrandRuntimeWriters`: two operations on the `joinedStrands` slot at once lose a
   membership key (`RememberedIsKept`). The passing run lets them overlap too; `JoinsAreKept` and
   `LeaveLasts` except the rows written in such an overlap (`crossed`), and no others.

Without a run: a search whose last strands are closed ends without saying that it is partial
(`Searching` in the table above).

## Proofs

The theorems listed in `PROJECT.json` hold for every value of the constants. `tlapm` checks them,
with the lemmas they rest on, to the last leaf; each module's assumption on its constants is
evaluated by TLC in a run. Most inductive invariants were checked by TLC on the run's instance
before they were proved. What each adds to the property, and why it is needed:

* `DeliveryProofs`, from `ConstantsAssumption` alone, for any writes, strands, buffer size, attempts and
  restarts.
  * `TypeCorrect`, `RowsStayKept`, `RememberedThroughRestarts`. `StaysRemembered` is not inductive: it says
    nothing before the slot has been read, nothing of the disk, and it would be broken by a `record` of a
    write already promised, which starts it over as `saving`, a state that is not saved. `RowsAreKept` adds
    what is needed, in four parts: `DiskKeeps` (every state of the slot that a crash may leave holds all
    promised rows, so `Crash` loses none), `TextKeeps` (until `load`, what it will read together with what
    memory would save covers the promise and the last save requested), `MemoryKeeps` (after `load`, memory
    holds it under a state that `persist` saves) and `KnownIsRecorded` (whatever is in memory or on the disk
    was recorded before, and a write is recorded once). There is a lemma for each effect the actions share
    (`PersistKeeps`, `UpdateKeeps`, `ApplyKeeps`, `LoadKeeps`, ...). That a stack event never moves a waiting
    mark back to `saving` (`Onward`) is what makes updates safe; it rests on the rank order of `setState`.
  * `MarksStayTold`, and from it `MarksTellTheTruth`, `OfferedWithdrawalIsSafe`, `PendingAgreesWithQueue` and
    `CommittedMarksStay`. `MarksInv` follows a report on every way it takes to a mark: what the buffer of early
    events holds of a write is as true as a mark (`EarlyTold`), the rows listed as refused in memory, on the
    disk and in the text being read are of writes that were refused (`RefusedFailed`), and while a strand is
    published and not read since, a read of it is under way (`PublishedIsRead`), which is what puts a mark
    right that a crash left behind (`Settled`).
* `LoaderProofs`: `LoaderTypes`, `AwakeExactlyWhileWatched`, `SignalsStayPending`, for any subscribers, changes
  and failures. `LoaderInv` says that a signal no read has begun after leaves the debounce timer set or
  `again`, and that `again` is set only while a read is in flight, so the end of that read sees it.
  `LoaderKeepsReader` is the safety part of the refinement: `Reader`'s specification is `Steps /\ Followed`, and
  the loader's implies `R!Steps`. `Followed`, the liveness half of `ImplementsReader`, is model-checked.
* `ChatStoreProofs`: `ChatTypes`, `MessagesNeverVanish`, `FailedEditsAreNotShown`, for any messages and texts. The
  rows, the read in flight and the list shown are one strand at three times. `ChatInv` relates them: what a
  later one lacks has left the strand (`Lacks`), each text in any of them is of an edit that was stored
  (`TextsStored`), and a send that returned is kept until a list has it (`SendsAgree`).
* `StrandRuntimeProofs`: `RuntimeTypes`, `GuardedAttachesStayAlone`, `EveryOfferIsFollowed`, `JoinsStayKept` and
  `LeavesLast`, for any strands, restarts, attaches, joins and leaves at once, from `RuntimeAssumption` alone.
  `OffersInv` says that what runs, and what is being attached on this node, was tried on it, and that after
  the drain so was what was offered. `JoinsInv` says that the list an operation has read still agrees with the
  slot when it writes it back, on every strand but the `crossed` ones (`ListsAreCurrent`): a write by another
  operation in between makes its own row crossed and changes no other. `WrittenIsWithdrawn` says that
  a leave about to write the slot has taken the strand it found there, or founded, out of the control store.
* `MemberPartsProofs`:
  * `InvitationsKeptAlone`, for any kinds, creators and foundings. `InvitingInv` says that a conversation is in
    one place at a time (`InOnePlace`): prepared, with the job that prepares it, with the creator that took
    or founded it, or handed out; that each job and creator knows the conversation it holds; and that one
    forgotten was handed out, with nobody left to put it back on the list (`ForgottenIsOver`).
  * `NameRegisteredAlone`, for any strands, senders and renames. `RowsAgree` says that the name noted for a
    strand is its row's at any time, and not only when it is the profile's; `Sound` that a task which saw
    a row, or is about to insert a message, still finds one, unless the members refused it.
  * `ComposerKeepsAlone`, for any texts, screens and storage calls. `DraftIsSaved` says that what a screen shows
    is what the last of the saves to come stores (`ReadsBack`), or counts as lost: so leaving the screen
    leaves the words in the queue of the storage. What an opening screen reads is reached through the same
    function; `BackAppend` and `BackTail` say how it changes as calls are queued and served.
  * `WritesWholeAlone`, for any devices, calls and attempts. `RowsAreOfSends` says that a message there is from the
    last attempt of a send that is over; `AboutWhatWasSent` that the other calls are about such messages; and
    `ErasedAreDeletes` that a message is away by a delete that was not refused: so nothing but a refused
    delete puts back what was deleted. `GivenStay` accounts for each reaction given: it is there, or its
    message is not, or a delete is between its statements, failed there or was refused. No assumption is
    made of what the devices have heard of, or of which statements commit.
  * `RetrySucceedsAlone`, for any screens. `UnderWayIsBusy` keeps a screen whose accept is under way from
    beginning another and from having failed; `AskersHaveNot` says that who still asks has not redeemed.
* `HostsProofs`:
  * `SchemaIsApplied`, for any users and whatever the host does with its node. `StoreInv` adds that the node
    recorded as applied has the schema, and that whoever waits awaits the one application in flight: it
    is this that makes its end safe for all of them.
  * `OneProcessPerProfile`, for any processes. `LockInv` says that, while no takeover removed the file of a
    process creating it, a process that writes or holds owns the file there is (`FileIsOwn`); that the
    old file a process is about to remove was read from one that died (`SeenIsGone`), so the removal hits
    no living one; and that a file's creator has begun.
  * `ConnectionHeld`, for any operations and openings. `StorageInv` adds that only openings that began are
    being closed, so that a late close does not touch one made since.
  * `StreamKept`, for any sockets, chunks and sends. `BatchInv` adds that nothing waits at a closed socket;
    the rest is that a flush puts what waited before what follows (`FlushOrder`) and that the queue of
    microtasks keeps the others' (`TailSchedules`).
  * `SettingsStayInUse`, from its three parts. `SettingsInUseAlone`, of the phone's node, for any settings, callers
    and numbers of changes and nodes: `Settled` says of each phase of the host (stopped, starting, rebuilding, running)
    which settings are those asked for, unless one changed during a rebuild; the pending ones carry numbers
    (`Numbered`), so one asked for after another was taken is not cleared with it. `ChoicesKeptAlone`: the
    relays set last, applied yet or not, are those wanted, at every time and not only at rest.
    `RelaysNamedAlone`: `ConfigInv` says where each process stands to the file it read (`FileFollows`), and
    `CommandInv` that the rows printed last are those saved; `WithoutKeeps` is what a removal leaves.
* `HostPartsProofs`, which also takes from `HostsProofs` three parts of `UserStaysHeeded` and most types:
  * `NodeStaysCurrent`. `PromptHoldsAlone`, of serchat, for any number of lines: `NodeInv` says which build can be
    under way while which command runs (a relay command comes after the boot, and waits for the build
    it asked for). `PartySavedAlone`, of the NativeScript node: the database answers in order and reads come before
    writes, so the write it does last is of the options in use, and while a read is left, a party
    that is saved is everyone's already. `EventsHoldAlone`: a strand that hibernates in front has a sweep of the
    node that runs still to reach it, or was missed (`SweptInFront`), and a wake under way has its sweep waiting
    at the strand (`WakesAreAwaited`).
  * `ChangesStayTold`. `FollowingHoldsAlone`: a message that was not printed is in the page of the pass under way, or a
    change is still to be reported, or another pass comes (`ArrivedAreRead`). `MachinesHoldAlone` and `NamesHoldAlone`
    say the same of what a read under way found as of what is shown; of several reads of names,
    the last one asked for.
  * `UserStaysHeeded`, from six parts. `LinesInv` takes the lines typed apart in those that ran, the one that
    runs and those that wait. `OpeningInv` says what data without a marker is of, and that nothing goes on before
    the check. `LeavingInv` says what a user who is asked was told, which leave has the strand stopped, and that without
    an overlap one leave is under way. `SessionInv`: the rows kept, in memory and in the profile, are those printed last,
    but for a listing between its write and its print. `MarksInv`: writes are followed in the order
    they were made, by clocks that do not fall unless one was set back. `CodesHoldAlone` goes through
    the forms of a text.
  * `HostsWellTyped`: the types of all parts, which are also the bounds of their counts.
* `ScreensProofs`:
  * `WatchesAlwaysFollow`, for any strands. `WatchingInv` says that events to come tell what is so
    (`EventsTell`), that a watch whose strand has no event to come is on its database (`Attached`), that a
    watch which missed something is detached or on an old database, and that the watches are those of
    the list while somebody listens (`ListIsWatched`).
  * `LeftStaysForgotten`, for any strands and lists at once. The promise is about the cache; `SummariesInv`
    carries it to every copy of it on its way: what each list and each leave read holds no row of a strand
    that is gone for good, and such a strand is not open.
  * `InvitationsStayKept`, `NameStaysRegistered`, `RedeemedIsNotRetried` and `WordsStayKept`: from the theorems of
    `MemberPartsProofs`, the last one from two of them.
  * `ScreensStayConsistent`. `ScreenInv`, of the screen that invites: every invitation made, and the one under way,
    leads into the conversation the screen was opened for, or founded first (`AllLeadHere`); only the first invitation founds, and of the kind
    shown. `PanelInv`, of its panel. `SettingsInv`: of the calls that wait, the last change of each setting,
    a save before a read, carries the value asked for last (`Saying`).
  * `ShownStaysSo`. `ClaimInv`: one way in to a claim is open at a time, and none while one is under way
    (`OneWayIn`). `SearchInv`: the search that runs is the one sweep not abandoned, and counts every strand once: left,
    being read, found or skipped, and told of or not yet (`Told`). `HomeInv`: what a value read is good for at rest, and that another
    read comes where it is not. `RowsInv`: a read that was not cut off lists everything said by then and still
    there, or sent here since, and replies are to what was said by then. Which of the messages
    shown together carries the name, and which the time, is found by the least counterexample.
  * `ScreensWellTyped`: the types of all parts. A sweep, for one, counts what it went through and skips no more than
    that (`Bounded`); conversations made stay within the bound, and so what is noted and asked for does.

The theorems of `HostsProofs`, `HostPartsProofs` and `ScreensProofs` are about the compositions' own `Spec`, and
state the runs' own properties. Each invariant is first proved of the part alone (`SchemaAppliedAlone`, `WatchesFollowAlone`, ...);
then a lemma for each part (`StoreIsPart`, `WatchingIsPart`, ...) shows that every behaviour of the
composition is one of the part: each step is a step of the part or leaves its variables alone. (In
`ScreensProofs` the later parts do both at once: `ClaimStays`, `RowsStay`, ...) For the
private store this takes one fact of the phone's host, that its node is a number (`NodeIsNumbered`). The
parts of `MemberPartsProofs` are taken from there by `M == INSTANCE MemberPartsProofs WITH ...`, with the
parameters of the instances of `Screens`.

Only model-checked:

* everything about liveness, which is beyond the proof system: `NeverStuckPending`, `RefusalSurfaces`,
  `PollCoversSilentChanges`, `ShowsTheStrand`, `PromptEnds`, and the liveness half of `ImplementsReader`.

So every invariant and every safety property of the passing runs is proved for every value of the constants that
their assumptions allow. The proof system has no induction over data, so a function on sequences is reasoned about
in other ways: a function that takes each value from the one before (in `Marks` and `Rows`) exists, and has the
values it should, as otherwise there were a least place where that fails (`FunctionExists`, `CountingUp`,
`KeepsExists`); the others of `Rows` and `Following` are told by the elements they give.

## Plan

Done: `Delivery`, `Loader` and `Reader`, `ChatStore`, `StrandRuntime`; the hosts, the private store, batching
and the NativeScript storage; invitations, watches, summaries, registration; the screens and
the command line as far as listed above; proofs of all safety properties of the four components with a run
of their own, and of the two compositions.

Next:

1. Compositions that would add behaviour: `Accepting` with `StrandRuntime` (a join and the boot of the
   next start), `Marks` over `Delivery`.
2. Left parts worth a model: attachments (a draft's files, uploads and their failure after the
   message was stored), and the conversation's media list.

## Not modelled

* The encodings of invitation links and node codes below their forms, SQL statements, the protocol's
  schema and calls into cadre-core. The stack itself (cadre-core, Optimystic, libp2p) is not in
  this repository: it is modelled from how the code uses it, and the map marks it external.
* Attachments and media (`insertAttachments`, the media screen, storage use). Two things seen there
  without a model: a pending attachment is never consumed (`attachmentDraft.ts`), and a list is limited
  to 100 where the command line offers `--before` and `--limit`.
* The read cursor: one load, and one save by a send. It compares message ids, which are random, by
  order (`ChatInterface.tsx:165`), so the divider's place says little.
* How an address is judged reachable (`isPublicAddress`), which is a classification of text.
* In `PhoneHost`, a start asked for by a caller during a change's restart; in `Serchat`, the development
  bridge and lines of several commands; in `Invitations`, inviting into an existing conversation.
* The mock model, test fixtures and the model's types; diagnostics; what commands print; layout,
  navigation stacks, themes and translations; NativeScript polyfills; the web site and design documents.
