# Verification of matrix-nctalk

TLA+ models of the bridge between Matrix and Nextcloud Talk in `src/`, checked
with TLC on small instances. What they say about safety is also proved with TLAPS,
for every value of the constants, except for the conversion of messages. Paths below are relative to `src/`; `connector/` stands for
`pkg/connector/`, `nctalk/` for `pkg/nctalk/`.

## The system

Talk pushes one signed HTTP request per event and server to the bridge; the
bridge hands it to the one login that owns the conversation, and from there to
the event loop of a bridgev2 portal (one per conversation, serial). Matrix
events arrive on that same loop and become OCS and WebDAV requests made as the
user. Nothing a webhook worker does is persisted; what survives a restart is
bridgev2's database: portals, message rows with their `MessageMetadata`, logins.

```
 Talk ──webhook──▶ handleWebhook ─▶ queue ─▶ workers ─▶ Resolve ─▶ login's client
        (copies,     replay cache    (1024)    (8)       router         │
         any order)                                                     ▼
 Matrix ◀──────────── portal event loop (bridgev2, serial) ◀── QueueRemoteEvent
    └────────▶ HandleMatrix… ──OCS/WebDAV──▶ Talk ──webhook (echo)──▶ …
```

| Part | Source | State it keeps | Operations | What makes it correct |
|---|---|---|---|---|
| Webhook receiver, queue, workers | `connector/webhook.go`, `nctalk/webhook.go` | queue, worker goroutines | `handleWebhook`, `processEvents` | what Talk signed is acknowledged; an admitted event is worked on once or lost where the log says so; a copy is refused; a queue drains |
| Replay cache | `connector/nonce.go` | two generations of randoms, time of the last rotation | `Accept` | a random is not admitted twice within the window; memory is bounded |
| Login router | `connector/router.go` | owner and known non-participants per conversation | `Resolve`, `Invalidate`, `Warm` | same owner in every interleaving; beliefs were true; a participant is found |
| Message changes and echoes | `connector/changes.go`, `modify.go`, `client.go` | `EditEchoID`, `EditEchoTS` of a row | creation, edit, deletion from both sides | Matrix ends as Talk does; own edits neither undone nor echoed |
| Reactions | `connector/reactions.go`, `webhook.go:406-465`, `nctalk/reactions.go` | rows of bridgev2 | sync of the whole list; add and remove from Matrix | the last sync shows what Talk has; own reactions are not doubled |
| Egress | `connector/client.go:505-643`, `modify.go`, `nctalk/chat.go`, `bot.go` | reference ID of a row | send with one retry, relay, read receipt | a message is posted once; a marker never moves back |
| Media | `connector/media.go`, `nctalk/files.go` | files on the server | free-name search, upload, share, lookup | a file is shared once and never overwrites another |
| Backfill | `connector/backfill.go`, `nctalk/history.go` | bridgev2's cursors | forward and backward batches of pages | batches tile the history: nothing skipped but by a catch-up without an anchor, everything in order |
| Periodic resync | `connector/sync.go` | one loop per client | start, stop, pass | missed messages are caught up; one loop of a client at a time |
| Bot enabling | `connector/botsetup.go` | portal metadata, in-memory marks | from a pass, from a portal | what the user moderates is bridged; one attempt per client, its outcome kept by the portal; never in one-to-one rooms |
| Login flow | `connector/login.go`, `nctalk/login.go` | server, flow token, cancel function | URL, Login Flow v2, password | every wait ends; what was cancelled stores nothing; poll only at the server's own origin |
| Client lifecycle | `connector/client.go:60-290`, `connector.go` | bridge state, client | `Connect`, `Disconnect`, `LogoutRemote` | one loop per client; the newest login's password is used and kept |
| Credential storage | `connector/credentials.go` | stored form of a password | seal, open, reseal | a sealed login survives the loss of its key; one in the clear is sealed |
| Identifiers, configuration | `connector/ids.go`, `config.go`, `serverguard.go`, `dbmeta.go` | none | codecs, choice of a secret | codecs invert; one host selects one secret |
| Message conversion | `connector/msgconv_*.go`, `mentions.go` | none | texts, captions, mentions and relations, both ways | nothing typed is lost; exactly those mentioned are notified; answers point where they were meant to |
| API client, command line | `nctalk/client.go`, `types.go`, `cmd/` | none | HTTP, JSON, flags | plumbing, not modelled |

What is hard here: copies and reorderings of webhooks; eight workers with no
order between them; requests to Nextcloud made between two locked sections;
answers that are lost after the server has acted; every change made by the
bridge coming back as if a Talk user had made it; restarts that forget the
queue, the replay cache and the router but not the rows. `PROJECT.json` lists
each of these under `hazards`, at its line.

## Modules

| Module | Models | Role |
|---|---|---|
| `ReplayGuard` | what `nonceCache` promises (`nonce.go:32-43`) | abstract specification |
| `NonceCache` | `nonceCache.Accept` | detailed; implements `ReplayGuard` |
| `WebhookIngress` | `handleWebhook`, queue, `processEvents`, restart | extends `NonceCache`, composing it with handlers, queue and workers |
| `WebhookIngressProofs` | | theorems about `NonceCache`, alone and as part of `WebhookIngress` |
| `LoginRouter` | `router.go`, its callers | one conversation on one server |
| `LoginRouterProofs` | | theorems about `LoginRouter` |
| `MessageChanges` | `changes.go`, `modify.go`, `queueMessage`, echo handling | one message, workers, portal loop |
| `MessageChangesProofs` | | theorems about `MessageChanges` |
| `Backfill` | `backfill.go`, `history.go`, the part of `sync.go` that triggers it | one conversation: batches, pages, live webhooks, rows without a Talk ID, outages |
| `BackfillProofs` | | theorems about `Backfill` |
| `Reactions` | `reactions.go`, `syncReactions`, `nctalk/reactions.go` | the reactions on one message |
| `ReactionsProofs` | | theorems about `Reactions` |
| `Egress` | `HandleMatrixMessage`, `sendToTalk`, `relayMatrixMessage`, `handleMatrixMedia`, `files.go` | messages and files one user writes in several rooms |
| `EgressProofs` | | theorems about `Egress` |
| `Sessions` | `Connect`, `Disconnect`, `sync.go`, `botsetup.go`, restarts | one login, its clients and their loops, its conversations, their portals |
| `SessionsProofs` | | theorems about `Sessions` |
| `Credentials` | `credentials.go`, `LoadUserLogin`, the states and saves of `Connect`, `LogoutRemote` | what is stored of one account, and what runs use of it |
| `Login` | `login.go`, `nctalk/login.go` | composes `Credentials` (by INSTANCE) with login processes and the user in the browser |
| `LoginProofs` | | theorems about `Login` and the `Credentials` inside it |
| `Conversion` | `msgconv_*.go`, `mentions.go`, the IDs of `ids.go` | one message from Talk, one event to Talk |
| `MC` followed by one of these names | | constants for TLC |

### ReplayGuard and NonceCache

`current`, `previous` and `rotatedAt` are the fields of `nonceCache`; `now` is
its clock in coarse ticks. `Accept(r)` is `Remember(r)` (returns true) or
`Refuse(r)` (returns false), both with the rotation at the top of the Go method:
by age or by size, `current` becomes `previous`. The first call only starts the
clock (`StartedAt`). `Retention` and `MaxSize` are `nonceRetention` and
`maxNonces`. History variables `admittedAt` and `admittedSince` carry, per
random, when it was last admitted and how many others were admitted since.

`ReplayGuard` knows only those: a random may be admitted when it is not
`Protected`, that is, when at least `Retention` has passed or at least `MaxSize`
others have been admitted since. So the window the code really gives is the
shorter of a retention period and a generation of other requests.

### WebhookIngress

A request is named by its random, so that `Requests` is the `Randoms` of the cache,
and `kind` says what is in it: `Arrivals` gives
the mixes to check. Handlers run side by side: headers
(`RefuseOnHeaders`), cache (`RefuseReplay`, `Admit`), then the body
(`LoseBody`, or `FinishRequest` with verification, parsing, answer and the
non-blocking send). `Take` and `FinishWork` are a worker; what the worker does
in between is the subject of the next modules. `Restart` empties cache,
queue and goroutines, and the histories start over with the run.

### LoginRouter

`primary` and `absent` are the entries of `router.primary` and
`router.notParticipant` for one conversation. `Resolve` is five kinds of steps,
one per locked section or request: `Lookup`, `Skip`, `Ask`, then `Found`,
`NotFound` or `Failed`, which write the answer, however old it is by then.
`Invalidate` is `handleBotJoin`/`handleBotLeave`, which run after `Resolve` in
the same worker. `Warm` is `List` (the request) and `WarmUp` (the locked part).
`Join`, `Leave`, `Load` and `Unload` are the world; `upheavals` bounds and counts
them. `router.InvalidateLogin` has no caller in the program and so is no action; a
login that was logged out (`gone`) stays owner where it was one. Taken from
bridgev2: a login that is removed leaves the cache and keeps its client.

### MessageChanges

One text message. `changes[n]` is what the n-th change did, n standing both for
the ID of its system message and for the text it left. A worker takes a webhook
(`Take`), reads the changed message back through the chat API (`Read`: the
message as it stands *by then*, which is what `handleMessageChange` gets), and
queues the result (`Queue`). The portal's loop handles remote events
(`BridgeCreate`, `BridgeEdit` with `isEditEcho`, `BridgeRemove`) and Matrix
events (`MatrixSend`, `MatrixEdit` with `recordEditEcho`, `MatrixDelete`), each
of which changes Talk and sends a webhook. With `Lossy`, an answer may be lost
after Talk acted, and reading a change may fail.

Taken from bridgev2, which is not part of the repository: the portal loop is
serial and runs the handlers of both sides; a message whose row exists is not
bridged again; the row is dropped after a successful removal. Double puppeting
is on (`README.md:191` says what is lost without). Requests that Talk rejects
(too old, empty, too long, a 4xx) change nothing and are not modelled; captions
of files are not bridged by the code.

### Backfill

One conversation whose messages are numbered as they are posted, each in a second
(`at`), which it may share with the one before it; a message is a
`chat` message, `noise` that the API gives and the bridge drops (system messages,
deleted ones, bots), or `hidden`, which only moves the cursor. `room` is the messages
from Talk in the order of the room, which have a row with their Talk ID; `nameless`
are messages from Matrix whose row has none, because they were relayed
(`client.go:613`) or are files whose message was not found (`media.go:311-315`).

A batch is a record of what the Go functions keep in locals: direction, the row it
starts from, cursor, what was collected, pages read. `Resync` is the pass of `sync.go`
that makes the portal ask for a forward batch, when the last activity, to the second,
is later than the newest row. `AnchorID` is `anchorMessageID`: `ForwardBatch` reads on
from the ID of the newest row, or, if it has none, the newest messages backwards as
`fetchForward` does for a new portal. `FetchBackward` is the backfill queue;
`BackwardStart` is its cursor, or the ID of the oldest row, or the newest message if
that row has none. `ReadPage` is one request of
`pageForwards` or `pageBackwards`, with the limits of `GetHistory` and the end
that a missing `X-Chat-Last-Given` means; `PageFails` keeps what earlier pages
brought. Sets of messages become lists by rank (`Ascending`, `Among`), without
recursion. `Deliver` hands the batch over with its `HasMore` and cursor. `GoDown`
loses the webhooks under way, `Live` is `queueMessage`.

The histories `outrun` and `passed` name the two ways in which a message is left out:
a newer one got its row first, or a catch-up that had no ID to start from read the
newest `Count` messages only (`PassedOver`).

Taken from bridgev2: a forward batch runs in the portal's loop, one batch at a
time per room; it cuts a batch off at the row the batch starts from; it looks for
messages that have a row only where `AggressiveDeduplication` asks it to, which
`fetchForward` alone does (`backfill.go:101`); the backwards queue begins when the
portal has a row; the cursor and whether the queue is done are kept; a backwards batch
of which the cut-off leaves nothing is an error, before or after its cursor is kept.
Rows have Talk's time of their message, except that a relayed one has that of its
Matrix event; the two clocks are taken to agree, and rows of one second to be in
Talk's order. `MaxIdle` bounds how many unbridgeable
messages come in a row; see the disagreements for what happens without it.

### Reactions

`talk` is what Talk holds, `rows` what bridgev2 has recorded, `shown` what the
room shows; a reaction is a user and an emoji, byte for byte. A Like or Undo is a
mere signal (`webhooks` only counts them): a worker takes one, reads the whole
list (`Read`) and queues it (`Queue`, which drops what is not `Ghostable`).
`Apply` is bridgev2's reaction sync with the `HasAllReactions` and `HasAllUsers`
that `syncReactions` sends. `MatrixReact` and `MatrixRemove` are the two handlers
of `reactions.go` with their requests; the 404 that counts as success is
`Removes`. With `Lossy`, webhooks, lists and answers get lost and requests fail.
Lists are numbered as they are read, for the properties only.

### Egress

Each event is a text, a reply, a file, or one of these by somebody without an
account; `at` is how far its handler has come, one step per request. `Send` and
`Resend` are `sendToTalk` with its one retry, `Relay` is `relayMatrixMessage`,
and `Prepare`, `Probe`, `Upload`, `Share`, `LookUp` are `handleMatrixMedia`
down to `EnsureFolder`, `FreeFilePath`, `UploadFile`, `ShareFileToConversation`
and `FindMessageByReference`. Every request may fail, be refused, or be carried
out with its answer lost. All files want the same name, so `name` is simply the
number of the candidate. Rooms go side by side, as do the user's other clients
(`OtherStores`) and other writers (`OtherPosts`). `Echo` is the webhook of a
message as the portal sees it: shown unless a row has its ID.

### Sessions

One login and the clients that stand for it in a run: logging in again makes a new
`NCTalkClient` (`LogInAgain`; `connector.go:146`), whose `syncCancel` and
`botEnableTried` are empty, and stops nothing of the old one. `Connect`, `Rejected` and
`Warmed` are the Go method with its wait for Nextcloud, of one client; the last
one is `startPeriodicSync`, which cancels the loop that
the client's `stopper` (`syncCancel`) names and starts another. `Disconnect`, of the
client in use, may come at any
time. A loop is a record of whose it is and where its goroutine is; when it is
cancelled, its
requests fail and its pass ends at the next conversation, but a request that
reached Talk has been carried out. A pass looks conversations up one by one
(`Consider`): one with a room gets a resync. Another gets one attempt per client to
enable the bot: `Mark` is the locked section that looks at `tried` and marks, with
anything between it and the lookup; `Find` and `Enable` are the requests. A portal's events
are one at a time: `Read` is `GetChatInfo` with the beginning of
`ensureBotEnabled`, `FindForPortal` and `EnableForPortal` are its requests,
`Settle` sets the outcome in the metadata, and `MakeRoom` is bridgev2's, later: until
then the conversation has no room to a pass, and a crash may lose the outcome.
`Join` is `handleBotJoin`, `Message` a first message.
`Crash` keeps what the database and Talk have; the new process may find another
configuration and an unreadable credential.

Taken from bridgev2: one `Connect` of a client runs at a time; only the client in use is
disconnected; a portal whose information cannot be read gets no room; the metadata is
saved with the room or before it, and making the room does not fail.
Taken from Talk: enabling a bot that is on changes nothing and announces nothing.

### Credentials and Login

`row` is the `AppPassword` of the stored login, sealed under a key or in the
clear, `meta` the copy in memory that `Save` writes, `client` the password the
client uses, `Unreadable` when `decryptCredential` failed. `Connect`, `Verify` and
`Finish` are the Go method with its request in the middle: what a Connect
started with is fixed when it asks, and by the time it finishes a new login may
have replaced metadata and client (`reencryptCredential` then meets a row that is
sealed already). `NewLogin` is `newLoginMetadata` with bridgev2's `NewLogin`,
`Logout` is `LogoutRemote` with what follows it, `Restart` may bring any key or
none. Encryption is abstracted to: a sealed row is read with its key only.

`Login` runs processes on top of that: `SubmitServer`, then either
`SubmitCredentials` or `Wait`, where `PollApproved`, `PollFailed` and `GiveUp` are
the ways out and `ContextEnds` is the timeout or `Cancel`. `finish` is `Verify`,
`StoreLogin` and `ConnectLogin`, each of which may meet the ended context. The
checks of the server's URL and of the handshake's origin decide whether a process
goes on and are not spelled out. Approving, revoking and making passwords by hand
are the user's steps in Nextcloud.

Taken from bridgev2: a process that returned an error is not continued; a login
stored under an ID that is known replaces metadata and client of the one there;
a `NewLogin` that fails stores nothing; once a login is deleted, a `Connect` under
way changes nothing any more. That no key is configured happens only where the
environment replaces the generated one by nothing (`config.go:127-131`), and is one
of the choices.

### Conversion

A text is a sequence of words in which braces, separators, quotes and blanks are
words of their own; an ID is one, too, since a user ID may contain the separator.
A Talk message is given as the pieces somebody typed, and `TextOf` is all that the
conversion sees of them; the properties compare what it makes with the pieces.
`RenderTalkMessage` and `SegmentTalkMessage` are the two walks over the text,
`FormatPlain` and `RenderMarkdownWithPills` the two formatted bodies,
`TextEvents` and `FileEvents` what `convertMessage` sends. The other way,
`RenderOutgoingText`, `TalkPill` and `TalkTargetID` build the call `ConvertToTalk`
makes. `mentionTokenPrefix` may return any prefix that is not in the text.

`Repeat` sends what was shown back, which composes the two directions. The shared
markdown renderer and HTML parser, and Talk's own reading of `@"..."`, are
external: of the first two only the words and pills they pass on are modelled, so
escaping and markdown's own markup are left out, and lengths count words.

## Runs

All states and times are for two TLC workers on a small machine.

| Run | Checks | Bounds | Shows |
|---|---|---|---|
| `MCNonceCache` | `MemoryBounded`, `RememberedLongEnough`, `ImplementsReplayGuard` | five randoms, generations of two, retention 2, horizon past three retentions; 9,061 states | rotation by age, by size, by both at once and an idle gap all occur; the refinement holds |
| `MCWebhookIngress` | `TypeOK`, `NeitherLostNorDoubled`, `IntactIsAcknowledged`, `ReplaysAreRefused`, `QueuedIsProcessed` | three requests in three mixes (two events and one the bridge cannot parse; an event among requests refused before or after the replay cache), any number of copies, two handlers, two workers, queue of one, generation of two, one restart; 232,484 states | the queue overflows, copies overlap with the first, the cache rotates under way; the answers Talk gets; drainage |
| `MCLoginRouter` | `BeliefsWereTrue`, `LowestOwnsOnceWarmed`, `OwnershipMovesDown`, `ParticipantIsFound` | two logins, two resolving workers, any failures, one join, leave, login or logout; 242,228 states | two logins suffice: every rule compares one login with the owner; two workers give old answers |
| `MCMessageChanges` | `DrainedIsConsistent`, `OwnEditNeverUndone`, `EchoIsNotBridged` | four changes, two workers, any order, losses, servers that name the edit and servers that do not; 102,934 states | creation, an edit from each side and a further change or deletion, in every interleaving |
| `MCBackfill` | `HolesWereOutrun`, `RoomIsOrdered`, `BackwardsReachesTheStart`, `NewestIsReached` | two old histories, three posts, one of them in the second of the one before and one whose row has no Talk ID, pages of one, batches of two, two pages a batch, one outage; 291,040 states | batches end by count, by pages, by failure and at the start; pages without a message to bridge; a newest and an oldest row without an ID; live messages and outages between pages. `passed` gets members, so the exception is met |
| `MCReactions` | `NewestListWins`, `ShownAsRecorded`, `EchoLeavesOwnAlone` | a user on both sides, one in Talk only, an actor the bridge does not show, two emoji, two workers, three changes, all losses; 337,827 states | two emoji and two users tell an incomplete list of a user from one that lacks users; with four changes (10.3 million states) it passes as well |
| `MCEgress` | `PostedAsReported`, `ShownOnce`, `OldFilesSurvive` | two rooms, a file in each, a third event that may be a reply, a relayed message or a relayed file, two candidates for a name, lookback of one, another client's file, another writer; 1,324,710 states | two rooms race for one name and for the other client's; the lookup misses when others write first |
| `MCSessions` | `LoopsEnd`, `TriedOnce`, `OutcomeIsFinal`, `WantedIsBridged` | one group, two Connects, the second of the same client or of a new login's, any Disconnects, any failures, one thing done by people, one restart; 573,696 states | a loop that was cancelled works on beside its successor, and one of a replaced client beside the new one's; a Disconnect overtakes a Connect; a pass looks a conversation up before its portal has a room and acts after; attempts are cut short. One conversation is enough: none looks at another |
| `MCLogin` | `NewestLoginIsKept`, `ConnectedIsSealed`, `CancelIsObeyed`, `SealedIsKept`, `WaitEnds` | one process at a time by either flow, the Connect of the loaded login beside it, two app passwords, two keys or none, two restarts; 103,684 states | a Connect finishes after the login it began for was replaced; a key is lost and comes back; the context ends at every stage. Two restarts are what it takes to lose a key and find it again; a third password would only be another one that was replaced |
| `MCConversion` | `NothingDisappears`, `OnlyTypedMentionsPing`, `PillsLandWhereTyped`, `MentionComesBack`, `RelationIsRight` | messages of up to three of nine pieces, five maps of rich objects, plain, markdown and system; events with any two of eleven pills or any pair of six targets; 26,496 states | stray, unclosed and adjacent braces, unknown keys, names and texts that look like tokens, IDs with quotes and separators; three pieces put something before, between and after |
| `ChangesTwoWorkers` | violation of `WorkersKeepOrder` | three changes | see below |
| `BackfillMissed` | violation of `MissedIsRecovered` | one outage | see below |

The runs of `MessageChanges`, `Backfill`, `Reactions`, `Egress` and `Sessions` turn
deadlock checking off: with the bounds used up and everything worked off, they
stop. So does that of `Conversion`, where an exchange ends with its answer.

Type invariants have no runs, except for that of `WebhookIngress`: they are proved,
as is `GenerationsDisjoint`. That of `Conversion` is only stated.

**Fairness.** `WebhookIngress`: handlers and workers are goroutines that wait for
nothing but their input (reads are bounded by the server's timeouts, events by
`eventTimeout`), so each takes its next step in the end; requests, time and
restarts may never come. `LoginRouter`: workers run on, messages keep coming
(the claim is about a busy conversation), and asking does not fail for ever
(strong fairness on an answer); bot changes, `Warm` and membership are free.
`Backfill`: webhooks are worked off, a batch that was read is delivered, and the
process comes up again (weak fairness); the periodic pass asks again and again
and pages do not fail for ever (strong fairness on `Resync` and on pages, as a
live message or an outage can get in between). Posts and outages are free.
`Sessions`: loops, workers and portals are goroutines and tickers tick (weak
fairness), and listing the conversations does not fail for ever for the client in
use (strong fairness), whatever the loops of older clients do; logins, Connects, people,
Talk and restarts are free. Its liveness property
excuses conversations where an attempt failed or was cut short in this run
(`spoiled`), because the code does not try again, and asks for a loop of the client in
use that lives.
`Login`: the timeout passes, `Wait` notices that its context has ended, what
follows it goes on, and requests made under a context are answered or fail (weak
fairness); nobody need approve, cancel or log in, and no poll need fail.
`Reactions`, `Egress` and `Conversion` are checked for safety only.

**Conditional properties.** `LowestOwnsOnceWarmed` and `OwnershipMovesDown` are
about calm times: no membership change and no failed request. Otherwise they are
false of the code and meant to be: a login with a higher ID takes a conversation
whose lowest participant could not be asked. In calm times, once the lowest
participant that can be used has warmed up, it is the owner. `DrainedIsConsistent` is about
webhooks queued in Talk's order without a failed read; the run itself also has
the other behaviours, for which the three remaining properties hold. Where a
server does not name the system message of an edit, it also needs changes to be in
seconds of their own; the others do not.

## Disagreements with comments and docs

Shown by a run:

- `ChangesTwoWorkers`: "Ordering does not depend on this: events carry the Talk
  message ID as their stream order" (`webhook.go:47-48`). Edits and removals
  carry none; two workers can leave Matrix with an older text, or with a message
  that Talk has deleted.
- `BackfillMissed`: "a bridge that has been down catches up on what it missed"
  (`README.md:129`). If a live message is bridged after an outage before the
  resync has asked, the anchor is behind what was missed, for good.

Seen while modelling, not made a run:

- One-to-one conversations "are never enabled automatically" (`README.md:135`).
  `autoEnableBot` looks at the type, `ensureBotEnabled` does not: when people turn
  the bot on in a one-to-one conversation and off again before its portal has
  read its information, the portal turns it on. (`Private` in `Sessions` is for that;
  the run has none.)
- An answer that was on its way during `Invalidate` is written afterwards and
  stays, against "so the next event re-probes" (`router.go:162-163`).
- A list of reactions that was read before a reaction was made in Matrix and is
  applied after it redacts it, and the reaction's own webhook re-sends it as
  another event, against "instead of being redacted and re-sent"
  (`webhook.go:441-443`). The comment at `:415-418` knows that lists can be applied
  out of order; `NewestListWins` is what it promises of that, and
  `EchoLeavesOwnAlone` what holds of the rest.
- An attempt to enable the bot that a reconnect cuts short, or that fails for the
  moment, is not made again before a restart or a new login, as `tried` was marked
  before it;
  "bridged within one interval" (`README.md:133`) then fails.
- A `Disconnect` that comes while `Connect` waits for Nextcloud stops no loop, and
  the loop starts afterwards, against "lives until the login disconnects"
  (`sync.go:73-74`); `overtaken` in `Sessions` marks that case.
- A new login of a known account leaves the old client's loop running beside its own
  (`login.go:272-288`, `connector.go:146`), against "the previous loop stops"
  (`sync.go:58-59`) and "lives until the login disconnects" (`sync.go:73-74`), and tries
  every conversation again, against "once per bridge run" (`botsetup.go:73`).
  `LoopsEnd` and `TriedOnce` are therefore about each client.
- A pass that looked a conversation up before its room was made may mark it and ask
  Talk after the portal's outcome is kept, as nothing is locked in between
  (`sync.go:139-152`, `botsetup.go:86-95`). `OutcomeIsFinal` is about what begins after
  the room is there.
- `BotEnableFailed` is also set when the user is no moderator yet or a request
  fails, and for good, against "attempted and rejected" (`dbmeta.go:46`).
- A crash after Talk has enabled the bot and before its announcement is handled
  leaves the bot on and no room until somebody writes; later passes find the bot
  on, and Talk announces nothing.
- An idle replay cache refuses a random for as long as it stays idle, as rotation
  happens inside `Accept` only, against "between one and two retention periods"
  (`nonce.go:42`). Harmless.
- When a message is deleted from Matrix while the webhook of its creation is still
  under way, that webhook bridges it anew and the echo of the deletion removes it
  again; the comment at `modify.go:139-140` says the echo finds no target.
- When a whole batch (`Count` messages) has nothing to bridge, the next catch-up
  asks for the same batch, for ever: the anchor is the newest *bridged* message, if any
  (`backfill.go:229-246`). With `MaxIdle = Count` TLC shows `NewestIsReached`
  violated.
- A catch-up whose newest row has no Talk ID (a relayed message, a file that was not
  found) reads the newest `Count` messages; what lies between that row and them is left
  out for good. `anchorMessageID` says that this "leans on bridgev2 to discard what it
  already has" (`backfill.go:232-234`), which it does, but not that it may lack some.
  `passed` in `Backfill` is these messages.
- A resync compares times of whole seconds (`sync.go:174`): a message that was lost in
  the second of the newest row is not asked for until something is posted in a later
  one. `CaughtUp` is exact to the second.
- Only forward batches have bridgev2 look for rows (`backfill.go:101`). Where the oldest
  row has no Talk ID, the backwards queue starts at the newest message, and bridgev2's
  cut-off at that row is all that keeps it from sending what is there already; a live
  message older than that row, bridged while a batch with it is being read, may be sent
  twice. It is one of `outrun`.
- A file can be overwritten by another room or client that takes the name between
  the probe and the upload (`media.go:237` says only what is in use *before*);
  `OldFilesSurvive` is about files that were there when the message's turn came.
- A retry that fails reports the first error (`client.go:577-588`), so a 401 it met
  does not mark the login; nor does one met by `EnsureFolder`, `FreeFilePath` or
  `UploadFile`, which `sendFileToTalk` wraps otherwise.
- A list of reactions for a message without a row is dropped; the reactions
  appear with the next change (`lost` and `lastApplied` in `Reactions`).
- A read receipt can move Talk's marker back behind what was read in Talk
  (`modify.go:147-166`).
- A login once answered 404 is skipped until the bot is added or removed; nothing
  invalidates when a user joins (`router.go:99`, against `:162-163`).
- Events are cached under the hostname as the backend header spells it and
  invalidated under the login's spelling (`webhook.go:470`, `:488`); the two may
  differ, as logins are matched ignoring case (`router.go:136`).
- After a logout the router keeps the removed login as owner until the bot is added
  or removed or the bridge restarts, against "a newly added or removed account is
  picked up without a restart" (`router.go:172-173`): nothing calls `InvalidateLogin`.
- `Warm` displaces an owner with a higher ID (`router.go:207-213`) although the
  comment says not to.
- A login whose credential did not decrypt is still asked for conversations, and
  logged out, with an empty password (`router.go:109`, `client.go:223-243`), against
  "makes no requests to Nextcloud with a credential it could not read"
  (`README.md:180`). Such a logout also leaves the app password live, against
  `client.go:220-222`.
- A `Connect` that finishes after a new login of the account has replaced its
  client still reports its own outcome, so the bridge state may say that the
  credentials are bad while the new ones are not. It saves nothing older:
  `NewestLoginIsKept`.
- A login whose context ends after it was stored is kept, though its `Connect`
  failed under that context (`login.go:275-288`); it works after a reconnect.
  `CancelIsObeyed` is about contexts that end before the password was verified.
- The server's URL is kept when a later check rejects it (`login.go:145`); harmless
  as long as a process that returned an error is not continued.
- A brace that somebody typed takes the mention after it: in `{ {mention-user1}`
  the key is everything up to the `}`, which no rich object has, so the raw text is
  shown and nobody is notified. `HasStrayBrace` marks those messages; nothing is
  lost of them.
- The pill of somebody who is logged in to the bridge is their Matrix user, which
  `talkMention` does not know (`mentions.go`), so repeated in Matrix it reaches Talk as
  a name, not as a mention.
- `sanitiseFileName` cuts the stem to 200 minus the length of the extension
  (`nctalk/files.go:281`); of a name longer than that; with a long
  extension and a stem shorter than 168 bytes that is beyond the stem's end.
- Where the echo is told by its time, a Talk edit in the same second is dropped
  (`changes.go:193`); `SlowTyping` gives each change its own second. The theorems
  about own edits hold with any number of changes per second.
- When the answer to a send is lost, the webhook shows the message a second time
  (`dbmeta.go:59-60`), against "recognises it as already
  bridged instead of echoing it into the room a second time" (`client.go:508-511`). The
  event that was sent has no row then, and
  `MessageChanges` follows the one that the webhook made.

## What is proved

`WebhookIngressProofs` proves of the replay cache alone (`CacheSpec`), for any set of
randoms, any retention and any maximum size (assuming `GuardAssumption` of
`ReplayGuard` and `CacheAssumption` of `NonceCache`: the set of randoms is finite, the
sizes are positive):

- `CacheTypeCorrect`: `CacheSpec => []CacheTypeOK`
- `BoundedMemory`: neither generation exceeds `MaxSize`
- `DisjointGenerations`: no random is in both
- `ProtectedIsRemembered`: a random within its window is in a generation
- `CacheImplementsGuard`: `NonceCache` implements `ReplayGuard`

`RememberedLongEnough` alone is not inductive, since a rotation drops `previous`
without looking at the histories. The inductive invariant `CacheInv` (theorem
`CacheInvariant`) adds what a rotation relies on, `PreviousIsOlder`: whatever sits in
`previous` was admitted before `rotatedAt`, and as many randoms have been admitted
since as `current` holds, so when `current` is old or full, everything in `previous`
is out of its window. The refinement maps every variable to itself; a step of `Accept`
is a step of the guard because an unseen random is, by `RememberedLongEnough`,
unprotected.

Of the whole receiver it proves, for any finite set of requests, any mixes, handlers,
workers, restarts, and sizes of queue and cache (assuming `IngressAssumption` as well):

- `TypeCorrect`: `Spec => []TypeOK`, which includes the capacity of the queue
- `EventsAreNeitherLostNorDoubled`: `Spec => []NeitherLostNorDoubled`
- `IntactRequestsAreAcknowledged`: `Spec => []IntactIsAcknowledged`
- `ReplaysNeverPass`: `Spec => ReplaysAreRefused`
- `CacheKeepsItsPromises`: `Spec => [](MemoryBounded /\ RememberedLongEnough)`
- `ReceiverImplementsGuard`: every step of the receiver is one of `ReplayGuard`, a
  restart, or none of its business

`Tracked` says where an event may be that was let through once: at most one of a
handler, the queue, a worker and the ends it can come to. One that was never let
through is nowhere, which the step that lets it through relies on.
`KnownWereAdmitted` ties the cache to that: what a copy is refused for was let
through in this run, hence (`AdmittedAreAcknowledged`) acknowledged, unless its body
was cut off or is being read. The invariant of the cache is carried along by the
lemmas about the cache alone; only the restart is new to it.

`ReactionsProofs` proves, for any users, emoji, workers, number of changes and
any losses (assuming only `ReactionsAssumption`: who reacts from Matrix is shown
by the bridge, and the bounds are numbers):

- `TypeCorrect`: `Spec => []TypeOK`
- `NewestListCorrects`: `Spec => []NewestListWins`
- `RoomMatchesRows`: `Spec => []ShownAsRecorded`
- `OwnEventsSurviveEchoes`: `Spec => EchoLeavesOwnAlone`

The inductive invariant (theorem `ReactionsInvariant`) follows the lists that are
on their way. `NewestListWins` speaks of rest only, so it says nothing of the
steps before: `NewestIsCurrent` adds that, unless a webhook is under way, a worker
is asking or the signal is lost, the list read last is what Talk holds, wherever
that list is (with a worker, in the queue, or applied), and `FreshListsHold` and
`OwnStands` that a reaction made in Matrix which still stands is in Talk and in
every list read since.

`LoginRouterProofs` proves, for any login IDs and workers, and for any number of
upheavals (assuming `RouterAssumption`: login IDs are comparable, as they are in
Go, where they are compared as strings; the module takes numbers):

- `TypeCorrect`: `Spec => []TypeOK`
- `BeliefsAreFounded`: `Spec => []BeliefsWereTrue`
- `WarmedLowestOwns`: `Spec => []LowestOwnsOnceWarmed`
- `OwnershipOnlyMovesDown`: `Spec => OwnershipMovesDown`

An answer is written whenever its request returns, so the tables alone say too
little: `AnswersWereTrue` says of answers on workers' stacks and in the lists of
`Warm` what the first theorem says of the tables. In calm times more is needed:
`CalmStacks` (whoever a worker has passed over is no participant, so an answer is
about the lowest candidate left), `CalmLists` and `CalmTables` (nothing on its way
or written has become untrue). That a set of IDs has a lowest (`LowestIsLeast`)
comes from the well-foundedness of `<` on the numbers.

`LoginProofs` proves, for any keys, number of passwords and restarts, and login
processes (assuming `LoginAssumption` and the `CredentialsAssumption` of
`Credentials`: the markers for nothing, for no key and for a wrong password are none
of the real values, and the bounds are numbers):

- `TypeCorrect`: `Spec => []TypeOK`
- `NewestLoginWins`, `ConnectSeals`, `CancelledStoresNothing`: `Spec => []P` for
  `NewestLoginIsKept`, `ConnectedIsSealed`, `CancelIsObeyed`
- `SealedRowIsKept`: `Spec => SealedIsKept`

A `Connect` saves the copy in memory when it finishes, by when a new login may have
replaced what it began with. `SealedIsInMemory` says that the copy of a sealed row is
that row, so that saving it loses nothing; `UnsealedIsInUse` that while a row is in
the clear, every Connect under way uses the password of that row, as any new login
would have sealed it. `CancelIsObeyed` needs `VerifiedIsPassword` beside it: what
`finish` stores was verified first.

`SessionsProofs` proves, for any conversations and any number of clients, Connects,
interventions and restarts (assuming `SessionsAssumption`):

- `TypeCorrect`: `Spec => []TypeOK`
- `LoopsEndWithTheirSession`: `Spec => []LoopsEnd`
- `PassesTryOnce`: `Spec => []TriedOnce`
- `OutcomesAreFinal`: `Spec => OutcomeIsFinal`

The invariant of the loops is `OnlyStopperLives`: of each client, the only loop that has
not been cancelled is the one its `syncCancel` names, and there is one only if that
client is wanted or its Disconnect overtook the Connect. It needs `StopperIsOwn` (no
client's `syncCancel` names another's loop, so a Connect of one leaves the others
alone) and `ConnectIsWanted` for the Connect that is going to start a loop. Of
conversations it adds `TriedWereAsked` (the marks of a client's `botEnableTried` are
exactly its attempts, so a loop that was cancelled and its successor never both try,
however long ago either looked the conversation up) and `OutcomesAreKept` (a portal
whose outcome is set is not enabling the bot).

`EgressProofs` proves, for any rooms, events, names and bounds (assuming
`EgressAssumption`: the bridge's own files and messages are told from those of others;
at least one candidate for a name):

- `TypeCorrect`: `Spec => []TypeOK`
- `MessagesArePostedAsReported`: `Spec => []PostedAsReported`
- `MessagesAreShownOnce`: `Spec => []ShownOnce`
- `NoOldFileIsLost`: `Spec => []OldFilesSurvive`

`PostedAsReported` says what is in Talk when a handler has ended; `PostedOnce` says it
of every stage: nothing is posted before the last request is made, and only a
refusal, never a lost answer, is followed by a retry. For `ShownOnce`, `RowIsOwn` (a row has the ID of its own message,
never of another with the same text or reference) and `SentHasRow` (what is sent has
such a row, or one of the named exceptions applies) cover the echo before it comes,
and `RelayedIsNotHeard` that the bot's own messages have none. For files,
`ProbedWasFree` is what makes the upload harmless: while it is under way, whatever
sits under its name was not there when the message's turn came. That rests on
`BegunWereStored` and `StoredByUpload`, as what was stored then does not come back by
another upload.

`MessageChangesProofs` proves, for any number of changes and workers, any losses and
any clock (assuming `ChangesAssumption`: time does not go back, and no change is at
second 0, which stands for none):

- `TypeCorrect`: `Spec => []TypeOK`
- `OwnEditsStand`: `Spec => []OwnEditNeverUndone`
- `OwnEditsAreNotRepeated`: `Spec => []EchoIsNotBridged`
- `MatrixEndsAsTalk`: `Spec => []DrainedIsConsistent`, if a server that does not name
  edits sees no two changes in the same second (`ToldApart`)

`WebhooksInv` follows what is on its way: each webhook is in one place, and what was
read for it is not older than its change. `OwnIsKnown` is what protects an edit made
in Matrix: as long as Talk has the message, the row knows the last of them that Talk
confirmed, by its ID or its second, and everything up to it is dropped. Ties do not matter for that,
as dropping too much keeps the edit; they do matter for `MatrixEndsAsTalk`, which is
why that one theorem has a hypothesis, and why it is about webhooks in order.
`InStep` says then how far the portal is: the first d changes are worked off, the
next ones queued, the others still on their way; and where d is the newest change,
Matrix has what Talk has, because (`EchoIsNewest`) an echo that is dropped as the
newest change is the one whose text is shown.

`BackfillProofs` proves, for any histories, numbers of posts and outages, and any sizes
of batches and pages (assuming `BackfillAssumption`: sizes are positive, and the
bounds are numbers):

- `TypeCorrect`: `Spec => []TypeOK`; a forward batch is never larger than was asked for
- `NoBatchLeavesHoles`: `Spec => []HolesWereOutrun`
- `OrderIsKept`: `Spec => []RoomIsOrdered`
- `StartIsReached`: `Spec => []BackwardsReachesTheStart`

None of these is inductive, because a delivery is as good as what the batch holds by
then, and a batch stops after any page. The inductive invariant (theorem
`BackfillInvariant`) says how far each kind of batch is complete at every page:
`ForwardInv` that a catch-up with an anchor holds everything between the newest row
and its cursor, while the room waits for it; `NewestInv` and `DescendingInv` that a
batch without one has no gaps wherever it began, and that the row it starts from is
still the newest; `BackwardInv` that from its cursor up to the row it
started from nothing is missing but what it holds or what is `Accounted` for, that a
message older than that row which got its own row meanwhile was outrun, and that the
batch ends of itself
only at message 1. `CursorInv` says the same of the cursor bridgev2 keeps between two
batches, which is what the next one begins with, up to the newest row. What a catch-up
without an ID leaves out is exactly what it `PassedOver`, because of `NewestInv`: its
lowest message has everything newer beside it.

The lists that pages bring rest on lemmas about ranks: `RanksAreTaken` (a set of n
numbers has a member of every rank up to n, by a least counterexample in place of
induction), so `Ascending` lists a set once and in order (`AscendingLists`), and what a
page keeps of it stays in order (`AmongKeepsOrder`); `PageForward` and `PageBackward`
say what one request adds and where it leaves the cursor.

What is model-checked only:

- liveness, which is beyond this prover: `QueuedIsProcessed`, `ParticipantIsFound`,
  `WaitEnds`, `WantedIsBridged`, `NewestIsReached`
- everything about `Conversion`, whose recursive functions over texts would need
  induction over data

## Plan

Order by what matters next; each module is written to be proved about (no
RECURSIVE operators, named assumptions, one action per handler).

Done, with their proofs: replay cache, webhook ingress, login router, message
changes, reactions, egress with media, sessions with the resync loop and bot
enabling, login with the storage of credentials, backfill with catch-up. Done, with
TLC only: message conversion with the IDs of users and messages.

1. Read markers, and what a failed request tells the user and the bridge state, in
   `Egress`; the reactions and read state of a backfill batch in `Backfill`.
2. In `LoginRouter`: a login that comes back after a logout, and the two spellings
   of a hostname; the choice of the secret by host.

## Not modelled

Escaping, markdown's own markup and the shared HTML parser; HTTP and JSON plumbing;
the command line and bot installation; the checks of a server's address
(`serverguard.go`) and the choice of a secret; ghost profiles, avatars and
membership sync; read receipts and the state an error of a request leaves;
encryption on the Matrix side; bridgev2 itself beyond the assumptions named above.
