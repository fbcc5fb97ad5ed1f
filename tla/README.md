# ChatSC: TLA+ models, checks and proofs

ChatSC is a chat system with two halves that share one idea, "process the text
in a kernel driver":

* a **web half**: a NestJS backend (`backend/`) over MongoDB with HTTP and
  Socket.IO interfaces, and a React client (`frontend/`);
* a **C half**: a chat relay server and a terminal client (`app/server`,
  `app/client`), a processor daemon (`app/processor`) and a Linux character
  device (`driver/`) that substitutes, un-substitutes and hashes payloads. The
  backend uses the daemon for message encryption and password hashing.

This directory models the parts of both halves that keep state and run
concurrently. Paths below are relative to the repository.

## 1. Inventory

| Component | State it keeps | Operations | What is hard | What makes it correct |
|---|---|---|---|---|
| Conversations, membership (`chat.service.ts`, `chat.controller.ts`, `participant-access.util.ts`) | `conversations`, `conversationparticipants`, `membershipevents` | create, add, remove, leave/delete | check and write are separate awaits, no transaction, no unique index; a stale restoration by `_id` | only managers remove; history and rows agree; an exit from a group is final; one active row per member; one direct conversation per pair |
| Messages, unread, seen (`chat.service.ts`, `chat.gateway.ts`) | `messages`, counters and `lastRead` in the participant rows, `lastMessageAt` | send (restoring members, attaching a file), bot reply in the background, mark read | four to eight awaits per handler, sends and reads of several members at once | only members send; seen only if read; counters agree with what was read |
| Attachments (`chat-attachment.service.ts`) | `chatattachments` (draft, uploaded, attached) | presign, confirm, attach, download | stale documents saved over newer ones, double attach | a message carries its sender's own confirmed file, which members can download |
| Login sessions (`auth.service.ts`, guards) | `refreshsessions`, issued JWTs | issue, refresh, logout, authenticate | documents read before a logout and saved after it; expiry edges | logout is effective and final; nobody is signed out early |
| Accounts (`auth.service.ts`, `user.schema.ts`) | `users`, `authattempts` | local sign-up and login, Google upsert, audit records | check and insert are separate awaits; only the unique indexes stop two sign-ups for one e-mail, user name or Google id | one account per address; every attempt has one outcome on record |
| Remote processing (`chat-encryption.service.ts`, `auth-processing.service.ts`, `processor_server.c`, `device_client.c`, `chat_driver_main.c`) | one promise per call, one thread per connection, one global response in the driver | exchange; write and read of the device | unlocked read, timeouts racing late answers, lost answers | one answer per call, and it is that call's own |
| Relay server (`server.c`, `server_protocol.c`) | online table, account file, one session per thread | register, login, select peer, chat, logout | second and failed logins, descriptor reuse, full table, SIGPIPE | one session per name, authenticated means reachable, entries leave with their connection |
| Socket gateway (`chat.gateway.ts`, `socket-*.util.ts`) | rooms, `joinedConversationIds` | join, leave, deliver, typing | rooms outlive membership; two delivery paths | members get each message, others get none |
| AI services (`modules/ai`, `frontend/.../ai.service.ts`) | key index, the page's suggestions and their cache | generate with rotation, chatbot, moderation, suggestions | index shared by concurrent requests; answers that come after the user moved on | every key is tried before giving up; suggestions show where they belong |
| Browser session (`http.ts`, `auth.store.ts`) | token, shared refresh promise, signed-in state | interceptor, refresh, hydrate, logout | refresh in flight at logout, many 401 at once | one refresh, one retry, signed out stays signed out |
| Browser chat client: thread (`chat-socket.service.ts`, `chat.page.tsx`) | socket, joined room, thread | connect, join, page, send with ack, merge deliveries, leave | duplicates, ack timeouts, reconnects, pages that overtake events | each message once, in order, without gaps; the composer is given back |
| Browser chat client: list (`chat.page.tsx`) | conversations with order and unread badges | load, apply previews, messages and reads, delete | loads built from several reads and overtaken by events; conversations that come back | the list is the server's |
| Browser chat client: composer (`chat.page.tsx`, `chat-composer.tsx`, `chat-attachment.service.ts`) | text, draft attachment, uploads in flight | choose, remove, send | calls that overlap, conversations switched, own messages from elsewhere | a message carries the file that was sent with it; no stuck or lost draft |
| Browser chat client: typing, searches (`chat.page.tsx`) | indicators and timers; results, spinners | receive, expire; debounce, cancel, answer | timers of earlier signals, answers out of order | indicators end, and not early; results answer the field |
| Texts and digests (`chat-encryption.service.ts`, `substitution.c`, `sha1_digest.c`) | fields of 512 bytes, a block buffer | encode, substitute, decode; pad | limits in bytes, characters of several bytes; edges of blocks | what is shown is what was sent; the padding is SHA-1's |
| Terminal client (`client.c`, `remote_processing_client.c`) | pending ack, selected peer, two threads | register, login, select, chat, quit | deliveries between request and ack, wake-ups, broken connections | each ack matches its request; no wait for ever; one login per connection |
| Wire protocol, audit records, UI, bootstrap, configuration | - | - | - | no behaviour of their own to check |

How they interact: the controller and the gateway call `ChatService` and
`ChatAttachmentService`, which share the collections; every request first goes
through `authenticateAccessToken`; `sendMessage` waits for the remote processing
of its text between its check and its write; the gateway starts the chatbot's
reply after a send has completed; the browser keeps a session alive with
`/auth/refresh`; relay and backend share only the daemon and the driver.
`PROJECT.json` lists the components with their status, and the hazards with the
line where each bites and the properties that watch it.

## 2. Modules

| Module | Models | Extends |
|---|---|---|
| `ChatStore` | the five chat collections, handlers in flight, clock, failures | |
| `Conversations` | membership operations and access checks | `ChatStore` |
| `Messages` | sending, bot replies, marking read | `Conversations` |
| `Attachments` | presign, confirm, download check | `Messages` |
| `ChatService` | the backend: all requests composed over one store; its properties | `Attachments` |
| `SessionStore` | abstract: sessions that are live, lapsed or revoked, and the requests let in | |
| `SessionTimes` | how long login sessions and access tokens live | |
| `RefreshSessions` | login sessions and access tokens; implements `SessionStore` | `SessionTimes` |
| `Accounts` | sign-up, sign-in, Google sign-in, audit records | `SessionStore` |
| `WebAuth` | one browser's session handling, composed with accounts and the session store | `Accounts` |
| `ChatGateway` | rooms, delivery and pages as one browser sees them | |
| `ChatClient` | the chat page and its socket service against the gateway | `ChatGateway` |
| `ConversationList` | the list of the chat page, its badges and order, and the handlers that feed it | |
| `TypingPresence` | typing signals, their relay, the indicator and its timer | |
| `Composer` | draft attachments, uploads and the messages that carry them | |
| `Searches` | the page's searches of users and messages | |
| `AiServices` | model calls over the shared key, and the page's suggestions | |
| `RelayServer` | the C relay | |
| `TerminalClient` | the terminal client's threads and its connection to the relay | |
| `Processing` | backend call, daemon thread and driver, composed | |
| `StoredText` | a text's way through the fixed-size field, the substitution, the store and back | |
| `Sha1Blocks` | buffering and padding of the driver's SHA-1 | |
| `MC...` | the instances of the runs; `MCNative`, `MCChatPage` and `MCWebAuth` put components that share no state into one run (section 3) | a module they check |
| `ChatServiceProofs`, `WebAuthProofs`, `ChatClientProofs`, `ConversationListProofs` | theorems and proofs | the module they are about |
| `NativeProofs`, `ChatPageProofs`, `RefreshSessionsProofs` | theorems and proofs of the components `MCNative` and `MCChatPage` put together, and of the sessions in `MCWebAuth` | those three |
| `SortingProofs` | facts about sorted orders and least numbers that the page's proofs need | |

### Grain of atomicity

*Backend.* Node.js runs a handler without interruption between two awaits, and a
MongoDB call is atomic on each document. A step is therefore one awaited call
together with the synchronous code around it; `call[p]` holds a handler's program
counter and the values it keeps across awaits. Steps whose only effect is on the
handler's own data stay separate from the write that follows, because another
handler may come in between. `insertMany` and the parallel updates of the
restoration are one step per document.

*Browser.* An event handler, a promise continuation or a React state update runs
to its end. A call over the network is sent, served and answered in separate
steps where its answer can be overtaken (`WebAuth`: every call; `ChatClient`:
`send_message` and pages of messages; `AiServices`: suggestions; `Composer`:
`send_message`; `Searches`; `ConversationList`: the list, which is moreover read in
three steps on the server). Room, read and typing calls of `ChatClient`, and the
routes for attachments in `Composer`, are served and acknowledged in one step.

*C programs.* A step is a critical section or a system call others can notice.
The driver's unlocked copy is split into header and payload; a payload copied
while a writer is active may be torn or blank. What a thread of the terminal client
does under `ack_lock` is one step; the loops of `StoredText`
take one byte at a time, those of `Sha1Blocks` what fits into a block.

### Correspondence

* A collection is a sequence; a document's `_id` is its index. Documents are
  never deleted by this code.
* `save()` of a mongoose document writes the modified paths only. `flag`
  (attachments) and `dirty` (sessions) record whether the assignment changed the
  path of the document as it was read.
* `findOne` and `updateOne` pick any of the matching documents.
* `joined` stands for `joinedAt` as the number of messages stored then.
* `Fail` is a rejected call or a restart at any await of the chat backend; what
  was written stays. A rejected member of the restoration's `Promise.all` also
  ends the handler; the model drops that handler's other updates, the code may
  still apply them.
* `findDirectConversation` reads rows, then the conversations of the shared ids;
  since a conversation exists before its rows and never changes its type, the
  two reads are one step (`FindShared`). Candidates are then read one by one.
  `restoreDirectParticipantsIfNeeded` merges its read of the immutable type with
  its read of the rows for the same reason.
* `POST /conversations/:id/read` checks the membership twice, the socket event
  once; the model has the second check only, the one whose row is used.
* The chatbot's reply runs in the slot of its send although the send has already
  been answered; it checks nothing, as in the code.
* Content, titles, file names, passwords and JWT signatures are abstract: a
  text is present or addresses the bot, a password is right or wrong, a token is
  the session and expiry it carries.
* In the relay a descriptor is the lowest free number, so it is reused at once.
  `Killed` is the death by SIGPIPE of the process and its restart.
* In `Processing` call `j`'s right result is written `j`; a zeroed response is
  `Cleared`, and its status is `STATUS_OK`, as in the code. A promise settles once
  because JavaScript makes it so (`Settle`'s guard); no property is about that.
* `WebAuth` uses the abstract `SessionStore` as its server: the refinement shows
  that the concurrent handlers of `RefreshSessions` behave like it. An access
  token is its index; tokens expire in the order they were issued.
* `startGoogleLogin`'s own audit record is never written: the guard redirects
  before the handler runs. Passwords keep the processor's limit: the digest sees
  the first 63 bytes, so two passwords may share one.
* `ChatGateway` sees the members' collection as the set of conversations in
  which this user is active. What others do is `Others`; the participants' list
  is read and the events emitted in one step (`Publish`), after the message was
  stored in another.
* `getMessages` sorts by `sentAt` only: messages of one millisecond at a page's
  edge may be cut anywhere (`Pages` is a set of answers). Messages within one page
  keep the order they were stored in. The page sorts its thread by `sentAt` with a
  stable sort (`Chronological`), as `Array.prototype.sort` does.
* An acknowledgement of `send_message` that comes after its call timed out is not
  awaited any more; `LateAck` takes it from the socket and ignores it.
* An answer of `getMessages` is taken when the request is served and arrives any
  time later, in any order. `handleSend`'s upload of a file is in `Composer`, the
  routes it calls are in `Attachments`.
* `ConversationList` has direct conversations of one user and one peer; `sentAt` is
  the number of the message. A send is three steps (message, `lastMessageAt`,
  counters) followed by the preview's two reads and the events; the socket's room
  follows the selection at once (`ChatClient` has how).
* In `TypingPresence` a tick stands for any fraction of the four seconds; `skew` is
  the difference of the clocks, constant during a behaviour.
* In `Composer` a file is the number of the choice that made it the draft, and a
  message keeps, as a ghost, the file that was the draft when it was sent. The
  gateway's check, the message and the file saved (`Store`) and the events
  (`Publish`) are separate steps; the user may be removed or added back between any
  two (`Member`). A copy reaches the page through the conversation's room, if it is
  the selected one, and through the user's own room, if the user is still a
  participant when the previews are built, as in `ChatGateway`.
  `handleSocketError`, which unlocks the composer for an error of any call, is
  `SocketError`.
* In `Searches` results are known by the search they answer. An effect of React runs
  together with the change that triggers it.
* In `TerminalClient` names and texts are abstract; the names a prompt asks for one
  after the other are one input. `runtime->running` is read without the lock in the
  heads of the loops, as in the code.
* In `StoredText` a byte is its code point and its place in the code point's UTF-8
  form, so a cut within a character is visible. Each of the two calls of the driver
  may bring its own answer, another call's, or the zeroed response (`ForeignAnswers`,
  disagreement 3 below): `StoreForeign`, `ShowForeign`. `Sha1Blocks` knows a byte of the
  input by its position; `sha1_transform` is the sequence of blocks it was given.
* All callers of `generateContent` name their model, so its loop over models has
  one round and `rotateModel` is never called. `mapErrorCode` looks for the
  error's code in `response.message`, where it never is, so every failure that is
  no rate limit is `AI_ERROR`.

History variables (`overlap`, `opened`, `loggedOut`, `admitted`, `late`, `switched`,
`fault`, `out`, `aborted`, `tenure`, `gone`, `calm`, `tried`, `clean`, `alone`,
`served`, `answer`, `missed`, `foreign`) record what the properties talk about and
never guard a step.

## 3. Runs

| Run | Instance | Shows |
|---|---|---|
| `chat_membership` | 2 users, 2 handlers at a time, 3 requests, starting from a direct conversation or a group | `SenderWasMember`, `RemovedByManager`, `AbsenceExplained`, `SequentialGroupUnique`, `SequentialDirectUnique`, `GroupExitIsFinal` |
| `chat_messaging` | 2 users, 2 handlers, 3 requests, 1 failure, 2 clock values | `SeenWasRead`, `SequentialUnread` |
| `chat_attachments` | 2 users, 2 handlers, 4 requests | `AttachmentSound`, `SequentialShare`, `EveryCallReturns` |
| `native` | relay: 2 connections, 3 names, table of 2 | `OneSessionPerUser`, `AuthenticatedReachable`, `EntriesOwned`, `HungUpIsClosed` |
| | terminal client: 4 inputs, 1 delivery | `AnswerIsTrue`, `NoSecondLogin`, `BackToPrompt` |
| | processor: 2 calls | `SoloAnswersMatch`, `EveryCallSettles` |
| `web_auth` | a browser and one other client, 2 addresses with one local part, a Google account, 2 sessions, 3 access tokens, 2 page loads; starting from no accounts or from a local and a Google account | `OneAccountPerAddress`, `AttemptsAccounted`, `KeptSignedIn`, `SignOutHolds` |
| | login sessions: 1 session, 3 handlers, TTLs 3 and 2, clock to 4 | `NoUseAfterLogout`, `ImplementsSessionStore` |
| `chat_client` | 2 conversations, one of them with messages; pages of 1, 3 messages of which 2 share a millisecond, 1 call, 2 pages and 1 room change under way, 4 moves | `RoomsEarned`, `ThreadSound`, `ComposerReleased` |
| `conversation_list` | 2 conversations with one message each, 2 handlers and 2 loads at a time, 2 more messages, 4 events on their way, 3 moves | `ListTrue` |
| `chat_page` | AI services: 3 keys, 2 requests at a time, 2 conversations | `SoloTriesEveryKey`, `SuggestionsBelong` |
| | composer: 2 conversations, 2 calls of `handleSend` at a time, 2 files, 2 messages, 5 moves, removals and additions of the user among them | `FileAsChosen`, `DraftNotStuck`, `DraftKept` |
| | searches: 2 queries, 2 conversations, 4 timers and requests and 2 starts of a conversation at a time, 6 moves | `ResultsAnswerField` |
| | typing presence: 2 peers, 2 conversations, 3 signals, 2 on their way, expiry after 2 of 5 ticks, browser clocks behind, equal and ahead | `OwnTimeout` |
| | stored text: a field of 7 bytes; every ASCII character, and texts of up to four characters of one to three bytes; answers of the driver its own or foreign | `ShownAsSent` |
| | SHA-1 blocks: blocks of 64 bytes, lengths 0 to 130 and 503 to 511, the longest payloads | `BlocksArePadded` |
| `unique_membership` | 1 handler, add/leave/send | **violated**: `UniqueActiveMembership` |
| `unread_race` | 2 handlers, send/read | **violated**: `UnreadConsistent` |
| `processing_correlation` | 2 calls | **violated**: `AnswersMatch` |
| `long_text` | a field of 7 bytes; texts of up to four characters of one to three bytes | **violated**: `RestoredAsSent` |

`native`, `chat_page` and `web_auth` check several components side by side. The components of
such a run share no variable; the initial state chooses the one a behaviour is about
(`part`), only that one takes steps, and the others stay in one initial state. A
behaviour of the run is thus a behaviour of one component, and every behaviour of
each component is one of the run. Fairness is stated per component under the same
choice (`PartsFairness`).

Why the bounds are enough. Every race of the backend is between two handlers, and
the ones found need three requests (`unique_membership`: leave, add, send;
`unread_race`: a send, a read and a second send). Attachments need four to go
through presign, confirm and two sends. Two clock values are enough for messages
with the same and with different timestamps. The session's TTLs let the access token
expire first and the clock pass both edges; three handlers put a refresh, a logout
and a request in flight together. The relay's table can be full (two stale entries)
and three names allow a second login. In `web_auth` two addresses share the part
before the @, so Google names collide, and one Google account may come with either
address; a reload after a sign-out needs two loads, three tokens let a request's
token expire, be renewed and expire again. `Alone` keeps the browser's later life
and the other client's sign-ups apart: they share the account collections only.
Three keys let an overlapping request skip one. In `chat_client` a page of one
message puts a page's edge between any two messages; `MaxMoves` bounds what the
users and the network start (selecting, sending, removing, disconnecting, leaving),
never how it is answered, `Spoken` names the conversation whose messages and members
change: the other one is there to be selected. Four moves are, for instance: select,
be removed, lose the connection, select again. In `conversation_list` three moves
are a deletion, the peer's message that brings the conversation back, and a read,
say, with two handlers and two loads interleaved. The composer needs a second call
of `handleSend` while a first one is under way, and a second file and message; five
moves are, for instance: select, send, be removed, be added back, select another
conversation. Four inputs of the terminal client are a login, a peer, a message and
a logout, or a login refused twice and another one; one delivery can come before,
between or after a request and its acknowledgement. A field of seven bytes leaves
six for the text, so characters of one, two and three bytes end at, before and
across its limit; the loops do not depend on the size; in `long_text` four such
characters are up to twelve bytes, so texts fit, just fit, and are cut. Lengths of a
little more than two blocks meet every position of a block's end. For the properties
of section 4 the proofs remove the bounds.

Symmetry (users and handler slots in the chat runs without liveness; conversations
and slots in `chat_page`; handlers in `conversation_list`) is sound: no definition
names a particular one, and action properties are safety properties.

Deadlock is checked in every run but `chat_client`, `conversation_list`, `chat_page`
and `long_text`, which stop when their moves are spent, their time is over or their text
or digest is done. `Finished` and `Over` are the only ways to stop elsewhere: all
requests served, all sessions expired, all calls settled.

### Fairness

* `ChatService`: weak fairness of the steps of each handler - a MongoDB call
  settles. Requests, failures and the clock have none.
* `RelayServer`: weak fairness of the steps that do not wait for the client (threads
  are scheduled; of `ChatWrite` this also says that `write_full` to a peer that
  reads nothing does not block for ever), strong fairness of reaching the end of the
  stream of a client that has left: it sends nothing more, so only finitely many
  requests can come before.
* `Processing`: weak fairness of the daemon's threads and of the socket's timer,
  strong fairness of obtaining the mutex (kernel mutexes queue their waiters).
* `TerminalClient`: weak fairness of both threads and of the server's thread
  (threads are scheduled, the processor answers or fails). A relay that stays silent
  for ever is thereby excluded: the client has no timeout, and would wait; none of the user, the
  network's failures or other users.
* `RefreshSessions`, `WebAuth`, `AiServices`, `ChatClient`, `ConversationList`,
  `TypingPresence`, `Composer`, `Searches`, `StoredText` and `Sha1Blocks` have no liveness
  property and no fairness: a lost answer or an absent user is legitimate there.

### Disagreements found

1. **Two active rows for one member** (`unique_membership`). Leaving a direct
   conversation, being added back (a new row) and receiving a message (the old
   row is re-activated by `_id`, `chat.service.ts:869`) needs no concurrency.
   `specs/003-chat-groups/data-model.md:27` calls the active membership unique;
   the index of the schema is not.
2. **A hidden unread message** (`unread_race`). `markConversationRead` fetches
   the latest message and resets the counter later (`chat.service.ts:606`, `622`);
   a message that arrives in between is not counted. FR-013 of
   `specs/010-message-presence-status/spec.md:83` asks for consistency when new
   events arrive. `SequentialUnread` shows that serial requests are right.
3. **Mixed-up answers** (`processing_correlation`). `chat_read` copies the
   global response without the mutex (`chat_driver_main.c:54`), and nobody
   compares `message_id`. FR-013 of `specs/001-socket-chat-kmod/spec.md:112` asks
   for a one-to-one correspondence. `SoloAnswersMatch` shows that uncontended
   calls are right.
4. **Long texts lose their end** (`long_text`). `writeCString` cuts at 511 bytes
   (`chat-encryption.service.ts:198`) without an error, and the message is stored
   and shown as a success. FR-005 of
   `specs/008-reverse-kernel-encryption/spec.md:69` asks that what is shown equal
   what was sent, FR-007 (`:71`) that no wrong data be returned silently.
   `ShownAsSent` shows that texts which fit are right, and `OnlyTheEndIsLost`
   (section 4) says what is left of the others.

Met while modelling, and kept as premises of properties or as remarks rather than as
runs of their own:

* **A badge that the peer clears.** `conversation_read_updated` goes to the room
  whoever has read (`chat.gateway.ts:222`), and the page sets its own user's badge to
  zero (`chat.page.tsx:637`); `specs/010-message-presence-status/quickstart.md:78`
  says that only opening the conversation does. `calm` of `ConversationList` is false
  after it.
* **A `lastMessageAt` that is not the last.** Two concurrent sends write the field in
  the opposite order of their messages (`chat.service.ts:424`), and lists are sorted
  by it; `specs/010-message-presence-status/data-model.md:11` defines it as the
  latest message's instant. `ListTrue` asks for the order only while it is.
* **Uploads are not cancelled.** The `AbortController` made at `chat.page.tsx:1181`
  is never used; `specs/013-chat-file-upload/spec.md:63` asks for cancellation when
  the user leaves the conversation. `FileAsChosen` shows that the message still goes
  where it was sent, with the right file.
* A renewal in flight while logout returns signs the page in again until its next
  request (`auth.store.ts:35`); `specs/005-refresh-token/spec.md:57` asks for the
  opposite. `SignOutHolds` therefore speaks of a logout with no renewal in flight.
* A retried request that fails for a reason of its own signs the user out
  (`http.ts:106`); `specs/005-refresh-token/spec.md:56` wants its error shown.
  `KeptSignedIn` therefore excludes it (`fault`).
* The thread may lose or repeat messages when a page overtakes an event
  (`chat.page.tsx:479`, `654`), when older pages and a refetch overlap, when a load
  of the previous conversation arrives late, when a message older than the thread's
  head is delivered, and while the socket is down: nothing is fetched again on
  reconnection. `calm` is false after these, and `ThreadSound` is about the rest.
* Somebody removed between sending and delivery may get an acknowledgement and no
  copy: the composer stays locked, with its draft shown as uploaded, until the next
  error (`ComposerReleased` and `DraftNotStuck` name exactly that case; `missed` is
  the latter's ghost). The bot's message carries its requester's id and unlocks that
  user's composer.
* A message of the user from another tab, the bot's answer, or the second copy of a
  message wipes the draft and unlocks the composer (`chat.page.tsx:593`), and so does
  an error of any other call for the lock (`chat.page.tsx:714`): `alone` is false
  after these, and `DraftKept` is about the rest.
* `loadingAiSuggestions` stays set when the messages cannot be fetched
  (`chat.page.tsx:508`); a failed chatbot request is swallowed
  (`chat.gateway.ts:199`), so the page goes on waiting for it.

Properties named `Sequential...` and `Solo...` state what the code does guarantee
where the unrestricted property is known to fail under concurrency: their
premise is the history variable `overlap`, and the runs reach both of its values.

## 4. Proofs

All theorems hold for every value of the constants under the named assumptions
only:

* `ChatStore`: `None` is no user (`NoneAssumption`), the operations and the initial
  states are those the model knows (`OpsAssumption`, `SeedsAssumption`), bounds are
  naturals (`BoundsAssumption`);
* `SessionTimes`: TTLs are positive (`TTLAssumption`);
* `Accounts`, `WebAuth`: the account collections a behaviour starts from respect the
  unique indexes (`SeedsAssumption`), clients are finitely many
  (`ClientsAssumption`), the browser is one of them and its `/auth/me` is no other
  request (`BrowserAssumption`);
* `ChatGateway`, `ChatClient`: a page holds at least one message (`PageAssumption`);
  the messages stored at the start are in the order of their times
  (`HistoryAssumption`);
* `ConversationList`: conversations are finitely many and `None` is none of them; their
  first messages were stored at different instants (`FirstAssumption`);
* `RelayServer`, `TerminalClient`: `None` is no user name, the table's size is a
  natural, connections are finitely many, a user makes finitely many inputs
  (`NoneAssumption`, `MaxOnlineAssumption`, `ConnsAssumption`, `InputsAssumption`);
* `AiServices`: there is a key (`KeysAssumption`);
* `TypingPresence`: the time to live is a natural, clocks differ by an integer
  (`ClockAssumption`);
* `Sha1Blocks`: the count of bits fits into a block after the mark
  (`BlockAssumption`), a field holds a byte and a NUL, and texts are sequences of
  code points of the basic plane, without NUL (`TextAssumption`).

### The backend: `ChatServiceProofs`

The difficulty is that a handler acts on what it learnt several awaits ago. The
argument is that what it learnt is *stable*: a conversation's type and a row's
conversation, user and role never change and no document disappears, so a handler
that has passed its check can point to a row of its caller for good (`Grow`,
`Known`, `KnownIsStable`). The base is
`IInv = TypeOK /\ CallInv /\ RowsInv /\ SenderWasMember /\ RemovedByManager`:
`CallInv` says of each handler, by its program counter, which row or document it
knows; `RowsInv` that rows point to existing conversations. Each further invariant
is proved on top of it.

| Theorem | Invariant, and why the property needs it |
|---|---|
| `TypeCorrect`, `OnlyMembersSend`, `OnlyManagersRemove` | `IInv` |
| `ExitFromGroupIsFinal` | `IInv`: the ids a restoration holds are rows of a direct conversation |
| `AbsencesAreExplained` | `AbsenceInv`: the row ends one await before its event is written, so a row that is not active has its event in the history *or* the handler that is about to write it (`Explained`) |
| `SeenByReaders` | `SeenInv`: a reader that is past its own row has recorded its read (`ReaderOK`), so the messages it marks as seen later are covered |
| `AttachmentsAreSound` | `FileInv`: a carried file is its sender's own, confirmed and of that conversation (`Carried`), a file names the message that carries it (`LedBack`), and a handler that has passed its checks still holds such a file (`HolderOK`): a file never becomes a draft again and keeps its owner, whatever stale document is saved |
| `GroupsStayUnique` | `SoleInv` (no overlap means one handler in flight) and `GroupInv`: the handler that is about to insert a row found none for that user (`AdderOK`), which stays true only because nobody else runs |
| `SharedFilesStay` | `SoleInv`, `ShareInv`: every carried file belongs to its message, but for the message whose handler has not saved the file yet (`OwnedBut`) |
| `DirectsStayUnique` | `SoleInv`, `DirectInv`: direct conversations but for the one whose rows are being inserted have two rows and differ in their members (`DirectOK`); a search that has discarded some candidates discarded none with these members (`MakerOK`) |
| `CountersAgree` | `SoleInv`, `UnreadInv`: a row's counter agrees with its `lastRead`, but for the last message while its handler has not counted it (`Counted`, `Pending`); messages are stored in the order of the clock (`Timed`), which makes `lastRead` comparable |

### Sessions and accounts: `RefreshSessionsProofs`, `WebAuthProofs`

`RefreshSessionsProofs` - `TypeCorrect`, `LogoutIsEffective`, `NoEarlySignOut`,
`RevocationStands`. `NoUseAfterLogout` is about requests and is not inductive:
`LogoutInv` adds that a session whose logout returned is revoked, `StatusInv` ties
the status to `revoked` and the expiry, `TokenInv` says that tokens name existing
sessions, and `CallInv` what a handler in flight knows: a late request is for a
session on record as logged out, and an expiry is saved only after the session's
time, which is why a stale `save()` cannot sign anybody out or in. From the same
invariant follows `SessionsImplementStore`, the refinement: a session document is
*revoked* when its flag says so, *lapsed* when it is past its expiry, *live*
otherwise, whatever its status field says. The interesting steps are the clock's,
which lets any number of sessions lapse at once, a save of a stale document, which
must be a stutter, and an admission, which needs the session to be live at that very
step.

`WebAuthProofs`:

* `AccountsStayUnique`. A handler looks for an address and creates the account
  several awaits later, so its check proves nothing; what does is the index check at
  the write. `Unique` says that `users` holds account documents, no two with one
  address, username or Google id; only `CreateUser` and `LinkGoogle` write the
  collection, both through `Conflict` (`InsertDistinct`, `SaveDistinct`).
* `AttemptsAreAccounted`. `JobsInv` gives each handler's shape and says, of each kind
  of sign-in, that the attempts started are those with an outcome plus the handlers
  in flight (`Accounted`); every step moves exactly one of these numbers, or none.
* `SessionIsKept`, `SignOutIsFinal`. `PageInv`: after a sign-out nothing the browser
  holds can bring a session back - no cookie, no sign-in in flight, and every renewal
  under way without a cookie (`SignedOut`); before it, a renewal in flight carries
  the browser's own cookie unless an answer was lost, and each failure that would
  end the session has been recorded in `fault` (`RenewalOK`, `RequestOK`).

### The page's thread: `ChatClientProofs`, `SortingProofs`

* `RoomsAreEarned`. A join is checked against the membership of that moment; `Earned`
  adds that the active conversations are among those of the connection's `tenure`, and
  that a closed connection is in no room.
* `TypeCorrect`; the work is in the pages and in what sorting them returns.
* `ComposerIsReleased`. `ComposerInv`: while the composer is locked some call holds it
  (`Holder`): it is under way and its message comes before a good answer to it
  (`MessageFirst`), or the user was removed from its conversation. A call has one
  answer, which is still to be made, on its way, or received (`OneAnswer`), and the
  message behind it is the user's, of the call's conversation (`JobsOwn`).
* `ThreadIsSound`. `ThreadInv`: as long as nothing overtook anything (`calm`), the
  thread is sorted, without repetition, and lacks only what is older than its head,
  what shares an instant with a message at a page's edge, and what is still to be
  published or delivered (`ThreadOK`); and each page under way would leave it so when
  it arrives (`FetchOK`, `PageOK`, `OlderOK`).

What a sorted sequence of a finite set is cannot be taken from the library: the
induction theorems have an operator parameter. `SortingProofs` proves it by a least
counterexample: a least size for which some finite set has no sorted order
(`LeastNat`) is refuted by inserting one element into the order of the others
(`InsertOne`, `SortExists`). `ChatClient` and `ConversationList` therefore state their
sorts with `CHOOSE`, as the stable permutation with the order wanted.

### The page's list: `ConversationListProofs`

`ListIsTrue`. `ListTrue` speaks of the end, when nothing is under way any more;
`ListInv` says what makes it come out so, and is proved conjunct by conjunct, each step
with the earlier ones:

* `StampsOK`: every instant a conversation has, or a handler still carries to it, is
  that conversation's alone, so the order of the list is strict.
* `LoadsClean`: an answer of `listConversations` that no handler overtook, while it was
  read in three steps, is what the server has (`Fresh`); any handler that begins, and any
  deletion, makes the loads under way unclean.
* `CalmOK`: while calm, a handler is alone in its conversation (`Alone`) and carries what
  the server has by the time it tells it (`Knows`); where none runs, the *last* event on
  its way that sets a badge or an instant sets it right (`CountsRight`, `DatesRight`).
  Taking the first event off the queue keeps this (`ShiftedRight`), and so does
  appending a handler's events, whose first is the preview (`AppendedRight`).
* `ListOK`: while calm and with no load under way, an entry for which no event is on its
  way and no handler runs is right already, a conversation not listed has a preview
  coming (`Shown`), and a list out of order has an entry that some event will still
  move, unless the server's own order is wrong (`Misplaced`).

What happens to one handler in one conversation leaves the others' entries and events
alone: `CalmFrame` and `ListFrame` say so once for all steps of handlers.

### The rest of the page: `ChatPageProofs`

| Theorem | Invariant, and why the property needs it |
|---|---|
| `SuggestionsAlwaysBelong` | itself: every way to show a list compares its conversation with the selected one when it arrives, or takes the list from that conversation's entry of the cache |
| `EveryKeyIsTried` | `KeyInv`: a request that is alone has tried the most recent keys, as many as it made calls (`TriedOK`, `Recent`); a rotation modulo the number of keys then reaches all |
| `IndicatorsExpire` | `TypingInv`: a conversation has one timer, due when its indicator expires, or neither (`TimerOf`) |
| `LateResultsNotShown` | `SearchInv`: a search that was not cancelled is for what the field says now (`Current`) |
| `FilesAsChosen` | `UploadInv`: each call of `handleSend` has an attachment of its own, of its conversation, which holds the file it was made for from the upload on, and no message has it before the call's own (`CallSound`, `MessageSound`) |
| `DraftNeverStuck` | `UploadBehind`: a draft that is uploading has a call in the middle of its upload (`Uploading`); one that is uploaded has the call that uploaded it, up to its acknowledgement with the message still on its way (`Behind`), or its message was delivered when the user was no participant any more (`WentMissing`). No step takes a draft out of these cases but by ending it or moving it to the next (`UploadingKept`, `UploadedKept`, `MissingKept`) |
| `DraftsAreKept` (an action property) | `KeptInv`: while nothing disturbs the page, one call at most is under way up to its message, then one first copy of it; until that arrives, the draft is the call's, or there is none (`Undisturbed`) |
| `HashOfPaddedInput` | `Sha1Inv`: the blocks hashed and the buffer up to its index are the padded input (`Hashed`, `Buffered`), and `pc` tells how far input and padding have come (`Reached`), so that the last block ends where the padding does |
| `TextsAreShown`, `OnlyTheEndIsLost` | `StoredInv`: while the driver works, the field holds the text's bytes and the answer so far is the beginning of its substitute's (`Filling`); unless an answer was another call's (`foreign`), what is stored is the text, or the substitute of what the field left of it (`Rest`), and what is shown is that (`ShownIsRest`) |

`TextsAreShown` is about texts that fit into the field or were stored without it; of
all others `OnlyTheEndIsLost` says that what is shown is a prefix, with a
replacement character if a character was cut. Both have the premise that the answers
the driver gave were the call's own, which concurrent calls can break (disagreement
3). They rest on lemmas about UTF-8 and the tables. A byte belongs to one character
(`BytePlace`); a character is begun once (`BegunFacts`), so a cut text is decoded to
whole characters and perhaps one replacement (`DecodeFacts`, `HeldFacts`); what a
field left fits a field again (`RestFacts`), which is why decryption loses nothing
more; the ciphers are permutations (`Ciphers`), so `map_reverse` undoes
`map_forward` (`MapFacts`) and keeps each character's width (`FwdFacts`). For these
proofs `Encode` and `Decode` say where a character's bytes are, by counting, instead
of concatenating characters one after the other.

### The C half: `NativeProofs`

* `RelayTypeCorrect`, `NamesStayUnique`, `ReachableWhileAuthenticated`,
  `NoOrphanEntries`. The table and the sessions are related both ways (`RelayInv`):
  `TableInv` (one slot per name), `FdInv` (open connections have different
  descriptors), `Registered` (a session with a name is in the table under that name
  with its own descriptor), `NameInv` (an authenticated session has a name), and
  `EntriesOwned`. Uniqueness of names then follows from uniqueness of slots and of
  descriptors.
* `AnswersAreTrue`, `OneLoginPerConnection`. `ClientInv`: one request is under way at
  a time, the main thread's last one (`OneRequest`), ids grow (`IdsGrow`), every
  acknowledgement on its way, waiting or taken tells what the server did
  (`AcksTrue`), and the connection is signed in only once the main thread has left
  the menu (`SignedOutAtMenu`).
* `UncontendedCallsMatch`. `ProcessorInv`: while no two threads meet in the device,
  the one that is there reads what it has written and carries it to its caller
  (`Alone`).

The theorems about components of `MCNative`, `MCChatPage` and `MCWebAuth` are about
the component's own specification (`Client!Spec`, `Processor!Spec`, `Typing!Spec`,
`Search!Spec`, `Draft!Spec`, `Sha1!Spec`, `Stored!Spec`, `Auth!Spec`; `RelayServer`,
`AiServices` and `WebAuth` are extended, so theirs is `Spec`); a behaviour of the
run is one of these or changes nothing (section 3).

Proved but checked by no run of their own: the type invariants; `LiveStaysActive` and
`RevocationIsPermanent` of `RefreshSessions`, which follow from the same inductive
invariant; and `OnlyEndLost` of `StoredText`.

### Only model-checked

* `EveryCallReturns`, `HungUpIsClosed`, `EveryCallSettles`, `BackToPrompt`: liveness
  under fairness is outside the prover's reach.

## 5. Not modelled, and why

* Backend: moderation results beyond their request (one independent write per
  message), what a search matches, the texts and names of previews, audit records
  other than the outcome of sign-ins (written, never read), the counters of failing
  API keys (written, never read), `handleAiChat` (no client calls it). The object
  store is only seen through the client's claim that an upload is done, exactly as
  the backend sees it.
* Browser: notifications, the image viewer, the indicator that waits for the
  chatbot, slash commands, rendering. Groups in the conversation list differ from
  direct conversations in their titles only. A development build mounts the page twice
  (React StrictMode) and hydrates the session twice; the model mounts it once. One
  change of room at a time is under way in the run, so the race of two changes
  (select A, B, A quickly) is not reached. Deleting a conversation that is not
  selected changes the list only.
* C half: the peer that `select_peer` stores in the relay (acks echo it), the
  terminal client's screen and the end of its stdin, partial writes of a record,
  SHA-1's compression function (arithmetic on words, without control), texts with
  NUL characters or characters beyond the basic plane, module loading and device
  nodes, the byte layout of the wire protocol.
* Bootstrap, configuration, deployment scripts.

## 6. Plan

Done: the chat backend, login sessions and the store they implement, accounts, the
browser's session, the socket gateway, the chat page (thread, list, composer, typing,
searches), the AI services, relay, terminal client, remote processing, the driver's
transformations; proofs of all safety properties of the runs, in eight modules.

Next, in this order:

1. Two overlapping changes of room in `chat_client`.
2. An online directory as an abstract specification that `RelayServer` implements.
