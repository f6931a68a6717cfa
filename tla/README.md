# Verification of the collaboration platform

TLA+ models, model-checking runs and machine-checked proofs for the Go
microservices (auth, workspace, notes, whiteboard, on ScyllaDB) and the Next.js
client of this repository. Paths below are relative to the repository root, with
`web/` short for `web/src/` (`PROJECT.json` has them in full).

## 1. Inventory

| part | state | operations | what is hard | modules |
|---|---|---|---|---|
| **Sessions** `services/auth/internal/{service,scyllastore,tokencache}` | rows `user_sessions` (gen, global_ver, expires_at, TTL), `user_revocations`; Ristretto entries | Register/Login, RefreshToken, ValidateToken, Logout, LogoutAllDevices, the detached `handleTheftDetected` | each request is several accesses, interleaved with others; cache entries written late; calls that fail after they were applied | `SessionRotation`, `AuthSessions`, `AuthSessionsProofs` |
| **Notes hub** `services/notes/internal/realtime/hub.go` | `Hub.rooms`; per room: clients, channels, currentValue, buffer, flushTimer; rows `yjs_state`, `yjs_updates` | HandleNoteWS, the select loop, flush, Shutdown | flush writes outside the lock; timers that outlive a flush; the end of a room against new joins; slow clients; process exit | `NoteRoom`, `NoteRoomProofs` |
| **Whiteboard hub and page** `services/whiteboard/internal/realtime/hub.go`, `web/modules/whiteboard/components/whiteboard-canvas.tsx` | room document, buffer, timer; `board_ops_hot`, `board_state`; the canvas's pending document, save timer, echo flag | HandleBoardWS, broadcast, flush, hydrate; mount, snapshot, edit, debounced send | documents that replace each other, an editor that mounts late, rooms closed without a flush | `BoardRoom`, `BoardRoomProofs` |
| **Socket manager** `web/lib/board-socket-manager.ts` | sockets, pending connections, connection tokens, retries, send queue | connectRoom, disconnectRoom, sendRoomMessage, the listeners, scheduleReconnect | tickets, events and timers that arrive after they were superseded | `RoomLink`, `RoomSocket`, `RoomClientProofs` |
| **Note page** `web/modules/notes/components/note-view.tsx` | editor value, baseline, last snapshot, held messages, suppression flag | connection effect, message listener, handleEditorReady, onChange | patches, init, editor start and own edits in any order; echoes | `NoteView`, `RoomClientProofs` |
| **Browser session** `web/proxy.ts`, `web/actions/auth.ts`, `web/lib/server-access-token.ts`, … | two cookies | proxy, server rendering, server actions, login, logout | answers with cookies arrive in any order; redirects in both directions | `WebSession`, `WebServerProofs` |
| **JWKS consumer** `web/lib/server-jwt.ts` | cached keys with the time they were seen, time of the last fetch | validateRefreshToken | overlapping and failing fetches, stale keys | `JwksCache`, `WebServerProofs` |
| **Membership and invitations** `services/workspace/internal/service/workspace_service.go`, `web/modules/workspace/…`, invite page | two tables of invitations, two of members; dialog state; cached list of workspaces | InviteMember, reset, accept, reject, leave, ListMyWorkspaces | unconditional writes to two tables; answers that outlive their page; backfill | `Invitations`, `WorkspacePages`, `WorkspacePagesProofs` |
| **Catalogue** workspace, notes and whiteboard services; sidebar and library of the client | workspaces and their names, notes and their titles, boards | CreateWorkspace, CreateNote, CreateBoard, GetNoteBySlug, lists | reservation by LWT with compensation, plain inserts, failures half way | `Catalogue`, `LibraryPages`, `LibraryPagesProofs` |
| **Note blocks** `web/components/editor/plugins/…`, asset actions | poll, sticky note, picture blocks; component state; uploads, downloads | votes, drags, texts, uploads, fetches | handlers with old props, fetches answered late | `SharedBlock`, `PollBlock`, `StickyBlock`, `PictureBlock`, `NoteBlocks`, `NoteBlocksProofs` |
| WebSocket tickets, Go signing keys, registration, token formats, RPC servers, the other React views, start-up, generated code | — | — | see section 7 | — |

Interactions. The browser gets tokens from auth, keeps them in two cookies that
the Next.js server reads and writes, asks notes or whiteboard for a one-time
ticket and opens a WebSocket with it; the hubs check access through the
catalogue, which asks the workspace service; every service verifies tokens with
the JWKS of auth. Services share no memory; each owns a keyspace.

How the models compose: `NoteView` is a note page *over* `RoomLink`, the abstract
link that `RoomSocket` is shown to implement; `WorkspacePages` and
`LibraryPages` are browsers over the statements of `Invitations` and
`Catalogue`; `NoteBlocks` puts the three kinds of block over `SharedBlock`;
`WebSession` has the auth service as a generation per session, which
`SessionRotation` abstracts from `AuthSessions` in the same way. The `MC…`
modules only give constants their values.

`hazards` in `PROJECT.json` lists, each at its line, what is hard to test, with
the properties that watch it.

## 2. The services

### `AuthSessions`: tokens, sessions, theft

One user, one auth-service process, several sessions, several goroutines
(`Handlers`; a slot serves a request or a clean-up). `pc`/`job` are a goroutine's
position and locals, so each database or cache access is a step of its own.

| code | actions |
|---|---|
| `mintSessionTokenPair` (Register/Login) | `StoreSession`, `LoginGetRevocation`, `LoginMint` |
| `RefreshToken`, cache hit | `RefreshOnHit`, `ReplayOnHit` |
| `RefreshToken`, miss | `RefreshOnMiss`, `RefreshGetSession`, `RefreshGetRevocation`, `RefreshRevoked`, `RefreshSessionGone`, `ReplayOnRow` |
| `AtomicBumpGen` (LWT) and re-mint | `AtomicBumpGen`, `ConcurrentRotation`, `RefreshMint`; `BumpGenTimesOut`, `MintFails` |
| `ValidateToken` | `ValidateOnMiss`, `ValidateGetSession`, `ValidateGetRevocation`, `ValidateFill` |
| `Logout`, `LogoutAllDevices` | `Logout`, `LogoutAllDevices`, `LogoutAllBumpRead/Write` |
| `handleTheftDetected`, `recordTheftAttempt` | `TheftCount`, `TheftMark`, `TheftBumpRead/Write`, `TheftClearKeys`, `DeleteSession`, `TheftEvict`, and their failures |
| TTLs, Ristretto, restarts | `Evict`, `SessionExpires`, `RowExpires`, `TheftCounterExpires`, `RevocationExpires`, `Restart` |

A token is its claims (session, generation, global version); signatures and
passwords are assumed to work. Ristretto is external: a `Set` may be dropped and
an entry may go at any time. Time is not counted: a TTL or an `expires_at` may
pass at any moment the code leaves room for. A refusal that touches no state is a
stutter. `gver:<uid>` is written and never read, so it is left out. `opened`,
`pairs`, `epoch`, `replays` are history variables.

`SessionRotation` says what rotation promises without cache, goroutines or
failures: a session has one current generation, a rotation moves it by one and
earns at most one pair, a killed session never moves again. `AuthSessions`
implements it with `current <- row`, `owed <-` the pairs goroutines hold and have
not handed out, `delivered <-` the pairs handed out.

### `NoteRoom`: the collaboration hub of one note

`Rooms` are the room objects a process (or several, one after the other) creates
for the note; `entry` is its place in `Hub.rooms`. `loop[r]` tells whether
`run()` is at its select or in a flush it called, `hand[r]` holds the frame it
will fan out afterwards.

| code | actions |
|---|---|
| `HandleNoteWS`, `getOrCreateRoom` | `FindRoom`, `CreateRoom` (`HydrateFails`), `Join` |
| `readPump`, `handleClientMessage` | `SendEdit`, `SendPrivate`, `Disconnect` |
| `run`: join / leave | `RegisterClient` / `IgnoreLeave`, `RemoveClient`, then `LoopFlush`, `Close` |
| `run`: patch and update frames | `EditDebounced`; `EditFlushed`, `LoopFlush`, `FanOutHand` |
| `run`: identify, cursor | `Identify`, `Cursor` |
| `flush` | `TakeBuffer` (under the lock), then the two writes `AppendUpdates` and `UpsertState` of a flight; `AppendFails`, `UpsertFails` |
| `time.AfterFunc` | `Debounce` arms, `TimerFires` |
| `Hub.Shutdown`, end of `run` in `main.go` | `Shutdown`, `Exit`; `Crash` |

A document is its set of blocks (what `isStructural` looks at) and the edits it
accounts for (`mergeSnapshot`; a legacy full `update` accounts for every edit
before it). The 64-frame send queue of a client is full when the environment says
so (`slow`). `join` and `leave` are bounded sets, since the order among waiting
connections decides nothing; `broadcast` is a bounded FIFO. A timer's firing and
its taking of the lock are one step; a `Reset` that comes between them in the
code is the first alternative of `Debounce`. Hydration runs under `h.mu` and is
one step with the creation. Of presence only what decides a branch is kept
(`named`). Undecodable frames change nothing and are left out.

### `BoardRoom`: a whiteboard, from canvas to tables

| code | actions |
|---|---|
| connection effect, `handleMount`, clean-ups | `Mount`, `EditorMounts`, `Unmount` |
| message listener, `applySnapshot` | `Receive`, `ApplySnapshot` |
| store listener, save debounce, `sendOp` | `Edit`, `SendOp` |
| `HandleBoardWS`, `getOrCreateRoom`, `hydrate`, `sendInitialState` | `Open`, `Hydrate`, `Greeting` |
| `run`: broadcast, leave; `readPump` | `Accept` (`Others`, `Slow`), `LoopRuns`, `Gone`, `Lose` |
| `flush`: `BatchAppendBoardOps`, `UpsertBoardState` | `FlushStarts`, `FlushAppends`, `FlushUpserts`, `FlushFails` |
| the TTL of `board_ops_hot`, restarts | `OpsExpire`, `Restart` |

Unlike a note, every message carries a whole document and the last one stands, so
a document is the set of edits in it. `due`, `seen`, `touched` are history: what
a member was last owed, what its page last took, whether it drew since.

### `Invitations` and `Catalogue`: statements without transactions

A call is at a station of its handler; each statement is a step, may fail (in
`Catalogue` with or without effect) and then ends the call with an error, and
calls run side by side.

| code | actions |
|---|---|
| `InviteMember`, `resetInviteCodeLinks`, `invalidateInvitationToken` | `InviteChecks`, `InviteScans`/`NextReset`, `Unlist`, `Delete`, `InviteInserts`, `InviteLists` |
| `AcceptInvitation`, `RejectInvitation` | `AcceptReads`, `AcceptMarks`, `AcceptJoins`, `AcceptJoinsView`; `Reject` |
| `RemoveMember` (leaving) | `RemoveChecks`, `RemoveLeaves`, `RemoveLeavesView` |
| `CreateWorkspace` and its compensations | `ReserveName`, `Execute`, `ExecuteFails` with `AfterFailure`, `Undoing` |
| `CreateNote`, `reserveNoteTitle` | `CheckAccess`, `Reserve`, `Retitle`, `Reserved`, `ReservationFails`, `Execute` |
| `CreateBoard` | `CheckAccess`, `Execute` (`Plain`) |

In `Invitations` there is one workspace, a link invites as a member, and the
seven days a link lasts are left out. In `Catalogue` what a call makes is named
by the call; nothing is renamed or deleted, as the client cannot ask for it.

## 3. The browser and its server

### `RoomLink` and `RoomSocket`: one room of the socket manager

| code | actions |
|---|---|
| `connectRoom` | `ReuseOpen`, `ReusePending`, `AwaitConnecting`, `StartAttempt`; when the ticket comes `OpenSocket`, `Superseded` or `TicketFails` (`Current` is the comparison of tokens) |
| open, close listeners | `OnOpen`, `OnClose`, `OnClientClose` |
| `scheduleReconnect` | `ScheduleReconnect`, `TimerFires` |
| `disconnectRoom`, `sendRoomMessage` | `DisconnectRoom`, `SendRoomMessage` |
| the page's effects | `Mount` |

An attempt and the socket it opens carry the token the attempt drew. The
`AbortSignal` of an attempt is raised only together with a token that moves on,
so the comparison of tokens stands for both. `RoomLink` is what a page may
rely on: messages go out in order and once, those sent while the room is down
wait for it. It promises neither that the room is down after a page left nor
that it is down when one arrives.

### `NoteView`: a note page over `RoomLink`

| code | actions |
|---|---|
| connection effect | `MountView`, `LeaveView` |
| state listener | `SocketOpens` (with the greeting `Identify`) |
| message listener, `applyIncomingMessage`, `applyRemoteValue` | `Receive`, `ApplyIncomingMessage`, `ApplyRemoteValue`, `SuppressionEnds` |
| `handleEditorReady` | `HandleEditorReady`, `Drain` |
| `onChange`, `diffBlocks` | `Edit` (`Suppressed`, `DiffBlocks`) |
| the hub at the far end | `HubJoins`, `HubTakes`, `PeerEdits`; `SocketLost`, `FramesGone` |

A document gives each block a version. The hub applies and fans out patches in
the order it takes them (`NoteRoom` has the whole of it).

### `WebSession`: cookies, proxy, actions

| code | actions |
|---|---|
| `proxy` | `ProxyPasses`, `ProxyRefreshes`, `ProxyRejects`, `RedirectToLogin` |
| `getServerAccessToken`, `getServerRpcClients`, the asset actions | `HandlePage`, `Handle`, `HandleAsset` |
| `loginAction`, `registerAction`, `logoutAction` | `SendLogin`, `HandleLogin`, `HandleLogout` |
| `requireGuest` | `SendGuest`, `GuestServed`, `GuestRedirected` |
| `RefreshToken`, `handleTheftDetected` of the auth service | `CheckRefuses`, `RefreshSucceeds`, `RefreshLosesRace`, `RefreshFails`, `DeleteDoomed` |
| cookie lifetimes; the network | `AccessRunsOut`, `RefreshRunsOut`; `Deliver`, `Lose` |

A pair of tokens is a login and a generation. An access token about to run out
and one whose cookie is gone are the same to the proxy.

### `JwksCache`: keys of the auth service in the web server

`AnswerFromCache` or `StartFetch` (with `Prune`), then `FetchAnswers` or
`FetchFails`, are `validateRefreshToken` around `refreshJwksCache`; `Withdraw` is
the auth service dropping a key, `Tick` the clock. Entries are dated with the
time the fetch *started*, as in the code. Names it would share with `WebSession`
are told apart (`KeysInit`, `KeysNext`, `KeysTypeOK`), so that one proof module,
`WebServerProofs`, extends both.

### `WorkspacePages`, `LibraryPages`: pages over the services

| code | actions |
|---|---|
| members page, invite dialog | `OpenMembers`, `GenerateInviteCode`, `OpenInviteDialog`, `CloseInviteDialog`, `ResetLink`, `CopyLink`, `InviteAnswered` |
| invite page | `OpenLink`, `AcceptLink`, `RejectLink`, `ChangeAnswered`, `RejectAnswered` |
| list of workspaces | `RefetchList`, `ListReadsView`, `ListReadsMembers`, `ListBackfills`, `ListAnswered`, `Invalidate` |
| picker of the sidebar | `OpenPicker`, `ClosePicker`, `TypeName`, `SelectWorkspace`, `PressEnter`, `PressCreateNew`, `FetchOptions` |
| library | `OpenTab`, `FetchShelf`, `OpenRow`, `CreatePaper` |
| answers | `PaperCreated`, `WorkspaceCreated`, `CreationFailed` |

A call outlives the page that made it: what its answer does, it does wherever the
user is by then. The query library is external and modelled from how the client
uses it: a mutation hook delivers the callbacks of its last call only, an
invalidated query is fetched again when somebody looks at it.

### `NoteBlocks`: polls, sticky notes, pictures

`SharedBlock` is a block in several pages: an edit replaces the block here and
sends it whole (`Put`), `Receive` takes one that arrives, `Renders` is React
rendering it later, and handlers see the props last rendered (`seen`). `PollBlock`
has `Vote`, `AddOption`, `DeleteOption`, `RetextOption`, `RetextQuestion`;
`StickyBlock` the pointer and text handlers and the effects that copy props into
the card; `PictureBlock` the upload (`StartUpload`, `PutObject`, `RegisterAsset`,
`Place`) and the two ways of fetching a picture (`Effect`, `ShownFetchAnswers`,
`LateFetchAnswers`; `Resolve`, `ResolveAnswers`). `Init` chooses the kind.

## 4. Runs

| run | instance | shows |
|---|---|---|
| `auth_safety` | 1 session, 2 goroutines, 3 generations, faults, restarts | `SingleRotation`, `EscalationNeedsRepeatedTheft`, `DeletedStaysDeleted`, refinement `RotationSpec` |
| `auth_progress` | the same without faults, fair | `CurrentPairExists`; `ReplayKillsSession`: a detected replay ends with the session row deleted |
| `room_safety` | 2 windows of one user, 2 rooms, 3 edits (deletions and legacy updates), channels of one place, stop, faults, crash | `OneRoomRuns`, `NoStrandedEdits`, `MembersInSync` |
| `room_progress` | 2 connections, 2 rooms, 2 edits (patches), identify and cursor frames, no faults, fair | `EditsAccountedFor`, `EditsAreLogged` |
| `board_room` | 2 windows, 2 rooms, send queues of one frame, 2 edits, 2 snapshots, faults, restart | `MembersFollow`, `QuietRoomIsStored` |
| `room_socket` | 6 connection tokens, 2 messages, fair | `OneConnection`, `ShownIsTrue`, `LostSocketReplaced`, refinement `LinkImplemented` |
| `note_view` | 2 blocks, 2 contents, 2 own edits, 1 of a peer, 2 visits, 2 connections | `BaselineAgrees`, `EditorFollowsBaseline` |
| `web_session` | 2 requests at once, 2 logins, 3 generations, faults, fair | `PairsSound`, `JarNeverGoesBack`, `NavigationSettles` |
| `jwks_cache` | 2 keys, 2 validations, interval 1, retention 2, fetches of up to 1, clock up to 4 | `WithdrawnKeysForgotten` |
| `workspace_pages` | owner and guest (who may be a member from the start), 2 links, 2 calls at once, 1 fault, 2 visits and refetches | `ClosedLinksStayClosed`, `ShownLinkWorks`, `OwnChangesListed` |
| `library_pages` | 1 workspace to start with, 3 creations, 1 name, 2 attempts, 1 fault, 3 moves of the user | `NotesFoundByTitle`, `CreatedNamesDiffer` |
| `note_blocks` | 2 pages, 2 users, 3 options, 2 pictures, 3 edits | `SharedBlocksSound`, `PageTellsBlock` |

Every safety run also checks the type invariant of its module, and every property
has a mutant: a plausible bug in one definition that makes the run fail.

Why the bounds are enough to be interesting. Two goroutines, validations,
windows, requests or calls give every pairwise race; two rooms are an old and a
new room of the same note or board, so flushes and timers of the old one meet the
new one. With a flush threshold of two, three edits reach the structural flush,
the threshold flush and the debounced one and leave an edit behind. Channels and
queues of one place are full after one message. Six connection tokens allow a
visit, a lost socket, its retry, and a second visit that supersedes a retry.
Three generations let a superseded pair and its successor both exist. A retention
of two over an interval of one and slow fetches put a fetch, a withdrawal and a
validation in every order. Three creations of one name let two race while the
compensation of a third frees the name. Counters that only bound an instance
(`moves`, `visits`, `sent`, `edits`, …) are guards, and every one is named at its
CONSTANT.

`CHECK_DEADLOCK FALSE` stands in every configuration: the bounds run out, and a
system without clients rests. `Symmetry` is used where the elements permuted are
told apart by nothing, and never in a run with a liveness property (`EditorFollowsBaseline`,
`DeletedStaysDeleted` and `RotationSpec` are safety properties). In `NoteRoom` the two `CHOOSE`
defaults (the room of a connection that has none, the block of a private frame)
are never read.

### Fairness

* `auth_progress`: weak fairness of each goroutine's own steps. The Go scheduler
  runs every runnable goroutine, and database calls end by an answer or a
  timeout; nothing is assumed of clients, expiry, eviction.
* `room_progress`: weak fairness of the loop, of timers and of database calls;
  strong fairness for the join of a given connection, since Go's select chooses
  uniformly among ready channels. Nothing is assumed of browsers.
* `room_socket`: weak fairness of timers that are set, of ticket requests (which
  are answered or fail) and of connecting sockets (which open or fail). Nothing
  is assumed of open sockets, pages or the network.
* `web_session`: weak fairness of each request's next step in the server and of
  its answer. Nothing is assumed of the user or of cookie lifetimes.

## 5. Proofs

The theorems hold for every set of sessions, goroutines, connections, rooms,
blocks, pages, poll options, assets, keys, calls, workspaces, names, users, links
and requests and every value of the bounds, under the named assumptions on the
constants (non-empty sets, a finite set of at least two poll options, natural
numbers, names of different kinds that differ). Two say what holds while nothing
fails and have that as a hypothesis: `CurrentPairCorrect` (no database call fails,
the process stays up: `~Faulty`) and `EditsAccountedForCorrect` (`~Faulty`, and no
shutdown: `~Stops`); both are checked by the runs with these settings. An
invariant is seldom inductive; what each needed besides itself:

* **Type correctness** (`TypeCorrect` of `AuthSessionsProofs`, `NoteRoomProofs`,
  `BoardRoomProofs`, `LibraryPagesProofs`, `NoteBlocksProofs`, `RoomClientProofs`,
  `WorkspacePagesProofs` and `WebServerProofs`; `KeysTypeCorrect` for `JwksCache`,
  `ViewTypeCorrect` for `NoteView`), one step per action. In `AuthSessions` it includes that a refreshing goroutine works on a generation below the bound.
* **`SingleRotationCorrect`**: `RightsInv` adds that the right to hand out a pair
  is held by at most one goroutine, is not yet used, and that a used or held
  generation is one the row has reached, so the LWT can grant it only once.
  `DeletedStaysDeletedCorrect` follows from the same invariant.
* **`CurrentPairCorrect`**: beside the types and `RightsInv` it is inductive by
  itself. A step keeps every right or moves one (`RightsStay`), so a session keeps
  its pair (`PairKept`) unless the step is the LWT, which makes the goroutine that
  won it owe the new one (`PairEarned`), or an answer, which hands out what was
  owed (`PairHandedOut`). It is here that failures matter: an answer lost after
  the LWT leaves the session with no pair of its current generation.
* **`NothingAheadOfRowCorrect`**: `BehindInv` says of every cache entry, token and
  goroutine in flight that its generation is one the session has reached; it
  covers the goroutines because fills come late.
* **`EscalationCorrect`**: `EscalationInv` bounds the counter plus the goroutines
  that were counted as detected and have not counted yet by the replays detected;
  read and write of the counter are separate steps.
* **`RotationImplemented`**: each action of
  `AuthSessions` leaves row and pairs alone or can only lose rights (`Lose` or a
  stutter), earns one (`Open`, `Rotate`), hands out the one it held (`Deliver`,
  where `RightsInv` says nobody else holds it) or deletes a row (`Kill`).
* **`OneRoomRunsCorrect`**: `LoopInv` ties each room object's status to the map,
  its loop, its flights and its frame in hand.
* **`NoStrandedEditsCorrect`**: `TimerInv` adds that a set `flushTimer` has an
  armed timer behind it, so that `Reset` is enough.
* **`MembersInSyncCorrect`**: `SyncInv` adds that the author of a frame in the
  channel or in the loop's hand has seen its edit.
* **`EditsAccountedForCorrect`**: `AccountInv` is about every value that can become
  the value of a room, the stored state and the snapshots of flushes in flight
  included: what it holds is in the log or in a batch about to be written, or, for
  the value of a running room, in that room's own buffer. A room about to close,
  or with its final flush in hand, has nothing left there.
* **`MembersFollowCorrect`**: `FollowInv` adds that the page of a member is there and
  loads nothing before its editor is. A step that tells a page nothing and shows
  it nothing new keeps it following; one lemma for each way a page is told.
* **`QuietRoomIsStoredCorrect`** is about three parties that share nothing but time.
  `ClockInv`: every flush has a time of its own, and the newest row of
  `board_ops_hot` is not that of a flush which has yet to append. `RoomInv`: a room
  has its timer set exactly while it is dirty. `StoredInv`: of a room hydrated when
  all was stored, only the current one can be dirty, and while it is not, its
  document is the one hydrate will find (`Found`) or the newest flush is about to
  append it (`Coming`).
* **`SharedBlocksSoundCorrect`, `PageTellsBlockCorrect`**: `BlocksInv`. The values
  that satisfy a property of the block are closed under what a page writes,
  receives and renders, so all copies keep to them (`PollsSound`,
  `PicturesSound`); handlers still work with the props of an earlier render, which
  is why this is shown of those too. For pictures the property moves with the
  store: a name is `Good` when it is stored and registered, an upload says only
  what it has done (`UploadsProceed`). A card follows the props its page rendered
  last (`CardsFollow`); a frame shows what the fetch it awaits is about, which is
  the key rendered, or has an excuse (`FetchInv`).
* **`WithdrawnKeysForgottenCorrect`**: `ForgetInv` is about every place a belief
  can hide. `CacheInv`: an entry of a key that is gone was observed before it
  went; `CallInv`: the same of the set a fetch in flight will bring, of the
  entry a validation remembers having had, and of every entry still cached when
  it began, which its pruning has left no older than the retention.
* **`CreatedNamesDifferCorrect`, `NotesFoundByTitleCorrect`**: `CatalogueInv` says
  where a call of each kind may be (`CallShape`), that only calls that got that
  far left rows (`TablesShape`), that a workspace being created or created owns
  its name (`NameKept`), that a title's entry belongs to a call with that title
  (`TitleOwned`) which keeps it for good once it passed the reservation
  (`TitleKept`), and that it passed the access check (`AccessChecked`). `Kept`
  is what no statement takes away from the pages; `RouteSound` and `ShelfSound`
  carry it to the address and to the rows a user can click.
* **`OneConnectionCorrect`, `ShownIsTrueCorrect`, `LinkImplementedCorrect`**:
  `SocketInv` adds to `OneConnection` that tokens beyond the current one are
  unused, that the attempt handed out still waits for its ticket
  (`PendingWaits`), that a retry is set only for a socket that closed
  (`RetryOfClosed`), and that whoever awaits an attempt drew its own token
  earlier (`WaitersAreOlder`), so a rejection reschedules nobody. `RoomState`
  changes only where the page is told, which gives `ShownIsTrue`; mounting,
  leaving, sending, the open event and the close of the live socket are the
  steps of `RoomLink`, all others stutter.
* **`BaselineAgreesCorrect`**: `AgreeInv` says of a page that was not greeted yet,
  too, what `BaselineAgrees` says of the others, and what a patch needs that finds
  no baseline. `WireInv`: the greeting is the first frame of a connection, and
  nothing waits in the send queue while one is up. `BlankInv`: as long as a room
  never had a value only blank greetings reach the page, and what its baseline has
  is on its way to the room or contested. `ToCome` speaks of the last message that
  brings a block instead of folding the queue, so what happens when a frame is
  taken from one end or put at the other is a lemma without induction
  (`FirstComes`, `LastComes`). The one loop, the replay of the held messages
  (`Drain`), is followed message by message: had it an iteration that breaks what
  it keeps, it would have a first one (`Least`, by the well-foundedness of `Nat`),
  and that one's predecessor refutes it (`DrainInduction`).
  **`EditorFollowsCorrect`** needs the types and the same lemma on `Drain`.
* **`ClosedLinksStayClosedCorrect`**: `LinksInv` says of every call that one sent
  after its link closed knows a closed link, that an accept which found its link
  open was not late (`RecordSound`), and that a closed link is never open again
  nor made anew (`ClosedRows`).
* **`ShownLinkWorksCorrect`**: `InvitesInv` adds that an invite resets only links
  its user made and that the link it made works while the user's invites do not
  overlap (`InviteSound`), that links are listed when they are made
  (`ListedMade`), and the same of the link shown (`ShownSound`).
* **`OwnChangesListedCorrect`**: `ListInv`, a request for the list that is under
  way was sent after the user's latest change.
* **`PairsSoundCorrect`, `JarNeverGoesBackCorrect`**: `SessionInv` adds that no
  pair is ahead of the row of its session (`PairsKnown`), that whoever asks for a
  refresh presents a pair (`PresentsPair`), and that an answer carrying a pair is
  the only one of its login and newer than what the jar and every other request
  hold (`CarrierAlone`). Every server step then brings nothing new, earns the
  next pair or opens a session; one lemma for each.

Only model-checked: liveness and the properties that need fairness
(`ReplayKillsSession`, `EditsAreLogged`, `LostSocketReplaced`,
`NavigationSettles`), which are out of the prover's reach. Every invariant and
every action property a run checks, and both refinements, are theorems.

## 6. What the models show the code does otherwise

Found while translating; each can be followed in the module named. The properties
above are stated so that they hold of the code as it is, with these exceptions
visible in them.

`AuthSessions`, against `AUTH_TOKEN_MECHANISM.md`:

* a ValidateToken that read the row before a rotation fills the cache after it:
  the next honest refresh is answered as a replay and the session is killed
  (:178, :274);
* after LogoutAllDevices a warm cache entry still admits, and lets rotate, the
  pairs handed out before (:240-246); two bumps that both read before either
  writes lose one; once the revocation row has expired, the next bump writes 1
  again (`RevocationExpires`);
* the refresh path never looks at `expires_at` (:155-157); `Logout` leaves the
  row, so the refresh token it was given still rotates.

`NoteRoom` (`services/notes/internal/realtime/hub.go`):

* edits not yet logged exceed the threshold while a timer flush is writing
  (:454); overlapping flushes may leave the older snapshot in `yjs_state` (:620,
  :641); edits merged after the shutdown flush are gone at exit (:204);
* a join may reach a room whose loop has returned: no init message, no broadcast
  (:606); a leave may be taken before the join of the same connection;
* a room that could not read the snapshot starts empty and its first flush
  replaces the stored document (`HydrateFails`); a slow drop is never announced.

`BoardRoom`:

* the last leave closes the room without a flush (:182 of its `hub.go`), so the
  next room may start from the older document while the old timer is armed;
* a drawing begun before the init message came is sent as the whole board;
  concurrent drawings replace each other; the fan-out goes by user, so a second
  window of the same user gets nothing; edits of the last 200 ms are lost when
  the page closes; a failed append drops its batch; clients supply the clocks
  that hydration orders operations by (:227).

`RoomSocket` (`web/lib/board-socket-manager.ts`):

* a retry whose ticket fails is never rescheduled (:53, :58-61), and the backoff
  never grows (:55); a socket closed with 1000 is not reconnected;
* `disconnectRoom` returns early when the room has no entry (:170): the retry of
  a page that left connects again, its queue stays, and a page that then mounts
  on the open socket gets no init message;
* the error listener does not compare tokens (:140).

`NoteView` (`web/modules/notes/components/note-view.tsx`):

* local edits within 50 ms of a remote change are taken for its echo and not sent
  (:475, against the comments at :30 and :240), nor is an undo to the last remote
  document (:478);
* patches that meet an empty baseline are never replayed (:321); a remote
  document without blocks is not shown (:175); a blank init does not reset the
  baseline (:307); edits made offline are reverted by the init of the next
  connection.

`WebSession`:

* the proxy drops the cookies on any failed refresh, transient ones too
  (`web/proxy.ts:48-50`, :67-70, against `server-access-token.ts:15-17`);
* when the answer that carries a rotated pair is lost, the browser replays the old
  token and the session is killed; asset actions rotate the pair at every call; a
  refresh in flight during a logout sets the cookies again.

`JwksCache`: a slow fetch dates the cache back, and `server-jwt.ts` sets no time
limit on its fetch.

`WorkspacePages` (`services/workspace/internal/service/workspace_service.go`):

* two accepts that read a link before either marked it both join; accepting
  overwrites the role of a member (:586); an UPDATE after a DELETE leaves a stub
  row; `accepted_at` never reaches the table by workspace;
* opening the dialog again while a call is pending sends a second one, and a reset
  that failed leaves a dead link on the screen (`workspace-members-view.tsx:111`);
* a leave or accept next to the backfill of ListMyWorkspaces leaves a phantom
  entry (:197-221).

`Catalogue`, `LibraryPages`:

* a failing insert of the member leaves the name of the workspace reserved
  (:88-96); a reservation whose answer is lost is owned by nobody
  (`notes_service.go:76`); a failing write to `notes_by_id` is only logged (:111);
* titles of whiteboards overwrite each other (`whiteboard_service.go:70`); a
  title in two workspaces opens the wrong note (`notes_service.go:354`);
* the "create" row of the picker goes to `/workspace/<typed name>`
  (`combobox.tsx:252`); Enter twice creates twice
  (`dashboard-sidebar.tsx:209`); the answer of a creation takes the user away from
  wherever they are.

`NoteBlocks`: of concurrent votes the last writer wins; `pointercancel` never ends
a drag; a concurrent edit brings a deleted block back; the renderer of pictures
returns early (`asset-image-renderer.tsx:52`) with the wrong picture or a
placeholder, and keeps the old picture when a fetch fails.

## 7. Not modelled

* **WebSocket tickets and their limiter**: a read and one conditional delete; the
  database decides which redeemer wins. `RoomSocket` has what the browser sees.
* **Signing keys of the Go services** (rotation, store, Go consumers): governed
  by wall-clock times; the web server's consumer is modelled (`JwksCache`).
* **User registration**: one conditional insert and its compensation, the
  pattern of workspace names.
* **UpdateWorkspace, DeleteWorkspace** (the client never calls them; the code
  renames without touching `workspace_names`, against the comment at
  `workspace_service.go:52`, and deletes by columns outside the key), role
  changes and removal of others, invitations by e-mail, the list of a manager.
* **Presence and cursors** of a note page; **acknowledgements** of the whiteboard
  hub, which no page reads, and the read pump that blocks on the unbuffered leave
  channel.
* **Token formats, password hashing, RPC servers, interceptors, the S3 client,
  the other React views, start-up, configuration, migrations, generated code**:
  stateless, pure I/O, or without a protocol between steps.
* Time is abstract everywhere but in `JwksCache`; signatures, passwords and
  one-time tickets are assumed to work; several processes of one service at once
  are not considered.
