# TLA+ verification of baserust

baserust is a Rust backend (axum, sqlx/Postgres, NATS JetStream). Users and sessions live in the
external `idm` crate, files in the external `content` crate; this repository holds the HTTP
features around them and an event pipeline that feeds two read models: the admin user search and
the authentication audit. All paths below are relative to the repository, `src/...` being its Rust
sources.

## 1. Inventory

| component | state | operations | hard behaviour | what makes it correct |
|---|---|---|---|---|
| Transactional outbox (`infra/outbox.rs`, `infra/jetstream.rs`, `features/profile/repo/outbox.rs`) | `outbox` table per schema, relay round (polled rows, acknowledged ids), JetStream stream and dedup window | upsert + `emit_outbox` in a transaction, `poll_once` (poll, publish, mark) | ids visible out of order, several relays, lost acks, crashes between publish and mark | nothing lost, per-aggregate order, bounded duplication |
| Search projector (`features/search/projector.rs`, `search/repo`) | durable consumer, prefetched messages, retry count, `admin_user_index` with two watermarks | five guarded upserts, in-place retry, give-up, ack | redelivery out of order, restarts in a retry, poison | rows are folds of the log; ack implies projected; no regress; no blocking |
| Rebuild (`features/search/rebuild.rs`, `bin/rebuild_search.rs`) | two watermarks, keyset cursor, page | lock + `max(id)`, list users, names, `rebuild_upsert` | runs beside writers and the projector; partial runs | watermark never claims what the row lacks; heals drift; misses nobody |
| Auth audit (`features/auth_audit`) | durable consumer, `auth_event` table, broadcast bus per instance, SSE clients | idempotent insert, push, ack, 90-day delete | redelivery to another instance, insert that commits and fails, lag, reconnect | one row per event, one frame per event, none lost |
| Users administration (`features/users`) | user, roles and sessions (idm), roles in access tokens | create, update, delete, set roles, reset password | guards read, later calls write; tokens age; handlers are dropped between two calls | nobody acts beyond his token's reach, an administrator remains, a reset ends sessions |
| Authentication (`features/auth`) | sessions (idm), access tokens, cookies, audit events | register, login, refresh, logout, logout of all, delete, change password, admin login, `/me` | two refreshes with one token, fail-closed admin login, tokens kept after a revocation, answers that get lost | no session without `admin:login` behind the admin door; the audit trail is true; a revocation bites |
| Authorization (`infra/authz.rs`, `app/policy_repo.rs`) | tables `permissions` and `role_permissions`, the policy each process loaded from them | implication, gates (role and scope, all, any, admin group), row ownership; seeding and loading at every start | edits of the tables between starts, binaries that know different permissions | what is enforced is the table; a gate lets through whoever passes a stronger one |
| Start-up seeding (`app/seed.rs`, `bin/seed.rs`, `AppState::new`) | accounts, their roles and profiles (idm and app tables) | find or create an account, complete its roles, create its profile | several processes at once, crashes in the middle, reads before writes while administrators and users change the same rows | accounts complete after it; nothing of theirs overwritten; every process comes up |
| Widgets (`features/widget`) | widget rows, event bus, SSE streams | create, update, delete, stream, lists and counts | publication after the write, guards before it, lagging streams | frames tell of real writes; stream, list and write have one reach, but for the list of the back office |
| Pagination (`infra/pagination.rs`, `infra/sort.rs`, the repositories) | the client's cursor or page number | keyset and offset pages, two orders, two keys | rows appear, move and go between pages, the anchor too | a row that stays is delivered once |
| Profiles (`features/profile`) | profile rows | put, an administrator's put, avatar upload and binding | the avatar is probed before the write; upload and binding are in two schemas | only a person's own picture becomes an avatar; no orphans |
| Content (`features/content`, `infra/objectstore.rs`) | content rows, metadata, bucket, signed URLs | create, upload, presigned upload, confirm, describe, delete, download, preview | URLs outlive the judgement they were issued on; metadata are replaced as a whole | nothing that can run scripts is shown inline; bytes reach who may read them |
| Runtime (`app/runtime.rs`, `app/state.rs`, `app/router.rs`) | spawned tasks, shutdown watch | start, drain, stop | drain timeout, tasks not joined | bounded shutdown |
| Mock data, HTTP plumbing, configuration | none that a protocol depends on | formatting, parsing, I/O | - | - |

Data flow: a write transaction puts an event into its schema's outbox (**Outbox**); the relays of
all processes publish it to one stream; two durable consumers read the stream, the search projector
(**SearchProjector**, applying the upserts of **SearchIndex**) and the audit projector
(**AuthAudit**). **Rebuild** overwrites the search rows from the source tables. The watermark of a
search row is the `seq` = outbox id of the last event applied, so the order promised by the outbox
is what the projector relies on; **Pipeline** puts the two together. The events of **AuthSession** are what AuthAudit stores. The gates
of **Authz** stand before the endpoints of **UserAdmin**, **Widget** and **Library**, and
**Bootstrap** builds the policy they ask. `PROJECT.json` lists all components and the hazards of the
code, each with the properties that would catch it.

## 2. Modules

* `EventLog` is the abstract promise of the outbox: an append-only log in which an event is
  preceded by all older events of its aggregate; repetitions and other interleavings are free.
* `Outbox` is the detailed system. `open` holds rows inserted by open transactions; `Begin` draws
  the bigserial id while it holds the aggregate's row lock (the `profiles` upsert precedes
  `emit_outbox`), `Commit` makes the row visible. A relay goes `sleep -> publish -> mark`:
  `Poll`, `PublishAcked`/`PublishFailed`/`PublishAckLost` (one item of the loop in `poll_once`),
  `MarkPublished`/`MarkFailed`. `Crash` kills it at any await. `Store` and `Expire` are the
  broker's `Nats-Msg-Id` window.
* `SearchIndex` is pure: an index row, the watermark guard and the five upserts. A column's value is
  the seq of the event whose payload it holds, which is all the properties tell apart.
* `SearchProjector` composes the event log with the consumer and workers. `Emit` produces any log
  that `EventLog` allows per user and schema; `Deliver`, `Redeliver` and `RedeliverEarly` are the
  server; `ApplyOk`, `ApplyFails` (which may have committed), `GiveUp`, `Ack`, `AckLost` are one
  pass of `run`; `Restart` is shutdown or crash.
* `Pipeline` composes `Outbox` and `SearchProjector`: the stream of the app schema's relays is the app part
  of the projector's log. `Feed` is a step of the outbox that stores a message, a new one or a repeated one; `Prepare`
  is any other step of it; `FeedIdm` is the relay of the idm schema, whose table is not in this
  repository and is taken from `Emit`; `Consume` is a step of the consumer. To share one state space
  `Outbox` names its specification `OutboxInit`, `OutboxNext`, `OutboxSpec`, `OutboxFairSpec`, its invariant
  `OutboxTypeOK`. `Composed` says how the constants fit: profiles belong to users, ids fit the bound of the
  projector, and `profile.updated` is published.
* `Rebuild` runs the CLI next to writers and a projector: `ReadFloorIdm`, `ReadFloorApp` (the table
  lock waits for inserts in flight), `ReadPage`, `ReadNames`, `Upsert`, `Abort`. A page is the first
  rows behind the cursor of any listing by `created_at` (`Listings`: the clocks of the writers need
  not agree with the ids). The history variables `skipped` (given up) and `undone` (projected, then
  overwritten by an older snapshot) exempt what the code reports or is known to do wrong; see
  finding B.
* `AuthAudit` has any number of instances, each with a projector on the shared consumer and a bus of
  its own; `ApplyNew`/`ApplyRepeated`/`ApplyOther`/`ApplyFails`, `Push`, `Ack`/`AckLost`, `Crash`,
  `Retain` (the 90-day delete, longer than the stream's `max_age`, modelled by `Gone`) and SSE clients
  with `Subscribe` and `Receive` (a lagging client skips to the oldest kept frame).
* `UserAdmin` has one record per running handler. A request is accepted by the admin group's gate and
  the endpoint's (`Administers`) and by the guards of `routes.rs` that need only the token and the request
  (`CreateUser`, `SetUserRoles`, `OtherRequest`), and then goes
  from await to await: `Guard` (the target's roles, `target_role_names`), `Find` and `Check` (the start
  of `set_roles` and `reset_password` in `service.rs`), one `Write...` per endpoint, `Revoke`; `Abandon`
  is an error or a dropped handler at any of them. `Login`, `Refresh` and `DeleteMe` change what the
  guards rely on: a token carries the roles of the moment it was signed. Each call of the idm crate is
  one step, so its login verifies the password and opens the session in one. Left out: scopes of
  restricted tokens (they only narrow), expiry (it only stops a token's owner) and the reads.
* `AuthSession` has browsers with two cookies (`jar`) that keep every access token they were given
  (`held`: a Bearer client, or a thief). One record per running handler, which goes from await to
  await: `call` (`Register`, `Login`, `Refresh`, `Logout`, `RevokeAll`, `Me`, or `CallFails`), for
  `admin_login` `gate` (`GatePasses`/`GateDenies`), `close` and `deny`, then `emit` (`Emit`/`EmitFails`)
  and `respond`; `Abort` is a dropped handler or a lost answer at any of them. `Identities` is
  `authenticate`: the cookie first, then Bearer, and no look at the session. A session is its number and
  remembers the door it came through and the sign-in its chain of refreshes began with. `Tick` is the
  clock. The history `cut` is the last revocation of all sessions of a user; `unaudited`, `denied` and
  `refused` say what happened to a session's audit event and its `admin_login`. `events` holds every event
  the handlers write: those of `SessionEvents` name the session they opened or ended, those of `OtherEvents` name
  none (`logout_all`, `delete_me` and `change_password`, wrong credentials by `LoginFails`, and the refusal of
  `admin_login`, the last two written by `Deny`).
* `Authz` is pure: implication, the policy of a table, the gate for one permission, for all or any of
  several, the admin group's, and row ownership (`DataAccess`, `Allows`). A policy is a function from
  the roles that have an entry; the empty scope is no restriction, as in `require_scoped`.
* `Bootstrap` composes `Authz` with the tables and any number of starting processes. `Plan[i]` is the
  order in which process i goes through the phases (`AppState::new` of the different mounts,
  `bin/seed.rs`); `left[i]` is what the phase still has to write and `job[i]` the account it is in the
  middle of. One action is one statement: `SeedPerm`, `SeedRow`, `Load`/`LoadFails`, `FindAccount`,
  `CreateAccount` (with the conflict), `ReadRoles` and `SetUnion`, `ReadProfile` and `WriteProfile`.
  `Restart` is a deployment, a crash or an error. `Revoke`/`Grant` (an operator's SQL: the program has no
  endpoint for it), `Assign` and `PutProfile` are the others; the history
  `revoked` remembers the rows an operator has deleted. The code writes the items of a phase in
  list order; any order is allowed here. Left out: the upsert of the roles
  themselves (the closed set, before anything refers to them), the refusal of an account with a role
  outside it, passwords, and the deletion of accounts.
* `Widget` composes `Authz` with the table, the bus and the lists. A write goes `guard` (the row as the
  guard read it), for a delete `read` (the owner for the frame), `write` (404, 409 or the row), `publish`;
  `Abort` is a dropped handler. `Publish` reaches the open streams or fewer of them (a failing
  publication through Postgres or NATS is a warning) and drops the oldest frame of a queue longer than `Capacity`. A client
  has a stream (`Subscribe`, `Send`, `EndStream`) or a walk: `Start`, then `CursorPage` with `ReadAnchor`
  between the pages of an order by name, or `OffsetPage` with `Total`; the count and stats endpoints are
  a page whose rows are thrown away. A walk keeps the token it was asked with; its filter was taken from it
  when it started, as each page does in the code, so that `SameReach` can hold the rows a client got against what
  the token may reach, and not against the filter. The histories `steady`, `quiet` and `drift` of a walk say what
  changed meanwhile; `past` are the names a row has had.
* `Library` composes `Authz` with contents and profiles. A content is one record: row, metadata, the
  types signed PUT URLs still accept (`put`) and the type of the object in the bucket; `links` are the signed
  GET URLs. A route is accepted with its gate on the row (`Guarded`), as one that makes a content
  (`Making`), or as one that binds an avatar (`Bind`, `SetUserAvatar`); its later calls are steps: `Judge` and
  `JudgeAvatar` read the type before `Download`/`Preview` sign, `ReadMime` precedes `WriteMetadata`,
  `Probe` precedes `Upsert`, and `Cleanup` takes back what `UploadPicture` put. `MimeUnread`, `BindFails`,
  `UpsertUnanswered`, `CleanupFails` and `Abort` are the failures. `PutBytes` is a browser with a
  signed URL, as often as it likes until `PutExpires`. The histories `bound` and `loose` account for
  uploaded pictures.
* `MC*` modules add TLC symmetry sets and definitions for constants. `*_proofs` hold the theorems.

Definitions named as mutants in comments are plausible bugs of the code; no specification uses them.

## 3. Runs

| run | shows | bounds, and why they suffice |
|---|---|---|
| `Outbox` | `PublishedIsStored`, `AggregateOrder`, `DuplicatesNeedExpiry`, refinements `ImplementsLog` and, with fairness, `ImplementsFairLog` | 2 relays, so that rounds overlap; 2 aggregates, so that ids become visible out of order; batches of 2, shorter than the backlog of 3; one crash, one expired id |
| `SearchProjector` | `OrderedIndexAgrees`, `AckedIsProjected`, `NeverBackwards`, `EveryMessageAcked` | one worker that prefetches two, one attempt (every failure is a give-up), three messages, and one each of a repeat, a lost ack, an early redelivery and a restart. Order is promised for one worker that is not restarted; the restart makes the other three properties meet any order |
| `SearchProjector_shutdown` (violation) | `DrainedIndexAgrees` fails: finding A | one restart suffices |
| `Rebuild` | `TypeOK`, `WatermarkHonest`, `RebuildHeals`, `PagesComplete` | two users: another user's lower id can be in flight when the watermark is read, and pages of one row make the second page start behind the first user; one skip, one repeat |
| `Rebuild_race` (violation) | `ConvergesWithoutLoss` fails: finding B | one run, one user |
| `UserAdmin` | `ResetEndsSessions`, `WithinReach`, `LastAdminStays`, `HiddenRolesKept` | a superadmin, a manager without one of the permissions and a later account; two handlers at a time, three in all, so that a change can come between the steps of another and after both; a role outside the closed set that grants the missing permission |
| `UserAdmin_strip` (violation) | `NoSilentStrip` fails: finding D | the same |
| `AuthAudit` | `StoredOnce`, `AckedIsStored`, `FramesSeenOnce`, `EveryEventStored` | two instances, two messages (one event published twice, or two events, to be stored or ignored), channel capacity 1 so that a client lags after two frames |
| `AuthSession` | `TypeOK`, `DeniedLeavesNothing`, `AuditTruthful`, `RevocationBites` | one user whose browser has two requests at a time and four in all: a chain of two sessions, a revocation and a request after it; a token lives one tick, two ticks pass (2.7 million states, the largest run). TLC's `VIEW` takes states for the same that differ only in events which rightly name no session: no step reads the events and no property asks for one of these, while one that named a session, or lacked its own, would stay in view |
| `Widget` | `TypeOK`, `FramesTruthful`, `SameReach`, `ScanComplete` | three rows of a user and of nobody, pages of one, so that there is a row before, at and behind the anchor; a user, an administrator and a narrowed token of his (reading and deleting, his own rows only); two writes by two handlers, a queue of one frame |
| `Library` | `TypeOK`, `InlineSafe`, `BytesReach`, `PicturesAccounted`, `MimeKept` | two users, one an administrator; a picture or an undeclared upload that can run scripts to start with and one more content; two handlers and three requests, so that one changes what another has judged |
| `Bootstrap` | `PolicyCurrent`, `AllImpliesOwn`, `AccountsComplete`, `SeedingTakesNoRole`, `ProfilesKept`, `EventuallyServes` | a new and an older binary, which differ in one permission, both with all phases; one operator's edit of the table, before or after the binaries' starts, so that a deleted default row meets both a running process and a new start; one account is enough, because no step looks at two; one restart, one edit of each kind, so that each fits between any two statements of both |

The type invariants of Outbox, SearchProjector, AuthAudit, UserAdmin and Bootstrap are not in a run: they are
proved. `Pipeline` has no run either: its two halves are run on their own, and how they fit together is
proved (section 4). Deadlock is not checked: with all bounds used up and nothing to deliver the systems rest.

### Fairness

* Outbox: weak fairness of `Poll` (the loop wakes up after every interval) and strong fairness of a
  successful publish and mark: broker and database fail any number of times but not for ever.
* SearchProjector: weak fairness of delivery and of a worker's next step. No success is assumed:
  the attempt limit is what guarantees progress.
* AuthAudit: strong fairness of the delivery of each message and of a successful insert: there is
  no attempt limit, so success must be assumed. The projector's other steps, the ack among them, are
  weakly fair; acks may be lost for ever.
* Bootstrap: weak fairness of the next step of each process, which includes the new start after a failed
  load (the supervisor's). Restarts and edits are bounded: a process that is killed for ever does not
  serve. An older binary that cannot read the table may restart for ever; `EventuallyServes` promises
  nothing for it.
* Rebuild, UserAdmin, AuthSession, Widget and Library state safety only: their handlers may be dropped
  at any await, and nothing in the code tries again.

### Findings

* **A** (`SearchProjector_shutdown`): leaving a message to redelivery at shutdown
  (`search/projector.rs:197`) breaks the order the retry loop protects; a newer event of the user
  overtakes it and its fields are lost, the case the comment at 158-160 excludes.
* **B** (`Rebuild_race`): "read P first, then the data" (`rebuild.rs:34-35`) does not suffice, because
  the unguarded `rebuild_upsert` can follow the projection of an event above P.
* **D** (`UserAdmin_strip`): `set_roles` (`users/service.rs:270-283`) checks which roles outside the
  closed set would be lost and replaces them in another call; a role granted in between goes without the
  409 the comment at 268-269 promises. `HiddenRolesKept` states what does hold.

Observed while modelling, without a run of its own:

* `seed_authz` (`app/policy_repo.rs:44-57`) inserts the missing default rows at every start, so a
  default permission that an operator revoked by deleting its row comes back with the next start of any
  process, although `state.rs:251-252` and `policy_repo.rs:31` say that run-time edits are not overridden.
  `infra/authz.rs:237` says it too. Added rows do stay. Whether "not overridden" was meant to cover deletions is not
  for a model to decide: `PolicyCurrent` asks of a row an operator has deleted neither that it returns nor that it
  stays away, and the history `revoked` says which rows these are.
* `infra/pagination.rs:1` calls cursors stable under concurrent writes. Ordered by name that needs an
  anchor that is not renamed: its key is read anew for the next page (`widget/repo/postgres.rs`), and rows
  between the old and the new name are skipped or repeated. `ScanComplete` exempts that (`drift`).
* The cleanup of `set_user_avatar` runs after an upsert that failed, which the comment takes to mean that
  nothing refers to the content (`profile/routes.rs:304`). An upsert that committed and was not answered
  has bound it already: the profile then names a deleted content (it degrades to no picture).
* `set_user_avatar` writes back the names it read before (`profile/routes.rs:306`): a change of the
  profile in between is lost.
* The comment at `infra/objectstore.rs:91-93` is older than the code below it.
* The guard of `set_roles` against oneself keeps `users:admin` but not `admin:login`; with an edited
  policy an administrator can lock himself out of the admin group.
* The comment on `reset_password` (`users/service.rs:307`, and `routes.rs:312`) calls the
  revocation best effort; the code and the comment inside (320-321) make its failure an error.
* The header of `rebuild.rs` (4-6) promises a sweep of the rows outside the snapshot; the function does
  not do it, and its own comment (39-51) says why.
* Two comments of `app/seed.rs` hold only without interference, and the
  properties of `Bootstrap` state what is left: seeding is additive (94-95) except for a role granted
  between the read and the write of `ensure_roles_with_event` (`SeedingTakesNoRole`); an existing profile is
  never overwritten (220) except for one written between the `get` and the `upsert` of `apply_profiles`
  (`ProfilesKept`).

## 4. Proofs

All theorems hold for every value of the constants that meets the named assumptions, checked by
tlapm with Z3, Zenon and LS4. Each module has its inductive invariant, one lemma or step per action.

* `Pipeline_proofs`, first part, about `Outbox` alone: the inductive invariant adds to the types that open and committed rows have
  distinct drawn ids, that one aggregate has at most one open row and that its committed ids are
  below the open one; that what a relay has acknowledged is in the stream and that everything older
  of the same aggregate than a polled row is polled before it, or is stored already; and that the
  window plus the expired ids account for every entry of the stream. `StreamIsOrdered`, `NothingIsLost`,
  `RetriesAreDeduplicated` follow; `OutboxImplementsLog` proves that every step is a `Write`, a
  `Deliver` or a stutter of `EventLog`, using the order of open rows (the row lock) for `Write` and
  the relay part for `Deliver`.

* `Pipeline_proofs`, second part, about `SearchProjector` alone: `AcknowledgedIsProjected` rests on `RInv`: a message in the ack phase or
  acknowledged is covered by its row's watermark or skipped; it needs that watermarks never fall.
  `IndexNeverBackwards` needs that every column is at most its schema's watermark and that a deleted
  row is past its creation, which holds however messages are reordered. `RowsAgreeInOrder` is about order:
  the log holds each source's events first in id order; as long as there is one worker and no restart,
  its buffer holds every delivered message that is not settled, in order; so the event it works on finds a row that has
  all its elders, and the guarded upsert extends the fold. It assumes that `Workers` is finite.

* `Pipeline_proofs`, last part, about the chain, for constants that meet `Composed`: every step of the chain is a
  step of the outbox or leaves it alone (`ChainRunsOutbox`), so its invariants hold here too. `LogIsStream` ties
  the two states together: the profile events of the log are the rows in the stream, no more and no
  less. With it a message that is stored for the first time has a newer id than any other of its user in
  the log (`AggregateOrder`, distinct ids), and one that is stored again is in the log, so each step is
  one the projector's specification allows: `OutboxFeedsProjector` is that refinement, and with it
  everything proved of `SearchProjector` holds of the chain. What `Emit` assumes of the app schema is thereby
  discharged. Three properties that relate both ends follow: `NothingUncommittedShows`,
  `PublishedProfilesReachIndex` (no link loses a published profile) and `IndexShowsNewest` (at rest, one
  worker without restart or give-up, the index shows the newest committed profile of every user).

* `Rebuild_proofs`: events of one user and schema commit in the order of their ids, and a user is
  created before it is deleted. A watermark read behind the lock is one of the past: every committed
  event up to it was handled (`WatermarkIsHonest`: the row has it, or it is on record as skipped or undone), and ids in
  flight are above it. A page is not older than the watermarks it will be written with. While nothing commits,
  pages and written rows are current (`RebuildHealsRows`), and page and written rows together cover every live
  user up to the cursor (`PagesAreComplete`, when `created_at` agrees with the ids).

* `AuthAudit_proofs`: seqs are numbered, what an instance has in hand is not purged, and a deleted row's
  event is gone for good from the stream (the retention outlives `max_age`), so no insert can repeat it
  (`EventStoredOnce`). A push belongs to a stored event that no other instance pushes or has pushed, so the frames of all
  buses are distinct, and a client reads each bus behind `next` (`FramesAreSeenOnce`).

* `UserAdmin_proofs`: the inductive invariant has the types; that every handler past a guard was judged
  (the request, the roles found and the roles checked lie within the token it carries, and a
  `set_roles` of the actor himself keeps `users:admin`); and that passwords only grow, so that a session
  or an announced reset is never newer than the account and a reset in its last phase knows its own
  password. `ChangesStayWithinReach`, `LastAdminIsNotRemoved` and `HiddenRolesAreKept` are action
  properties: a lemma reduces every step to one write by one judged handler. `ResetIsEffective` rests on
  the order of password, revocation and answer. The constants are any policy, any users and any number
  of handlers.

* `AuthSession_proofs`: cookies are among the tokens a browser was given; a handler's phase fits its
  operation; a session in hand is private to its handler until it responds, and one that was denied stays
  so (`DeniedSessionsLeaveNothing`); what is answered was audited or is recorded as not (`AuditIsTruthful`). For
  `RevocationIsEffective`: a chain of refreshes keeps its root, a refresh needs a live parent, and a revocation
  ends all that are live; so a session whose root is older than the cut was opened before it, and a
  request let in with it came within `Ttl + Leeway`.

* `Library_proofs`: owners and declared types never change (`MimeIsKept`), which carries what a handler judged
  over to the step that uses it: a preview was judged safe and the bucket can hold only the declared type
  (`InlineIsSafe`); an avatar is the owner's own raster image, bound or on its way, whoever bound it
  (`BytesReachTheEntitled`); an uploaded picture is in the hand of one handler until it is bound, deleted or
  recorded as loose (`PicturesAreAccounted`).

* `Widget_proofs`: the inductive invariant adds five parts to the types. `Pending`: a row being created is
  not in the table yet and has one creator; a handler past its guard works on an existing row that its token
  may write, and owners never change. `FramesTrue`: what waits to be published or to be sent is true of its
  row and stays so, because names are remembered (`past`) and deleted rows stay deleted. `FramesOnce`: of the
  creation and the deletion of a row there is one frame at most among what a stream has sent, what
  waits in its queue and what handlers have still to publish; dropping the oldest frame or a whole
  publication only removes some (`FramesAreTruthful`). `Paging`: every steady row behind the anchor is still
  to come, any other was shown on exactly one page; for numbered pages, while nothing has changed, the page
  of a row is where it stands in the list (`ScansAreComplete`). `Entitlement`: the filter of a list is what `data_access`
  gave its token, or the token has passed the gate of the back office's list, and a count gives no rows; with it
  the rows of a walk are rows its token reaches (`ReachIsSame`). `ScansAreComplete` rests on
  lemmas about the lists: keys
  are in a strict order that is total on different ids, a row's place (how many precede it) is a
  bijection onto `0..n-1`, a page is the rows with the next places, so what is behind its last row is
  what no page has shown. The order is the same between two pages unless the anchor was renamed, which is what
  `drift` records: then the rows between the old and the new name are skipped or come again. A list is
  defined by the place of its rows instead of by sorting, so that nothing has to be proved by
  induction over sequences. The constants are any names, tokens, policy, page size and queue bound, and any
  number of handlers and clients.

* `Bootstrap_proofs`: `GateIsMonotone` is a lemma about `Authz` alone; it needs that implications have
  one level (`ImpliesAssumption`, the comment of `Perm::implies`) and that both the policy and the scope
  are expanded. The inductive invariant of `Bootstrap` says for each process: its job and its work belong
  to its phase (`Placed`); the policy in memory was built from some table (`PolicyOfATable`); unless the
  table was edited since it started, the defaults behind it are in the table and, once loaded, the policy
  is that of the rows its binary knows (`Seeded`; other processes only add rows that are there already or
  unknown to it); whatever was edited, the defaults behind it are in the table or revoked (`NothingLost`: no step but an
  operator's takes a row out); the accounts behind it are done or in hand (`Accounted`; being done is never undone);
  a profile in hand is not a user's own unless the user has just written it (`Profiled`). An account
  that does not exist has no roles. `PolicyIsCurrent`, `GatesAreMonotone`, `AccountsAreComplete`,
  `SeedingIsAdditive` and `ProfilesAreKept` follow, for any number of processes, binaries, accounts,
  edits and crashes and for every plan.

Every safety property a run checks is proved. Only model-checked: liveness (`EveryMessageAcked`,
`EveryEventStored`, `EventuallyServes`) and the fair refinement `ImplementsFairLog`, which are out of the
prover's reach. The violations of section 3 are found by runs.

## 5. Not modelled

The database, JetStream, the object store and the `idm` and `content` crates are modelled from their
use and marked external; a call of either crate is one atomic step. Payload contents, subjects,
formatting, logging, back-off durations and metrics are abstracted. Left out:

* queries that change no state: the user search, the audit list and statistics, content and profile
  reads and the enrichment of views. The offset pages of these lists are those of `Widget`;
* `create_with_tags` of the widget repository (one transaction, and no endpoint calls it), the
  choice among the buses of the widgets, in memory, of Postgres and of NATS (one bus with a bounded queue per
  stream that may lose frames stands for them), the proxy branch of previews for the memory backend and
  the validation of upload fields;
* `op_perms.rs` (documentation of the gates), the parsing of role names;
* the runtime's drain cap (a wall-clock timer, no state) and the choice of adapters from the configuration. What a
  stopped task or a dropped handler leaves behind is in every module (`Crash`, `Restart`, `Abort`,
  `Abandon`);
* configuration, mock data, error mapping, extractors and OpenAPI.

What could come next: the rebuild inside `Pipeline` (today `Rebuild` has a log of its own, with rows that
commit in the order a table allows), and the same composition for the events of `AuthSession` and
`AuthAudit`.
