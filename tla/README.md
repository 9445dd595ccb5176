# Phira-plus-Backend: TLA+ models and proofs

PPB is the HTTP backend between the Phira-plus front ends and the PMP game
server. It keeps its rows in PostgreSQL, talks to PMP over one Unix socket
(OpenUDS) and runs everything else as tokio tasks of one process. What can go
wrong in it is almost never inside one function: it is two handlers that both
read before either writes, a task that dies with work in its hands, a client
that goes away while its request is half done. These modules model those parts
step by step, TLC explores every interleaving of small instances, and TLAPS
proves the central invariants for instances of any size.

Paths below are relative to `src/crates/ppb-server/src/`.

## 1. Inventory

| Component | State it keeps | Operations | Hard behaviour | What makes it correct |
|---|---|---|---|---|
| Jobs (`jobs/`, `deployment.rs`) | table `jobs` with a partial unique index on the resource key; map of cancel flags | start, cancel, retry, runner task | retries and starts under one key, cancel against dispatch, restart with active rows, ignored write errors | no two executions of one key; an active row has somebody driving it; a final state is reached |
| Commands and actions (`actions/`, `commands/`) | table `command_runs`, audit events, one bounded queue and worker per key | execute action, raw console, worker, executor | full queues, a worker that panics, 30 s answer against late completion, dropped handlers, host changes while queued | answer, row and audit agree with what happened; nothing taken is lost |
| OpenUDS client (`pmp/openuds/`) | connection state, writer mutex, pending map | connect loop, teardown, `command_with_timeout` | teardown against callers that register or write, timeout against response, dropped callers | a waiting caller is always released; nothing goes to an old connection |
| Join intents (`join_intent/`, `app.rs`) | two concurrent maps | create, cancel, `user.online` listener, cleanup | check-then-act over two maps by three tasks | a player is moved at most once; intents leave the store |
| Event bus, SSE (`pmp/events/`, `public/routes.rs`, `admin/routes.rs`) | history ring, broadcast channel | publish, subscribe, replay, snapshot | two orders of one log, lag, reconnection | no gap after a resume |
| Automation (`automation/`) | `runbooks`, `runbook_runs` | edit, delete, run, cancel | long handlers against edits, revocation, cancel, drops | the snapshot is what ran; succeeded means everything was done |
| Sessions and login (`auth/`, `users/`, `identities/`) | `users`, `phira_credentials`, `account_legal_acceptances`, `sessions`, the cookies of a browser | Phira login, refresh, logout, revocation | refresh against refresh, logout, login and revocation; lost responses; logins that stop half way | a revoked session stays over; the browser can go on refreshing; no session without consent |
| Root, reauth, GitHub login (`auth/`) | root credential, OAuth states, reauth contexts, `user_identities` | first boot, reset and change of the password, reauth, GitHub start, callback, unbind | bind against bind and unbind, a limit checked before the insert, writes that compare nothing | an account has one owner and a login belongs to it; an elevated request proved its own password |
| Permissions (`permissions/`) | `groups`, `group_members`, `group_permissions` | create, patch, delete, replace members and permissions, seed, resolve | handlers that overlap each other, logins and a seed that may be cut | nobody becomes an administrator without an assignment; one default group |
| Middleware (`middleware/`) | per-key window of attempts; the cookies pages share | rate limit, CSRF check, principal of a request, cookies, request ids | the boundary of the window, clock steps, calls that overtake each other before the lock; pages that show another session than the cookies name | never more than the limit in any window of calls in order; a page acts only under the session it shows |
| Phira gateway (`phira/`) | response cache, per-key locks | cached GET, chart files, retries, redirects | single flight with failing and dropped holders, slow requests against the budget | one request in flight per key; everybody is served; bounded waits |
| Social (`social/`) | `friend_requests`, `friendships`, `user_blocks` | request, answer, remove, block, invite | accept against decline and block, crossing requests | a friendship was asked for and accepted; an answer is final |
| Notifications (`notifications/`, `admin/notifications.rs`) | `notification_events`, `user_notifications`, `push_endpoints` | send, read, dismiss, press a button, register a device | fan-out while groups and devices change, buttons of older versions | all recipients or none; one channel for each recipient named once; no dead button |
| Rooms (`rooms/`) and users (`users/`) | PMP's rooms, the command queue, `user_profiles` | room actions, batches, views of a user | rooms that close under a batch, answers that never come, views gathered from several reads | what is reported was done; what is shown was true |
| Preferences (`preferences/`), coupons (`admin/coupons.rs`) | `user_preferences`, `coupons`, `coupon_redemptions` | save with a base revision, redeem | two savers, two redeemers, revocation meanwhile | nothing unseen is replaced; a code is never worth more than it says |
| Replay (`replay/`) | visibility overrides, share links; PMP's batches and rounds | watch, list, share, fetch | access that changes during a request, a player id wider than PMP's, a log that grows under its reader | admitted for a reason; what is shown is what was asked; nothing left out |
| Live and log streams (`live/`, `logs/`) | a broadcast channel of frames | socket of a room, log history and stream | lag, lost connections, a PMP that restarts | a loss is announced; a shown line is found again |
| Configuration (`config/`), `ppctl` | PMP's YAML file, its snapshots; the server's own sources | save, rollback, reload; start, check, doctor, init, update | saves that overlap, a write cut half way, three copies of one order of sources | secrets and unknown fields survive; what the tools accept the server starts from |
| Audit (`audit/`) and listings | `audit_events`, pages | record, list, export, purge | pages that shift while rows arrive | every row that stayed is shown |
| Administration proxies, OpenAPI, errors, metrics | none of their own | | | not modelled: pass-through and declarations |

How they interact: handlers submit commands to the broker, whose workers call
the OpenUDS client; jobs and the console call it directly. PMP's events come in
through the OpenUDS reader, go to the event bus (and from there to SSE clients)
and to the join-intent listener. Jobs publish their state on the event bus.
Runbooks are handlers that submit one command per step and await each. Every
handler is a future that axum drops when its client disconnects, at whatever
await it has reached; the models call that fault "drop".

The hazards, each at its line and with the properties that watch it, are listed
in `PROJECT.json`.

## 2. Modules

Every module splits an async function at its awaits: a database statement, a
critical section or a stretch of code without an await is one action. `MC*`
modules only name small sets for TLC and put components side by side; the
properties are in the components, and `*Proofs` modules hold the theorems.
`Requests` is what the models of the HTTP routes share: the requests served at
the same time and the absence of a value. A definition with a telling suffix placed right
before another one (`SubmitUnbounded` before `Submit`) is a mutation of it: the property
that must catch it is in `PROJECT.json`.

**Jobs.** `state`/`type` are the rows, `cancels` and `flag` the DashMap of
AtomicBools, `pc`/`runJob`/`result` the runner tasks, `at`/`reqJob` the handlers
in flight, `lastEvent` the last `job.updated`; `contended` and `orphaned` are
history (section 3). `Start`, `StartSpawn`,
`RetryLookup` .. `RetrySpawn`, `CancelLookup`, `CancelFlag` are the handlers'
steps; `RunStarting` .. `RunEnd` those of `run`, `execute` and `tick_stage`.
`IndexAllows` is the partial unique index, `SeedJobs` the policy registry.
`Crash` empties the memory and keeps the rows; "db" makes a best-effort write
fail, "drop" ends a handler.

**CommandBroker.** `runStatus` and `audit` are what is stored, `queue`/`worker`/
`current` the mpsc channel and task of every key, `client` the handler or what
it answered, `sent`/`outcome`/`host` what PMP has seen, done and believes.
`ExecuteAction`, `Submit`, `ClientTimeout` are `execute_action` and
`CommandBroker::submit`; the `Worker*` actions the worker loop and
`PmpActionExecutor::execute`; the `Console*` actions `execute_command`. No
action that can be submitted is long running (those are refused as job-only),
so every handler waits for a completion.

**OpenUds.** `conn` follows `run`, `connect_once`, `reader_loop` and the three
steps of `set_disconnected`, which is called twice for a lost connection
(`pass`). `writer` and `guard` are the mutex-protected write half, `pending`
and `rx` the map and the oneshot channels, `on` the connection a frame went to,
`torn` the connections a cancelled write left with half a frame. PMP is
`inbox`, `executed`, `Execute` and `Response`.

**JoinIntents.** `status`/`owner`/`age` are the intents, `index` is `by_phira`.
Each access to one map is a step: `Create`+`CreateIndex`, `CancelFind` ..
`CancelRemove`, `Online` .. `MarkTerminalUnindex` for the listener, `SweepStart`
.. `SweepUnindex` for the cleanup, whose `sweep` holds the ids with their age at
the moment it read the clock. `Age` is the passing of time.

**EventStream.** `pushed` and `sent` are everything ever put into the history
and the channel; the rings are their last `MaxHistory` and `EventCapacity` elements.
`PublishPush`/`PublishSend` are the two halves of `publish`; `Subscribe`,
`ReplayFrom`, `Snapshot`, `StreamReplay`, `StreamLive`, `Lag` and `Leave` the
life of an SSE client. `Threads` bounds the publications under way at once.

**Runbooks.** `book` is the definition, `row`/`snapshot` the run's row, `pc` the
handler. `Fetch`, `Insert`, the `Step*` actions, `Authorize`, `Submit`,
`Completed`/`CommandFailed`, `Finish` follow `run`; `EarlyReturn` and `Drop` are
its `?` exits and its cancellation.

**Sessions.** `known`, `cred`/`lapsed`, `accepted` and `owner`/`hash`/`active`
are the tables, `version` the legal versions in the configuration, `jar` the two
cookies of every browser and `req` the handlers under way, each with what it has
read so far. A refresh token is the number it was minted with, and its hash is
that number (SHA-256 of 32 random bytes does not collide). `Login` ..
`LoginCreate` follow `phira_login` statement by statement from the moment Phira
has accepted the password; the two halves of `commit_login` are one step each,
because identity and default group are not in the model. `Refresh` ..
`RefreshRotate`, `Logout` .. `LogoutReply` and the `RevokeOther*` steps follow
their handlers, `Grant` is the arrival of a response with cookies, which may be
overtaken by another. `Cut` ends a handler at any of its awaits, also when only
the response is left; `Redeploy` ends them all and brings new legal versions.
Approved legal documents are always configured; without them a login is refused
before it does anything. The rate limit in front of a login is left out.

**Groups.** `group`, `member`, `perm` are the tables; only a patch is a
transaction, so `replace_group_members` is `MembersClear` and one `MembersAdd` per
user, and the seed of a start-up or of a user without a group is three steps.
`permissions_for_user` and `require` are the resolver, and every request is made by
a user (or root) who passes it. `Abandon` ends any handler at any of its statements,
`Restart` ends all of them and seeds again, whatever was under way. `assigned`,
`misnamed` and `unfinished` (a seed ended between its two statements) are history.

**GithubLogin** and **IdentityLedger.** `oauth` is the map of pending states,
`owner` the rows of `user_identities`. A callback consumes its state, exchanges the
code, reads the identity and then opens a session (`LoginFinish`) or inserts the
row (`BindFinish`, whose ON CONFLICT DO NOTHING is `bind_github`). The abstract
specification IdentityLedger knows only the owners and the logins: an account is
taken only when it is free, and every session is opened once, by a state of its own,
for a user who has owned the account. `ImplementsLedger` is `Ledger!LedgerSpec` with
the three variables `owner`, `bound` and `opened` mapped to themselves; states,
callbacks and handlers are hidden.

**Elevation.** `root` is the row of `root_credentials`, `tokens` the reauth contexts
by session, `req` the handlers. A password is the number it was first seen with; a change
sets a new one or any drawn before, the printed and the current included, as
`change_password` compares it with nothing. `generated` and `chosen` are history: what
the server printed and what a request asked for. bcrypt is taken to tell two passwords
apart.

**Rooms.** `rooms`, `banned` are PMP's, `queue`/`serving` the broker's queue of a key
reduced to its order, `report` what the handler answers. A single action and a batch
share `Submit` of a queue; a batch stops at the first error of its queue. `Execute` is
a command that PMP carries out or refuses and answers; `GiveUp` is one whose answer the
OpenUDS client no longer waits for (10 s, or the connection closed), which is settled as
failed while PMP has carried it out, will later (`ExecuteLate`) or never does; `lost`
holds these. room.kick and room.ban are what hosts may do and what batches accept,
room.close neither.

**PmpConfig.** The file system is modelled by inodes: `file` and `tmp` are names,
`WriteCreate` truncates, `WriteAll` fills, `WriteRename` moves the name. A document is a
function from fields to values, so that `merge_yaml_patch`, the redaction of secrets
and fields the descriptor does not know are what they do; a text cut half way is `Torn`,
which a save refuses unless it is empty, YAML's null, and the form changes no field. **Startup** has the three copies of the order of sources (`Start`,
`run_config_check`, `run_doctor`), the plain `ppctl update`, which checks without the
server's arguments (`run_update_plain`), and the staged check. Of `doctor` it keeps the
source it finds; its other checks of the machine are one choice.

**Social**, **Notifications**, **Buttons**, **Views**, **Coupons**, **Preferences.**
Each table is a variable, each statement a step; what is a transaction in the code
is one action, except the redemption of a coupon, whose row lock is the point and is
a variable (`lock`). Views keeps in `during` every world a request has lived through.
A send of Notifications names a list of users, who may be repeated; `tried` holds the
channels each user has been notified over by one event, however often it is named.

**Tabs.** `jar` is the cookies all pages of a browser share, `showing` the session GET
/me last showed each page, whose CSRF token it keeps, `sent` what a page has under
way, with the cookies and the token it left with. `csrf_middleware` looks only at the
request and so is part of `Send`; the principal is looked up, the handler acts and its
answer changes the cookies in steps of their own, so that answers cross. How a refresh
token is rotated is module Sessions; here a refresh or logout may or may not find it.
A request may carry an Authorization header, Bearer or another one: `uses_cookie_auth`
skips the check for both, `extract_bearer_or_cookie` honours the first only.

**LiveRoom**, **Logs.** The broadcast channel with its capacity, the lag of a slow
receiver, lost frames and connections. In Logs a connection is lost alone or with PMP
(`PmpRestarts`), whose numbers and lines then begin anew after `base`; `history` asks
for the newest `limit` lines (`Window`) and filters these. **ReplayPages** pages
through PMP's log of batches and list of rounds while both grow; **Replays** decides who may watch, for the
pair of the query, and fetches for `as_i32` of its player (`Wrap` stands for 2^32, `Wide`
are the pairs beyond it);
**Listings** walks the paged listings of the panel while rows are written, each with
its own statements and their order. A table maps ids to rows, and a query is the set of
pages it may answer with: what ORDER BY, OFFSET and LIMIT leave open (rows that tie) is
a choice. `owed` is what the table held for the walk when it began, `steady` whether a
row has left the walk's filter since.

**PhiraGateway**, **PhiraRetry**, **RateLimiter.** The first has the cache and the
fair mutex of a key (`locks` is its queue), the second the time one call takes in
units of 100 ms, the third the window under a wall clock that may be set: a client reads
the clock (`ReadClock`) and takes the lock in a later step (`Check`), so that calls
overtake each other.

`MCPmp`, `MCAdministration`, `MCCommunity`, `MCFeeds` and `MCServices` put modules that share
no state side by side: `part` says, from the initial state on, which of them a
behaviour is about, and the others stand still. They extend their components, whose
properties and specifications the run and the theorems share; each component's first
property includes its type correctness.

## 3. Runs

In every run but `jobs_safety`, which has only the crash, all faults of the modelled
handlers are possible together: failing statements, dropped requests and restarts where
the module has them. Where a fault
takes away what a property promises, the model does not switch the fault off: a
history variable records exactly whom the fault hit (`contended` and `orphaned` in
Jobs, `lost` in CommandBroker, `overlapped` in EventStream and PmpConfig, `abandoned`
in Runbooks, `crossed` and `clobbered` in Sessions, `overtaken` in Preferences,
`unfinished` in Groups, `steady` in RateLimiter and Listings; `lost` in Rooms, which
`ExecuteLate` also reads), no other action reads it, and the property excepts those. So each
run shows the guarantee and, at the same time, that nothing else breaks it.

| Run | Instance | Shows |
|---|---|---|
| `jobs_safety` | 2 jobs, 2 runs, 2 requests, a retryable and a one-shot type under one key, crashes | `NoOverlap`: executions of one key overlap only after a retry re-queued a job something still drove; `ActiveRowHasDriver` |
| `jobs_settle` | 1 job, 2 runs, 2 requests, all faults, fair | `LastEventIsFinalState`; `JobsEnd`: cancel flags belong to live runs, and a job that kept its driver reaches a terminal state |
| `pmp` | 2 commands, 1 key, queue of 1, 2 principals, all faults; 2 intents of 1 player; fair | `CommandsAreTrue`: answers, rows and audit events agree, a command is in one place, nobody waits for a command nobody holds; `CommandsAreAudited`: what was taken or sent is audited; `IntentsAreSound`: at most one move per intent, a lone intent stays indexed; `IntentsDrain`: the store empties |
| `sessions` | 1 user, 1 browser, 2 sessions, 2 requests, 3 tokens, 2 legal versions | the browser of an active session can refresh and a logout ends its session, unless two requests crossed; no session without the acceptance in force; a session that is over stays over |
| `administration` | 3 groups, 1 user, 2 handlers; 2 accounts, 1 GitHub account, 3 states with a limit of 1; 2 sessions, 3 passwords; 3 forms, 2 snapshots, 2 revisions; every way to pass `--config`; 2 clients, a limit of 2 in a window of 3 s on a clock of 5 | `GroupsAreSound`, `GithubIsSound`, the refinement `ImplementsLedger`, `ElevationIsSound`, `ConfigIsKept`, `StartsAsChecked`, `LimitIsKept` |
| `community` | 2 users and 2 handlers; 1 event, 2 devices, lists that name a user twice; 6 lists of buttons; 2 changes under a view; 1 code with up to 2 uses and 3 users; 2 clients, 3 saves; 2 pages of the site, its login page, a page of another site and a native client with 2 sessions and 2 requests at once; 2 rooms, 1 player, 2 commands | `FriendshipIsMutual`, `NoticesAreWhole`, `NoDeadButton`, `ProfilesAreHonest`, `CouponsAreHonoured`, `SavesSeeWhatTheyReplace`, `ActsAsShown`, `ReportIsTrue` |
| `feeds` | 5 events, history 3, channel 2; 2 streams of 3 frames over a channel of 1; 5 batches in pages of 2, 4 rounds; 2 replays and a player id beyond the wrap, 2 users, 1 link; 4 log lines with a ring of 3, a channel and windows of 2 and 1 lost connection or restart; 3 rows in pages of 1 | `NoGap`; `LossIsAnnounced` (live rooms); `LogsAreWhole`; `AdmittedForAReason`; `PagesAreComplete` (a replay's batches and rounds); `ListingsAreWhole` |
| `services` | 2 runs, 3 definitions, all faults; 3 callers of 1 key; requests of 0.1, 2 and 15 s; 2 calls to PMP (one without a timeout), 3 connections, both faults; fair | `RunsAreTrue`, `RunsEnd`; `SingleFlight`, `CallsEnd`; `WaitIsBounded`; `ClientIsSound`: waiting callers are reachable, the writer is current, pending entries are owned; `LossIsRepaired`: a loss releases callers, reconnecting never stops |

Violations, each against a sentence of the repository (quoted in `PROJECT.json`):

| Run | What the code does |
|---|---|
| `jobs_retry_overlap` | two retries of one job run it twice at once |
| `config_file` | two requests that write PMP's configuration (saves, or a save and a rollback) share one temporary file, and the rename of the first publishes the half-written text of the second |
| `replay_pair` | access is decided for the i64 player id of the query and the data fetched for `player as i32`: beyond 32 bits what is shown is not of the pair that was checked |
| `wait_cap` | a slow request keeps a user waiting longer than the 5 s that are called a hard cap; `WaitIsBounded` is the bound the code keeps |

Bounds. Two of each actor are enough for every pairwise race, which is what the
code's check-then-act sequences are exposed to; connections, events and queue
capacity are chosen so that the limit is reached (a queue that fills, a ring
that overwrites, a caller that outlives its connection). Nothing but the numbers
of jobs, commands, connections (`MaxConn`), events and intents is bounded.
`jobs_safety` has two jobs, so that the index can refuse one of them, and only
the crash among the faults; `jobs_settle` has one job and all faults; the four
invariants of jobs are proved for any number of jobs and any faults (section 4).
Deadlock checking is off because an instance runs out of ids: the modelled
process then simply idles. Symmetry is used in `jobs_safety`, which has no temporal
property, in `sessions` and `administration`, whose action properties and refinement
treat all ids alike, and in `feeds`; ids are interchangeable there. `sessions` has one
user and one browser because its handlers of different users share no row; two
browsers of a user meet in the proofs, which bound nothing. `MaxPending` of 1 stands
for the 2048 pending OAuth states, the pages of 2 for 1000 rounds and 500 batches, the window
of 3 s for 60, `Wrap` of 4 for 2^32: each limit is reached and passed in its run.
`MaxSecrets` of 3 is a first boot, a reset and a change; `MaxSnapshots` of 2 lets two saves
write at once. The rooms of `community` serve one request at a time, against PMP's own
steps and the commands of earlier requests that are still queued or late; several room
requests at once are covered by the proof only.

Fairness. Weak fairness is put on a task's steps as a whole (the runtime polls
whatever is ready) and on nothing a client does. A command handed to PMP is
taken to return: it has a timeout, or its connection ends and the client
releases it, which is what LossIsRepaired shows for a lost connection. That
PMP neither answers nor closes the connection for an unlimited command is
therefore excluded in `jobs_settle` and `pmp`. The intents of `pmp` assume that time
passes and that the interval task runs. In `services` a step of the OpenUDS
client's task, of a runbook handler and of a caller of the gateway is fair:
requests to Phira have a timeout and tokio's
mutex serves its waiters in order.

## 4. Proofs

All theorems hold for every value of the constants allowed by the named ASSUME
of the module (which TLC evaluates in every run), all faults included.

**JobsProofs.** `TypeCorrect`: TypeOK is inductive. `Exclusion`: NoOverlap is
not inductive, because a dispatched run says nothing of its row. `ExclusionInv`
adds that active rows have distinct keys (the index) and, for a job that is not
contended, that the row of a request about to spawn is queued and has no run and
no second such request, that the job has one run, and that a run before its end
holds its row active. Two dispatched runs under one key would then be two active
rows under one key. The UPDATE of a retry is the one step that can break these
facts, and it then marks its job contended; `jobs_retry_overlap` shows that the
exception is needed. `FlagsSound`: a registered flag belongs to a live run of
that job. `NoStrandedRow`: an active row has a driver or lost it to a fault.
`EventsFinal` adds to `ExclusionInv` that a run past its final write left the
state it is about to publish.

**PmpProofs**, the client. `ClientInv` joins TypeOK with: the writer mutex is held by a
caller that is writing; a writer lives exactly while its connection is read or
taken down for the first time; the sender of an open channel is registered, and
no other is; a caller that waits on an open channel waits on the current
connection. `WaitersReachable`, `WriterCurrent`, `PendingOwned` are its
consequences and make up `ClientStaysSound`. The second `set_disconnected` of a loss is where the invariant
earns its keep: the writer is already gone, so no caller can have been written
to a connection in between.

**PmpProofs**, the join intents. `MovesInv`: an intent that was moved is never pending
again, and an intent between match and move has not been moved. It needs the
history of the listener (`ListenerInv`) and that the cleanup and the cancels in
hand are about intents that exist. `MovesOnce` follows. `LoneIndexed` adds that
whoever is about to drop an index entry has ended an intent of that player: the
listener's is no longer pending, the cleanup's is gone, the cancel's is marked.
The two make up `IntentsStaySound`.

**SessionsProofs.** None of the four invariants is inductive: `JarIsUsable`
compares a cookie with a row and says nothing of the handlers in between. `IInv`
adds what those carry. `RequestsFit` and `JarsFit`: the session a request or a
cookie names has a row, and a request about to create one has a known user.
`TokensFit`, `Fresh`: a token was minted once, is the hash of no session but its
own, and while it is in a response nobody else holds it. `OneBrowser`: requests
and cookies of a session belong to one browser, so that a `Grant` cannot change
the jar of another. `Current`, `RepliesFit`: a request that holds a token
against its session holds the current one, and a logout due to reply has a
session that is over, or else the session is `crossed`. `MarksFit`: a refresh
about to mark has a cause. `ConsentsFit`: a login past the check has the
acceptance or is going to record it. There is one lemma for every action; the
six properties follow, the two action properties from `IInv` and the shape of
`Next`.

**CommandBrokerProofs.** `CommandsTrue`: the broker's promise speaks of rows, answers
and audit events only; `BrokerInv` adds where a command is. `QueueInv`: a channel holds
commands of its own key, each once, which have not run and which its worker does not
hold. `WorkerInv`: what a worker has established about its command step by step, from
the outcome over the row to the audit event, unless a fault has `lost` it. The answer
of a handler and the state of its channel are tied to these. There is one lemma for
every action.

**AdministrationProofs.** One invariant per component.

- `GroupsInv` (`GroupsStaySound`): a login that is about to join a group has read one
  that is no admin group, and an admin group is not the default and not named Members,
  unless one was `misnamed`; whoever is a member of an admin group was assigned. Two
  defaults exist only between the two statements of a seed or after one was cut there
  (`unfinished`), until a statement clears the others.
- `ElevInv` (`ElevationStaysSound`): a password is older than the next one drawn, and a
  drawn one is asked for by nobody yet; a change records what it asks for together with
  the row, so the flag and the two histories agree. A
  proof is on record from the check of the password to the use of the token it earned.
- `StartInv` (`ServerStartsAsChecked`): what a tool said last is what it would say now,
  because an edit takes it back; the three copies of the order of sources then agree
  where they are compared. The plain update is compared only where the server has no
  `--config`.
- `GithubInv` (`GithubStaysSound`): an OAuth state is pending, or in the hands of one
  callback, or spent on one session; a callback about to open a session has read a row
  that was written. `GithubImplementsLedger` maps every action to a step of
  IdentityLedger or a stutter under this invariant.
- `RoomsInv` (`ReportsAreTrue`): a command waits in one place of one queue and only
  while it has no outcome, and every entry of a report and of the results a batch has
  gathered speaks of an outcome that is final. A command that PMP answered has its effect
  exactly if the answer was ok; one whose answer was `lost` may have it at any time.
- `ConfigInv` (`ConfigStaysKept`): every text in the file system, in a snapshot or in
  the hands of a handler is good or torn, and a writer that is alone has the temporary
  file for itself.

**CommunityProofs.** One invariant per component again.

- `SocialInv` (`FriendshipStaysMutual`): a handler answers only as the one who was
  asked, the agreed are answered, and a row of `friendships` has an agreed request of
  the pair. The action property that answers are final follows from the shape of the
  steps.
- `CouponInv` (`CouponsStayHonoured`): a redemption between its checks and its commit
  holds the lock of its code, so that what it has checked (uses below the limit, not
  revoked, not redeemed by this user) still holds; the proof counts redemptions with
  the library's theorems on cardinalities.
- `PrefInv` (`SavesStaySeen`): a saver that was not overtaken still has before it the row
  it has read, and what a client shows is a document that carried its revision.
- `ViewInv` (`ProfilesStayHonest`): what a view has gathered was so in a world the
  request has lived through, and the present world is one of these.
- `NotifyInv` (`NoticesStayWhole`): an event and its rows agree, a user whom the list
  names once and whose turn has not come was tried over no channel, and in its turn the
  channels tried and those of the endpoints still to visit are on one side.
- `ButtonInv` (`ButtonsStayAlive`): the buttons on show are those of the stored list,
  and a press carries a kind with the field it needs.
- `TabInv` (`PagesActAsShown`): a request under way has passed the CSRF check with the
  cookies and the token it left with (or carries an Authorization header), its principal
  is what these name, and the two
  cookies of a browser are of one session as long as both are there. The sessions a
  request names are older than any session created later, so it stays sound while
  sessions come and go.

**ServicesProofs.** The components of `services` but OpenUds, and the rate limiter.

- `RunInv` (`RunsStayTrue`): the commands of a run are the actions of the steps before
  the one it is on (with it, once it was submitted), in the definition it loaded, which
  is the snapshot from the insert on; none of these steps is one a run refuses, and all
  but the command it awaits were answered Ok. `ActionsOf` says "the actions among the
  first n steps, each once and in their order" with the increasing function that places
  the commands, so that one more step extends it by one value and no induction over
  sequences is needed.
- `GatewayInv` (`FlightsStaySingle`): the queue of a key holds, each once, exactly the
  callers that want it and wait or ask; the one that asks is its head and found nothing
  fresh. Two callers that ask for one key would both be the head.
- `RateInv` (`LimitsStayKept`): while calls take the lock in the order of their readings
  of the clock (`steady`), the bucket knows
  every attempt that is still recent (a map from its places onto their places in the
  history), so that their number is at most its length; a window that a new attempt
  falls into holds only recent ones. The time of a refusal is the end of the window of
  the bucket's first attempt. Cardinalities come from the library's theorems.
- `RetryInv` (`WaitsStayBounded`): a call that goes on is within its budget but for one
  timeout per redirect, since a backoff that does not fit ends it, and every request
  sent was the first, a retry or a redirect.

**FeedsProofs.** The components of `feeds`.

- `EventInv` (`StreamHasNoGap`): NoGap speaks of the two logs and the client at one
  moment, and a reconnection forgets all but the last id. `LogsAgree`: every event is
  pushed once, sent at most once, and what is pushed and not sent is being published.
  `OverlapsNoted`: the logs order two events differently only if their publications
  overlapped. `LastIsABound`: nothing pushed up to the last id a client has is owed to
  it any more; with it the history after that id covers the absence.
  `ReplayIsAStretch`: what is left of a replay is a stretch of the log of pushes, and
  what was pushed before it is lost or not after the last event received.
- `LiveInv` (`LossesStayAnnounced`): the frames in the channel are in order behind the
  last one received and those that wait for the tick, and a lost frame was sent and is
  not in the channel. So the frame that passes a lost one leaves a gap in its stream.
- `LogInv` (`LogsStayWhole`): shown and waiting lines rise, and
  are all lines from the first one due as long as nothing was dropped; a shown entry
  has the id and the text of its line. With numbers an id belongs to one line of a
  process, so a window filtered by it has at most one entry and its first page is that
  entry; lines of an earlier process (up to `base`) are in no window.
- `ReplayInv` (`ViewsStayJustified`): what a request has noted covers what it has read
  and what it has still to read, whoever writes in between, so a decision on two reads
  finds each reason noted. What is shown is the pair of `as_i32`, which is the pair asked
  for when the id fits.
- `PagesInv` (`PagesStayComplete`): what a reader has is its
  recording up to the cursor, in whole pages as long as it goes on, which is why a
  total that no page divides means the last page was short; a round not yet named lies
  behind the offset, on whichever side new rounds are added.
- `ListInv` (`ListingsStayWhole`): the distance of a row from
  the beginning of its listing is the number of rows up to it. A row that a steady walk
  is owed and has not seen is farther from the beginning than the pages left behind
  (`Ahead`), and after a read it is on the page or farther than that page too
  (`Shows`, lemma `PageTakes`); writes, purges and finishing runs only add rows before
  it (lemma `TheTableMoves`). Runs that ended have distinct times, so that no tie can
  put one on both sides of a page.

Assumptions added for these proofs are about the constants that stand for ids, bounds
and "no value" (`None` is none of the values it is compared with, the kinds of pages
are disjoint, those who register devices are users); TLC evaluates them in the runs.
Each inductive invariant was model-checked on the run of its component before it was
proved.

Only model-checked: everything under fairness (JobsEnd, CommandsAreAudited,
LossIsRepaired, IntentsDrain, RunsEnd, CallsEnd), since liveness is out of the
prover's reach. Every invariant and every action property of a passing run is stated by
a theorem. `FlagsSound` and `MarksHaveCause` prove parts of what JobsEnd and the
sessions promise that no run lists by itself.

## 5. What is left out, and what the code does not provide

Left out: arguments, payloads, redaction, formatting and HTTP codes other than
the ones a property is about; read-only routes; authentication in front of a
handler (the models start where the request was let in, except where permission
is part of a property); PMP beyond what it does with a command; multiple backend
processes (the code keeps queues, flags and intents in memory and is run as
one). Components without a module are listed in the inventory.

Not modelled, and why: the administration proxies (`admin/server.rs`,
`admin/plugins.rs`) pass one PMP command through, and what can go wrong with it is in
CommandBroker, Jobs and OpenUds; `openapi.rs`, `error/` and `metrics/` declare and
count; `phira/viewer.rs`, `phira/aggregator.rs` and `logs/translator.rs` reshape
answers; the attributes of cookies and request ids are header text; ping and capability lookup of the
OpenUDS client read what the model of the connection already has; a handful of
handlers (`ban_user`, `kick_user` of `users/routes.rs`, `add_member`, `remove_member` of
`permissions/routes.rs`, `unblock`, `put_overrides`) are reached by no route. Within the
modelled parts: LiveRoom leaves out frames of other rooms and frames without a number,
and the closing of a socket; Logs leaves out the filter by level.

Guarantees one might expect from the comments and that the models, like the
code, do not have; no property above claims them:

- a cancel of a job answered 200 may come after the run's only look at the flag
  (`CancelLookup` before `RunStarting`, `CancelFlag` after `RunCheckCancel`), and
  the job is dispatched (`jobs/runner.rs:101`, against `jobs/routes.rs:344`);
- a run that honours a cancel writes `cancelled` and then `failed`
  (`jobs/runner.rs:182`), so `cancelled` is never the final state;
- a full or dead queue refuses a command with an error answered as HTTP 202
  (`commands/broker.rs:80`);
- a console command whose client leaves while PMP executes it is not audited
  (`actions/routes.rs:293`);
- a second intent of a player does not replace the first (`join_intent/mod.rs:96`:
  the map is keyed by a fresh id); a cancel answered 204 does not stop a move
  already matched (`app.rs:292`); the cleanup may overwrite `completed` with
  `expired` (`join_intent/mod.rs:202`);
- with two publications at once a resume can lose one of the two
  (`pmp/events/mod.rs:87`);
- cancelling a run of a runbook updates its row only (`automation/routes.rs:82`):
  the handler goes on to submit its remaining steps, and its final UPDATE
  (`automation/routes.rs:485`) overwrites `cancelled`, although line 71 says
  "cancel a queued/running run.";
- a logout that carries a refresh token some other request has replaced answers
  204 and revokes nothing (`auth/routes.rs:476`, against "Revoke the session and
  clear cookies." in line 458), and so does the logout of a client that sends its
  access token as a Bearer header, since only cookies are looked at;
- two refreshes with one token both succeed and only the token of the last one
  is good; if that response is not the last to arrive, or is lost, the browser
  has to log in again (`auth/routes.rs:434`);
- a refresh may mark the credential a login has just stored as
  `reauth_required` (`auth/routes.rs:421`);
- a refresh does not move `expires_at`: a session ends `refresh_ttl_secs` after
  its login however often it is refreshed;
- a panic in `truncate` (`actions/executor.rs:172`, a slice at byte 120 inside a
  multi-byte character) ends the worker before row and audit event are written, and
  drops the commands behind it, although `commands/broker.rs:16-18` says that failures
  are recorded too;
- the host relation is checked before a command is queued, not when it is executed
  (`actions/routes.rs:114`, against `actions/registry.rs:12-13`);
- ending an intent removes the index entry of its player, whichever intent it names by
  then (`join_intent/mod.rs:171`, against 165-166), so a newer one is never matched;
- deleting a group leaves its members without one until their next login
  (`permissions/groups.rs:4` says every user is in one); two concurrent replacements of
  permissions end with the union; a delete and a patch can leave no default group, and an
  error or a crash between the two statements of a seed leaves two
  (`permissions/groups.rs:50-69`, against `permissions/repo.rs:39`) until the next one
  that clears the others; an admin group renamed to "Members" is what
  `default_group_id` falls back to;
- the loser of two racing GitHub binds is told that it is bound (`auth/routes.rs:802`);
- two first boots both print a root password and the later one counts; a reset before
  the first boot prints one that works nowhere; a change in flight overwrites a reset; a
  change to the printed password is accepted and ends the obligation to change it
  (`auth/root.rs:108-124`);
  sessions of root survive a change of the password;
- two saves of the configuration may lose one of them (`config/routes.rs:418`); a
  rollback takes no snapshot; a failed reload leaves the file written; a save that
  changes no field keeps a file cut to nothing as it is (`config/routes.rs:196`);
- `--config=path` is ignored by the server unless a bare `--config` comes last, although
  `main.rs:59` says otherwise, and `--config path` is honoured, although
  `docs/getting-started.md:108` and `docs/deployment.md:89` say that the server does not
  parse it; StartsAsChecked speaks of what server and tools do, not of these texts;
  without any file `ppctl config check` fails while the
  server starts on its defaults; the defaults branch of `ppctl doctor`
  (`bin/ppctl.rs:394`) leaves out the environment; a second `ppctl init` replaces the
  secrets; a plain `ppctl update` checks without arguments (`bin/ppctl.rs:531`) and so,
  for a server with `--config`, another file than the server loads;
- two saves of a preference with one base both succeed (`preferences/mod.rs:37-38` says
  "On conflict, the operation is rejected"), and revisions start again after a delete;
- the first pause between retries is 200 ms (for the hard cap of 5 s see `wait_cap`);
- the rate limiter reads the clock before it takes the lock (`middleware/rate_limit.rs:29-30`):
  a call that is overtaken, or a clock set back, can let one more than the limit through;
- a batch reports a command whose answer was lost or late as failed ("PmpCommandFailed",
  `rooms/routes.rs:840-863`), although PMP may have carried it out or still may;
- the ids of a send are not deduplicated (`admin/notifications.rs:135-145`): a user named
  twice is notified twice, over two kinds of channel if the endpoints changed in between
  (against `notifications/push.rs:277-279`);
- a write to PMP that is cancelled half way leaves half a frame on a connection that stays
  in use (`pmp/openuds/protocol.rs:76`);
- a job's cancel flag is removed by job id, so the end of a run can remove the flag of a
  newer run of the job (`jobs/runner.rs:191`);
- a player who comes online between the question of `join_room` and its intent is moved
  only at the next `user.online` (`notifications/routes.rs:303`);
- a block hides nothing on the public profile; `online_status` of the own profile means
  "in a room"; the administrator's views say "not banned" when PMP cannot be reached;
- `revoke_share` looks at the id alone and always answers 204; nothing writes
  `replay_acl`; access is not checked again while a socket lasts; a socket that resumes
  uses one `since` for touches and judges;
- nothing subscribes to the touches and judges streams, and the subscription to the log
  is not repeated after a reconnect; a lagging log viewer is not told; a log id is found
  only within the window asked for (at most 2000 lines), numbers of an earlier PMP process
  may name another line of the present one, and log ids of a PMP that sends no numbers are
  digests that equal lines share;
- `total` of the user listing ignores the filter, that of the audit listing is the
  length of the page, those of jobs, tasks and commands are read before the rows; a
  listing filtered by status misses rows while their status changes;
- where the access token has run out no CSRF token is compared (`middleware/csrf.rs:108-124`),
  so a page may then refresh or log out another session than it shows; a request with an
  Authorization header that is no Bearer is not checked either (`middleware/csrf.rs:67`)
  and acts under the cookie (`middleware/auth.rs:92-101`); and a login from
  a page without a CSRF token is refused while the browser has a fresh access token;
- nothing settles rows a restart left queued or running (jobs, commands, runbook
  runs).

## 6. Plan

1. done: Jobs, CommandBroker, OpenUds, JoinIntents, EventStream, Runbooks, Sessions
   with their runs, and the proofs of section 4;
2. done: GitHub login with its abstract ledger, root and reauth, groups, rooms, the
   configuration, start-up, social, notifications, buttons, views, coupons,
   preferences, the pages of a browser, live rooms, logs, replays, listings, the Phira gateway and the rate
   limiter, in composed runs;
3. done: the proofs of CommandBroker, of the components of `administration` with the
   refinement of the ledger, of those of `community`, of `services` and of `feeds`;
4. left to model: the composition of CommandBroker with OpenUds, with the broker's
   "command returns" as an abstract call that OpenUds implements.
