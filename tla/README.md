# Formal models of project_template_go

TLA+ models of the concurrent and stateful parts of the service, model-checked
with TLC; their safety properties are proved with TLAPS. `PROJECT.json` maps every
definition to the source lines it stands for and lists runs, mutants, hazards,
findings and theorems. Line references are to files under `src/`.

## 1. The system

A Go service template. `main.go` loads the configuration, opens the storage,
starts the API servers, the policy scheduler and the front end, waits for a
signal and undoes all that in reverse order.

| Component | State it keeps | Operations | Interacts with |
|---|---|---|---|
| Task queue `ability/ability_task` | table `async_tasks` (MySQL), the set `inFlightTasks` in memory | accept, cancel, claim, execute, report progress, finish, requeue orphans | started by the policy, called by API methods, executes registered methods |
| Policy `policy` | context, counter `runningWorkers`, flags `requeueRunning`/`purgeRunning`, a WaitGroup | rounds, dispatch of workers, maintenance jobs, stop | task queue, verification-code purge, storage |
| Verification codes and registration `api/api_auth/api_auth_verify_code`, `.../api_auth_register` | table `auth_verify_codes`: one row per recipient; `users` | send, deliver, check, register, purge | e-mail provider, user table, policy (purge) |
| Sessions `api/api_auth/api_auth_session` | table `auth_sessions` (hash of the refresh token, expiry, revocation) | log in, refresh, log out, gate | user component, every protected API method |
| Bridge and revocation `api/api_auth/api_auth_bridge` | map of logouts per user, behind an RWMutex | verify a foreign token, mark a logout, look a logout up | the gate, methods that log out |
| Users `ability/ability_user` | table `users` | create, authenticate, change nickname | registration, sessions |
| Storage `storage` | handles of up to four engines, behind an RWMutex | open, migrate, close, hand out a handle | everything above |
| Executer and registry `api/api_executer`, `api/api_supported_methods` | the method table, fixed after start-up | register, execute behind the gate | all protocols, task queue |
| Protocol servers (gRPC, WebSocket, JSON-RPC, MCP) | listeners, open connections | start, serve, stop within 5 s | executer |
| Configuration `config`, `*_config` | the configuration file; globals read from it | write the first file, load, validate, per-section defaults | `main`, storage, gate |
| Front end `frontend` | one HTTP server | start, shut down | `main` |
| Process helpers, test page, generators | none | wait for a signal; HTML and Markdown out of the registry | `main` |

What is hard, and hence what the models are about:

* **Task queue.** A claim is a transaction, its registration in memory happens
  inside it, the orphan scan reads that memory at one time and the table at
  another, statements fail or lose their reply, the process dies anywhere.
  Correct means: a row tells one consistent story, no two claims take one row,
  no id leaks in memory, done is final, orphans are picked up, every task ends.
* **Policy.** Counters and flags are shared between rounds and the goroutines of
  earlier rounds; stop must drain everything before the storage closes.
  Correct means: the worker limit holds, a maintenance job never overlaps
  itself, stop waits for all and returns when they have.
* **Verification codes.** Sends, slow deliveries, guesses, registrations and the
  purge race on one row; the clock is read before the lock; the row may not
  exist to be locked, and what that means differs between the engines. Correct
  means: bounded guesses, spaced and limited issues, only the latest delivered,
  unspent code is accepted.
* **Revocation.** Two clocks, whole seconds against nanoseconds, retention
  against lifetime plus leeway, a cache entry judged outside its lock. Correct
  means: a logout refuses every token really issued before it for as long as that
  token could be accepted, and lets in who logs in again.
* **Sessions.** A refresh reads, decides and writes while another refresh or a
  logout does the same; MySQL and PostgreSQL lock the row, SQLite detects the old
  snapshot; replies get lost. Correct means: a refresh token is spent once, a
  logout takes effect at once, no chain of refreshes outlives the session, and a
  failure never locks a client out.
* **Process and storage.** `main` is a ladder of steps with early returns and
  deferred calls; engines open one by one; server stops give up after 5 s; the
  first configuration file is written in place. Correct means: whatever fails,
  what was opened is closed, after its users; a stop ends; the gate does not open
  by accident.
* **Dispatch.** Four adapters lead to one executer; a credential comes as a header
  or an argument; the gate has types and a switch; its configuration may be broken.
  Correct means: a protected method runs only for whom the credential names,
  without seeing it, and the protocols agree.

## 2. Modules

| Module | Models | Relation |
|---|---|---|
| `TaskLifecycle` | what a client of a task may observe | abstract specification |
| `AsyncTask` | the task queue in one process over one table | implements `TaskLifecycle` (`ImplementsLifecycle`) |
| `AsyncTaskProofs` | theorems about `AsyncTask` | extends it |
| `PolicyProofs`, `TaskServiceProofs`, `VerifyCodeProofs`, `RevocationProofs`, `SessionProofs`, `ProcessProofs`, `DispatchProofs` | theorems about the module they are named after | extend it; `TaskServiceProofs` `INSTANCE`s `AsyncTaskProofs` and `PolicyProofs` |
| `Policy` | loop, goroutines, stop; what a goroutine's call does is open | |
| `TaskService` | both together: policy goroutines run the queue; stop, close, restart | `INSTANCE`s `AsyncTask` and `Policy` |
| `VerifyCode` | codes and registration of one recipient | |
| `Revocation` | logouts and lookups of one user | |
| `Session` | sessions, their tokens, the gate, password login | |
| `Storage` | storage configuration, open, choice of the primary, close | |
| `Process` | runs of the program: configuration file, start, requests, stop, crash | extends `Storage`; the policy of `Policy` is one worker here |
| `Dispatch` | registry, credentials, gate, executer and the four adapters | what happens to a token over time is in `Session` and `Revocation` |
| `MCAsyncTask`, `MCTaskService`, `MCVerifyCode`, `MCRevocation`, `MCSession` | symmetry sets for TLC | |
| `MCProcess`, `MCDispatch` | the configurations and calls TLC tries | |

### State and actions

`AsyncTask`. `row` is the committed table (status, process status as `outcome`,
started_at as a Boolean, progress, owner). `inFlight` is `inFlightTasks`. A
worker's `pc` follows `ExecuteNextQueuedTask`: *claiming* (before the SELECT),
*locked* (row locked by `FOR UPDATE SKIP LOCKED`), *marked* (updated and in the
in-flight set, uncommitted), *executing*, *finishing*, *unmarking*. Row updates
inside an open transaction become visible at `ClaimCommit`. `CommitFails` covers
both outcomes of a commit whose reply is an error. The scan is `ScanSnapshot`
(copy of the ids, line 305) and `ScanUpdate` (the UPDATE, line 308). A statement
that needs a row locked by an open claim waits (`held[w] \notin Locked`). How a
business call ends is one of five endings (`ProcessStatusOf`). `Crash` empties
the memory and rolls back what was open.

`Policy`. `loop` is the program counter of the loop goroutine, `quota` the rest of
`available - i`, `gor` the goroutines with their deferred calls in order: the
call, the counter or flag, `pending.Done`. `storage` says which engines are
open: without MySQL a round skips tasks, without a primary database it skips the
purge. `StopCall` cancels the context, `StopReturns` is `pending.Wait` returning,
`CloseStorage` is main's deferred close.

`TaskService`. The row locks, the goroutines and the context of both modules are
joined: cancelling the context makes the statements of claims and of the scan
fail but spares executions (`context.WithoutCancel`, line 217). `Restart` is a
crash of the process followed by a fresh start on the same tables, before or
after a graceful stop.

`VerifyCode`. A request reads the row for update (`LockRow`) and commits in one of
the actions of `Prepare` or `Answer`, or is rolled back. `at` is the clock reading
taken before the lock; checks use the clock after it. Codes are numbered by issue:
the collision of two random six-digit codes is left out. Deliveries fail, succeed
or fail after arrival. `LoseReply` is an update that fails or a commit whose reply
is lost. `engine`, chosen at the start, says what the statements do, at the default
isolation:

* *mysql*: the row is locked; where there is none, the gap is, by every reader at
  once. An insert waits for the other readers (`GapIsFree`), so of two first sends
  one is the victim of a deadlock (`Conflict`): 1213 is no duplicate key, the send
  is not tried again, and its caller gets an internal error.
* *postgresql*: nothing is locked where there is no row; both insert, one meets the
  unique key and starts over (`PrepareDuplicate`). A duplicate key of another
  statement ends the transaction (`DuplicatePoisons`).
* *sqlite*: nothing is locked; a write fails if the snapshot has been overtaken or
  somebody else is writing (`Writable`, `Conflict`).

`wrong` counts the comparisons of the latest code with wrong guesses, those of
transactions that are rolled back included (`RollBack`).

`Revocation`. `entry` is the user's value in the map. The clock of the service ticks
in fractions of a second. `Issued` is the set of tokens that may have been issued by
now: each was born at some tick of that clock (`born`, which no code reads) and
stamped by the identity provider's own clock, up to `Skew` ticks ahead or behind,
cut to whole seconds. A gate verifies, looks up, decides and, on an expired record,
deletes: four steps between which anything may happen. `RevokeUserTokens` reads
the clock in `LogoutBegins` and stores in `MarkLoggedOut`. `lost` remembers that the
latest logout was overwritten by an older one or deleted before its time; then the
store owes the requests nothing (`floor`).

`Session`. `row` is the committed table: `gen` numbers the refresh tokens of a
session, and stands for the hash. A call goes through *finding* (before the
SELECT), *deciding* (row read, the transaction open), *replying* (committed);
*creating* for a login; *lookup*, *admitted*, *revoking* for a request with an access
token. `engine` chooses between row locks (`lock`) and the snapshot rule of SQLite
(`MayWrite`: a transaction writes only if what it read is unchanged, else
`RefreshConflicts`). A login is one step over the form it uses, the limits of the
input, and the stored hash (`LoginVerdict`, `authenticate`). `late` remembers that a call came in after the logout had
committed. `hashPassword` is ideal: a hash is its parameters and its password;
passwords are given by their length in runes and in bytes. Users are not deleted
by the program, so the `FindByUserID` of gate and refresh finds its user.

`Storage` and `Process`. `cfg` is `storage_cfg` after `Apply`, `step` the engine that
`OpenStorage` is at, `open` the handles. In `Process`, `pc` follows `main`, `defers` is
its stack of deferred calls; `StopApiServices` is one deferred call whose four stops
are four entries. A file is one value per section: absent, off, invalid, on;
`Torn` holds the leading parts of the default file that a write may leave, and one
that no longer decodes. A server is *off*, *on* or *gave_up*; a handler is *busy* or
*holding* the database that `GormDB` gave it. That gRPC and WebSocket requests lose
their context when their server stops, and HTTP requests do not, is `ContextLives`.
An error of a `Close` is only logged and changes nothing.

`Dispatch`. Start-up adds the methods one by one (`AddMethod`) and settles the bridge;
then one call is made over all four protocols at once (`Served`). A call shares no
state with another, so it is one step. `Answer` is the class of an answer (value,
business error, failure, invalid call, silence), whether the method ran or its task
was stored, for whom, and whether it saw a gate token. A gate without a usable
session section, or whose database fails, answers a failure and not a refusal. A token is a record of its
claims, a claim the set of its values (empty if absent), times relative to the call.
`OwnMethods` are two methods of a project made from the template: one that needs no
`AuthenticatedUser`, one asynchronous; the template's own protected methods all ask
for it.

## 3. Runs

| Run | What it asks | Bounds | States |
|---|---|---|---|
| `queue_safety` | all safety of the queue, and that it implements `TaskLifecycle` | 2 tasks, 2 workers, 1 user and the anonymous one, 1 report, 1 fault, 1 crash | |
| `scan_overlap` | **violated**: an executing task is never started again | 1 task, 2 workers | |
| `policy` | safety of loop and stop; stop returns; the loop goes on | 4 goroutines, limit 2, 2 callers of stop | 0.2 M |
| `service` | drain, close and restart with real tasks; every task is served | 1 task, anonymous, 3 goroutines, limit 1, 1 fault, 1 crash | 0.4 M |
| `revocation` | a logout that the store has not lost ends older tokens; who logs in again is let in | 2 gates, 2 logouts, 6 ticks, 2 ticks a second, clocks 1 tick apart | 2.4 M |
| `revocation_overwrite` | **violated**: the store keeps the latest logout | 2 logouts | |
| `revocation_leeway` | **violated**: a retention of one token lifetime is enough | 1 gate, 1 logout | |
| `code` | guesses, acceptance, spacing, hourly limit, what a sender is told, on each engine | 3 engines, 2 requests, 4 codes, limit 2, 2 attempts, hour of 5 ticks, 1 fault; 9 ticks on MySQL, 4 on the others | 3.1 M |
| `code_poisoned` | **violated**: a taken name is invalid input, on PostgreSQL | 2 codes, 4 ticks, no fault | |
| `session` | tokens, logouts, expiry, lost replies, registered passwords | 2 calls, 1 session, 3 refresh tokens, 3 passwords, 5 ticks, 1 fault | 0.4 M |
| `process` | closing, order, gate, primary, end of a stop | 228 operator files and none, 2 starts, 2 requests, 1 fault | 0.6 M |
| `dispatch` | the gate over four protocols, and that they agree | 36 configurations, some 4,300 calls | 0.2 M |

Why the bounds are enough. The races of the queue are between a claim and one
other actor over one row; two tasks and two workers give every such pair, and a
third actor in the scan. One fault and one crash hit every step; a second of
each adds a repetition of a recovered state. In `policy` four goroutines let two
workers and both jobs be alive at once, with the limit reached. `service` needs one
worker beside the two jobs. In `revocation` a tick is half a second and tokens are
born and stamped at every tick, so that cutting `iat` and `exp` to whole seconds moves
half of them; a record stored at tick 2 expires after 5 and is deleted at 6, with a
second logout or a second request between any two steps of that; the difference of
the clocks is smaller than the leeway, which `Verified` grants.

In `code` a full window, a second one and a purge of the row fit into nine ticks; the
hourly limit is `2 * HourlySendLimit - 1` per sliding hour because the window is
fixed and always begins with an issue. Those need the later ticks and are the same on
every engine, so `Horizon` gives them to MySQL only; what differs between the engines,
two sends or two submissions from one reading of the row, happens within four ticks.
`MaxStall` bounds the wait of a transaction for its lock: the purge waits a day after
expiry, no transaction does. To keep the run small, submissions and database errors
come only until `LastSubmit`, and submissions only while at most `MaxGuessable` codes
were issued: they depend on one row and its current code, and code 2 has replaced
code 1 by then; sends and the purge go on to the end. No submission comes once a code
was compared with more than `MaxWrong` wrong guesses; with two more in flight that is
enough to pass the limit of two.

The clock of `VerifyCode` ends at its bound, so its run and that of `Process` (runs
of the program end) do not check for deadlock, nor does `dispatch`, which makes one
call. In `session` the races are between two calls over one row; sessions share
nothing; three refresh tokens are two rotations, and five ticks pass the end of the
session (2 after its birth) and of every access token (1) with its leeway (1). The
passwords are the shortest and the longest that can be registered and one that no
login takes; the proof is for every length. In `process` two starts let
the second read what the first left; two requests let one server give up while
another one's handler goes on; the storage engines leave out PostgreSQL, which is
opened as MySQL is.

Each property has a mutant in its module, a plausible bug of the lines it is
mapped to (for instance a plain SELECT instead of FOR UPDATE, or an UPDATE that
finds its row by id alone), under which the same run fails.

## 4. Fairness

`Policy!Scheduling`: the loop and the epilogue of goroutines run, `Wait` returns
once it can. Calls need not return: `LoopKeepsRunning` holds even so, and
`StopReturnsEventually` has it as its hypothesis, for stop has no deadline.

`TaskService!Fairness`: the Go scheduler and MySQL run what is runnable: weak
fairness of the loop, of every goroutine and of `Wait`; here an Execute does return.
Clients, faults and crashes owe nothing. `EveryTaskIsServed` assumes that no scan
goes on forever hitting the window of `scan_overlap`; without that assumption a task
could be torn from its workers again and again.

`Process!FairSpec`: `main` and the goroutines of the policy go on. Handlers owe
nothing: `ShutdownEnds` holds although a request never returns.

## 5. Proofs

Every invariant and every action property of a passing run is a theorem, for all
values of the constants that the assumptions of its module admit (and, where one is
named below, of a hypothesis of its own), and so is the refinement
`ImplementsLifecycle`. Each proof module has an inductive invariant
`Inv`, which TLC has checked on the module's run, the lemmas `... => Inv'` by
action, `Invariance == Spec => []Inv`, and the theorems that follow from it.

**`AsyncTaskProofs`** (any tasks, workers, users, reports, faults, crashes).
`TypeCorrect`, `RowsAreConsistent`, `ClaimsAreExclusive`, `InFlightNeverLeaks`,
`NoStrayRunningRow`; `DoneRowsAreFinal`; `LifecycleIsImplemented`, by showing that
every step is a step of `TaskLifecycle` or leaves it alone. `Inv` is the conjunction
of the five invariants. None is inductive alone: a commit writes *running* over a
row that must still be queued, which only the exclusiveness of claims gives; that a
row is consistent after a finish needs the verdict's type; that a running row is
held needs to know that a worker which gives its task up has finished it or met a
fault. Assumed: bounds are numbers, NULL is no user, reports are percentages.

**`PolicyProofs`** (any finite set of goroutines, any limit, any callers of stop).
`TypeCorrect`, `WorkersAreLimited`, `WaitGroupIsUsedOnce`. That counters stay in
`Nat`, and the limit, need `CountInv`: `running` is the number of workers before their
release, `pending` that of live goroutines and the loop. Then `QuotaInv` is the
limit, `BusyInv` says that a raised flag has exactly one goroutine to lower it, and
`StopInv` that nobody returns from stop, and nothing is closed, before the
WaitGroup is empty. The WaitGroup is not reused because `pending = 0` leaves neither
the loop nor a goroutine (`NothingPending`).

**`TaskServiceProofs`** (as the two above, with restarts). `StopIsGraceful`,
`StorageIsOpenForWork`, `ScansDoNotOverlap`. `Inv` is the invariants of both halves
and `JoinInv`: who works in the queue is in the call of its goroutine. A step is one
of each half or none, so both invariants carry over (`QP!InvStep`, `PP!InvStep`), with
two exceptions proved apart: a claim or a scan gives up for a cancelled context
without a fault (`GivingUpKeeps`), and a restart is an `Init'` of the policy. An empty
WaitGroup then means idle workers, and idle workers an empty in-flight set and no
row running (`IdleQueue`).

**`SessionProofs`** (any calls and sessions, lifetimes, faults, both engines).
`TypeCorrect`, `LogoutHoldsAtOnce`, `SessionsHaveAnEnd`, `TokensAreSpentOnce`,
`TokensStayReachable`, `PasswordsLogIn`. `Inv` adds to the types that a row expires
`RefreshTTL` after its birth, that on a locking engine a refresh which has read a row
holds its lock, that a late call finds its session revoked, and that no client's
token is newer than the row's. Spending once then comes from the lock, or from the
snapshot test of SQLite. `PasswordsLogIn` is about every password, of any number of
runes and bytes, that `ValidatePassword` takes: neither form's limits turn it away
(`RegisteredPasswordsAreTaken`) and its hash is one that `verifyPassword` accepts.
Assumed: lifetimes are positive, a rune has one to four bytes.

**`VerifyCodeProofs`** (any finite set of requests, any limits and time spans, each
of the three engines). `TypeCorrect`, `GuessesAreFew`, `SupersededMeansNewer`,
`AcceptedMeansLive`, `IssuesAreApart`, `HourIsLimited`. `LockInv` is the lock
discipline, also where there is no row to lock or nothing is locked; `CodeInv` trades
wrong guesses for attempts and faults; `IssueInv` relates the row to the history of
issues, also after the purge (an absent row means that the latest issue expired
`KeepExpired` ago); `ReqInv` and `UniqueInv` say whose code a late delivery marks. The
hourly limit needs `WindowInv` (the window begins with an issue, and few issues lie in
the hour before it). Assumed: an hour and a stall are no longer than an expired row is
kept (`DayAssumption`: a day in `verify_code.go`). `IssuesAreApart` has a
hypothesis of its own, a resend interval no longer than a row lives, TTL included,
less one stall: the purge forgets a longer one, and the configuration only asks for an
interval of a second or more. `GuessesAreFew` speaks of the engines that lock rows, and
grants one comparison more for each database error; without row locks there is no
bound (section 6).

**`RevocationProofs`** (any gates, callers, logouts, clocks and time spans).
`TypeCorrect`. `NewSessionsBegin`, from `StampInv` and `RefusalInv`: no record, stored or
read, is later than the latest logout, and who was refused met such a record with an
older stamp; what remains is the arithmetic of two clocks and whole seconds.
`LogoutEndsSessions` has the hypothesis that records are kept for the life of a token
and the leeway, which `revocation_leeway` refutes it without. Its invariant `KeptInv`
says of the store and of every request that the latest logout, unless it was lost, is
on record or too old for any token issued before it, and that a request which has
read the store judges by no less.

**`ProcessProofs`** (any operator files, runs, faults, crashes, requests).
`TypeCorrect`, `ExitsCloseStorage`, `UsersAreWaitedFor`, `ServedWithPrimary`,
`GateStaysShut`. `DefersInv`: the stack of deferred calls is a lower part of one
fixed order, as high as `main` has climbed. `StorageInv`: outside of `OpenStorage`
engines are open exactly while the close is deferred. `UsersInv`: what runs has its
stop above the close on that stack. `GateInv`: nothing the program writes itself,
even torn, says *off*. Assumed: an operator's file has known sections.

**`DispatchProofs`** (any configurations, calls, leeway). `GateIsHeld`,
`ProtocolsDoTheSame`. `RegistryInv`: unique names, and the token argument exactly in
protected methods; `StartInv`: the servers wait for registry and bridge, and a
verifier was built from a valid configuration; `ReplyInv`: an answer is the one the
present registry, settings and verifier give. `GateIsHeld` has the hypothesis
`GenuineTokensVerify`, that `verifyBridgeJWT` accepts just the genuine tokens: which
ones these are is a constant, and run `dispatch` compares them token by token, at
the boundaries of each claim.

What the proofs changed in the models: `VerifyCode!Send` counted sends in flight
wrongly for three or more requests; bounds of clocks are positive; the operator's
files of `Process` and the calls of `Dispatch` got their types; the cases of `Dispatch`
are conditionals, which the provers read.

Only model-checked: the liveness properties `EveryTaskIsServed`,
`StopReturnsEventually`, `LoopKeepsRunning` and `ShutdownEnds`, which need fairness and
`ENABLED`, out of the prover's reach; and the properties that the code does not keep
(section 6), where TLC has the counterexample.

## 6. Where the code departs from what it says

* `scan_overlap`. The orphan scan copies the in-flight ids before its UPDATE
  runs. A claim that marks and commits in between is running and not in the copy,
  so it is put back to queued and a second worker executes it while the first
  still does. As a consequence `task.cancel` also accepts a task that is executing,
  against `ability_task.go:103`.
* `revocation_overwrite`. `RevokeUserTokens` reads the clock before the lock: of two
  concurrent logouts the earlier instant may be stored last.
* `revocation_leeway`. A retention of one token lifetime, the documented minimum,
  ends while the verifier still grants its leeway.
* `code_poisoned`. On PostgreSQL a duplicate user name or address aborts the
  transaction, the UPDATE after it fails, and the caller gets an internal error
  instead of invalid arguments; the code stays unspent.

Seen while modelling, without a run of its own:

* `LoggedOutAt` of the memory store judges a record outside the lock and then deletes
  by key (`revocation.go:103-106`), so a logout stored in between is lost: `lost` in
  `Revocation`, for which `LogoutRevokes` makes an exception.
* The comparison of `iat` with the logout (`revocation.go:56`) has no margin for the
  clock of the identity provider, while the verifier takes an `iat` that is `leeway`
  ahead: a token issued before the logout by less than the clocks differ survives it.
  Hence `Skew` in `LogoutRevokes`.
* On SQLite two guesses compare the code in one snapshot; the decrement of the second
  fails, and its comparison has cost no attempt, against `docs/ability_auth.md:83`. A
  database error does the same on the other engines, once for each error. Hence the
  condition and the `faults` in `GuessesAreBounded`.
* The memory store loses its records at a restart, as its comment says; a token
  issued in the same second as a logout, after it, is refused because `iat` has no
  fraction.
* Two first sends to one address end, for one of them, in an internal error: on
  MySQL as the victim of a deadlock, on SQLite as the second writer. `verify_code.go:307`
  tries again only after a duplicate key.
* `StopApiServiceWithWebSocket` reports that the server "stopped successfully"
  (`api_websocket.go:239`) while hijacked connections may still be working, and
  the storage is closed after it.
* The stop of JSON-RPC leaves `httpServer` set (`api_json_rpc.go:55-70`), the other
  stops clear theirs.
* A first start that dies while writing the configuration leaves a file that is not
  empty and hence never rewritten (`config.go:351`): later starts refuse it for lack
  of `api_cfg`, or serve half configured, with the gate closed.
* Under `auth_type: bridge` every protected method of the template refuses its
  caller, because all of them ask for `AuthenticatedUser`; an asynchronous method runs
  later without the identity it was accepted under.
* MCP takes missing arguments for an empty object and answers for unknown tools
  itself, and the SDK refuses a call without an id; the others answer an invalid call, or a business error. JSON-RPC and
  WebSocket answer errors of notifications.
* The resend interval has no upper limit in the configuration, but is forgotten with
  the row a day after the code expired: a longer interval would not be kept
  (`IssuesAreApart`).
* A nickname is limited to 32 bytes (`ability_user.go:62`); its schema and
  `docs/ability_user.md` count characters.
* Of the commands in `custom_cmd.go:11` only the first is accepted (line 39-46).

## 7. Plan

Done: every component with state or decisions of its own is modelled, and the
safety properties of the runs are proved. Left, in this order:

1. Abstract specifications beside `TaskLifecycle`: a session as its holder sees it
   (alive, rotated, ended) for `Session`, and a graceful stop (run, drain, close)
   for `TaskService`, each with the refinement checked and proved step by step.
2. From `Inv` of `TaskService`, that its table implements `TaskLifecycle` too, across
   stops and restarts.
3. What the run `scan_overlap` leaves true: how an overlap can arise, as a theorem
   (two executions of a task only after a stale scan).

## 8. Not modelled

* Wire formats, schemas, encryption and encoding of answers, the plain HTTP pages,
  CORS and origin checks: no state, no decision that a property tells apart.
* The value checks of the e-mail, verification and session sections
  (`api_auth_config.go:144-229`): they turn a request into an internal error,
  which is among the errors of `Session` and `VerifyCode`.
* The comments of the configuration file (`config.go:55-160`), the formats other than
  the one in use, command-line flags, the logging of `PanicHandler`.
* Hash functions, signatures and random numbers: ideal. The SDKs under the storage,
  gRPC, WebSocket and MCP: modelled from how this code uses them.
* `TaskStatus`, `TaskList` and the storage getters nobody calls: they read only.
* The test page, the document generator and generated protobuf code: developer
  tools and generated text.
