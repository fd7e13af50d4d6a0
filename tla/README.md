# CrypticQuest backend: specification, model checking and proofs

CrypticQuest is the Go server of a puzzle game. Players solve levels in a fixed
order by submitting flags; admins edit levels, hints, tools and accounts through
a panel. All state is in one SQLite database. Every HTTP request is handled in a
goroutine of its own, **no handler takes a lock**, and apart from two
transactions every handler is a sequence of autonomous SQL statements. What can
go wrong therefore happens *between* statements: a handler decides on a row it
read earlier. Two more programs open the same file: the seed, and any second
server. The modules below follow these statements one by one, and the theorems
say for every size of the system what the runs say for a small one.

Contents: [Inventory](#inventory) · [Modules](#modules) · [Runs](#runs) ·
[Bounds](#bounds) · [Assumptions and fairness](#assumptions-and-fairness) ·
[Proofs](#proofs) · [What the runs refute](#what-the-runs-refute) ·
[Not modelled](#not-modelled) · [Plan](#plan)

## Inventory

| Component | State | Operations | Hard behaviour | What makes it correct |
|---|---|---|---|---|
| Progress and gate (`store/progress.go`, `store/levels.go`, `handlers/submit.go`, `levels.go`, `hints.go`, `files.go`) | `levels`, `user_progress` | submit, view (level, hints, file), list; create/update/delete level; progress rewrite | the gate is three statements; progress is recorded in a database that may have changed since; list and gate are two different queries | levels are played in order; nobody is stuck; a solve is earned; a locked level stays closed |
| Accounts (`store/users.go`, `handlers/login.go`, `register.go`) | `users` | register, login, bootstrap admin | login checks a hash and inserts a session later | unique names, no session without account |
| Sessions (`store/sessions.go`, `middleware/auth.go`, `auth/session.go`) | `sessions` | read, slide, lazy delete, logout, mass delete | several requests of one browser read the same row, then delete or refresh it | active players stay in, deleted and abandoned sessions are dead |
| Panel, users (`handlers/admin_users.go`) | `users`, `sessions`, `user_progress` | role, level, reset password, delete | the actor's row is as old as the request; a reset is two statements | one admin remains; a reset shuts the old password out |
| Panel, levels (`handlers/admin_levels.go`) | `levels` | create, update, delete | edits meet submissions under way | content edits never corrupt progress |
| Toolkit (`store/tools.go`, `handlers/tools.go`, `admin_tools.go`) | `tools` | list, file gate, create/update/delete | NULL means open to all; deleting a level sets NULL | list and file gate agree; tools are earned |
| Hints (`store/hints.go`, `handlers/admin_hints.go`) | `hints` | read, replace list | transaction of N+2 statements | a reader never sees half a list |
| SQLite (`db/db.go`) | WAL, snapshot, write lock | statements, deferred transactions | upgrade of a stale read transaction fails at once | a transaction is all or nothing, and is always given back |
| Migrations (`db/db.go`, `migrations/*.sql`) | schema, `schema_migrations` | 1 up, 2 up, 2 down | 2 moves data between tables; server and seed may migrate one file together or die in it | nobody serves on an old schema, no tool assignment is made up, and one is lost only for another |
| Seed (`cmd/seed`) | content tables | wipe and load | second process; resets id sequences | all or nothing |
| Server process (`cmd/server`) | up or down | start, bootstrap, crash | crash between two statements | restart keeps the panel reachable |
| Files (`internal/files`) | directory tree | open, list | path confinement | never escapes its directory |
| Pipeline (`middleware/logging.go`, `cors.go`) | none | log, recover, CORS | a panic in a handler | a panic ends one request only |

Interaction: `Routes` wraps every handler in Logging → Recover → CORS; player
routes go through `RequireLogin` (Sessions reads Accounts in one join), panel
routes through `RequireAdmin` on top of it. Handlers receive the user row by
value and never read it again. Deletions propagate through foreign keys
(`ON DELETE CASCADE` for sessions, progress and hints; `SET NULL` for tools).
Server and seed share nothing but the file: its write lock, its version table
and its rows.

## Modules

In the modules of the handlers **one action is one SQL statement (or one transaction) with the
Go code that follows it** up to the next statement. What a handler remembers
between two statements is a record in `req`, indexed by request slot; its
`phase` names the statement the handler runs next. An error response changes
nothing, so 400, 403, 404 and 409 are guards or a return to `Idle`. `Abort` is a
failed statement, an early return or a panic caught by `Recover`.

**Campaign** is the abstract game: `players`, the number of `published` stages,
and the `stage` each player has completed; `Advance` moves one player one stage,
`Publish` adds a stage at the end, `Leave` removes a player. No SQL, no
order_index, no requests.

**Progress** is the gate. `order` and `flag` are the columns of `levels` (0 means
no such row), `seq` its AUTOINCREMENT counter, `solved` is `user_progress`.

| action | code |
|---|---|
| `SubmitFlag`, `ViewLevel` | the handler up to the row of `LevelForSubmit` / `LevelByID`; `GetLevel`, `GetHints` and `ServeLevelFile` walk the same path and are one action |
| `ReadCurrent`, `Gate` | the two queries of `IsLevelAccessible` |
| `Judge` | comparison, `RecordSolved` (INSERT OR IGNORE with foreign keys), response |
| `ListLevels`, `ReadList`, `Respond` | the two queries of `ListAccessibleLevels`, and the response |
| `CreateLevel`, `UpdateLevel`, `DeleteLevel`, `SetUserProgressToLevel`, `DeleteUser` | the store functions of the same name |

`SteadySpec` leaves out the edits that disturb published levels, `MoveSpec` everything
of the panel but moving and rewording levels. The seed is not in this module, so ids
are never given twice here; see [Not modelled](#not-modelled).

`Lower` (case folding) is a constant function; flags and answers are opaque.
`witness` is history: whether the requested level was open, or the answer
matched, at some moment since the handler started.

**Accounts** has `users` (role, name, secret), `sessions` (owner by token), the
process being `up`, and handlers of login and panel. A secret stands for a
password with its hash; `Login` starts from the successful check. `proof`,
`late` and `cutShort` are history: the secret a session was opened with, the
sessions opened with one already replaced, the users whose last reset failed in
the middle. `Boot` is `bootstrapAdmin`: `EnsureAdmin`, or
nothing when no admin is configured, the hash or a statement fails, or an admin is
there. The COUNT and the INSERT of `EnsureAdmin` are one step, since the server does
not listen yet. `Crash` loses all handlers. No rows are ever handed back: ids and
tokens are numbered. `Rows` reads the accounts as a value of Tables.

**SessionClock** is `RequireLogin` on one session, statement by statement,
against a clock. Expiries are counted relative to now and -1 is "passed", which
makes time bounded without bounding the run. `Check` holds the two comparisons
with `time.Now()`, `DeleteSession`, `DeleteFails`, `RefreshSession` and `RefreshFails` their
consequences, `Logout` every deletion from outside. `promised`, `quiet`,
`loggedOut` and `regular` are history.

**Tools** extends Progress with the table `tools`: `path` is the content column
(a file below `files/tools/`, or a link), `unlocksAt` the level that unlocks it
(0 is NULL), `toolSeq` its AUTOINCREMENT counter. Every step of Progress goes on
as it is (`LevelStep`), with the foreign key (`SetNull`) acting in the very
statement that deletes a level; `CreateTool`, `UpdateTool` and `DeleteTool` are
the store functions of the panel. `UnlockedTools` is the player's list,
`IsToolFileUnlocked` the gate of the files; each is one query, so reading them
needs no action of its own. `Rows` reads the variables of Progress and Tools as
one value of Tables (`Db`), without the hints, which no step here touches but by
deleting a level: `SameStatements` (and `AccountStatements` in Accounts) compare the
two ways the project has of writing the same SQL.

**Tables** is the database as a value: one snapshot of the tables that
transactions touch (`order` and `seq` of levels, `hints`, `ties` of tools,
`role`, `solved`), and every statement as an operator from one such value to
the next. `Edits` is what a single statement of any other handler can make of
it: levels and tools created, updated and deleted, accounts registered,
bootstrapped and deleted, solves, and statements on rows that are not kept here. Of
these a run lets loose the ones that `Elsewhere` names.

**AtomicStore** is the abstract store, the one the handlers are written against:
no connections, snapshots or locks. A request asks for some changes (a hint
list; a role, then progress; the content of a seed file) and perhaps reads; each
change and the read happens at one moment (`Change`, `Read`), and an answer is
`Succeed` (all of it happened), `Miss` (the row was missing at this moment) or
`Fail` (not all of it need have happened, and nothing else did).

**Transactions** is the same store as the code has it, on SQLite: `tx[c]` is what
the connection of request `c` holds. A `scan` is a SELECT under iteration; a
`read` is a deferred transaction before its first write, `stale` once somebody
committed after its snapshot; a `write` holds the lock and sees its own `image`,
which `Publish` makes the database.

| action | code |
|---|---|
| `AdminGetHints`, `AdminReplaceHints`, `AdminUpdateUser`, `Seed` | the handlers (and `cmd/seed`) up to their first statement |
| `SetUserRole` | one UPDATE, on its own |
| `Check` | `SELECT 1 FROM levels` / `FROM users` in front of a write (it opens the snapshot), or `AdminLevelByID` in front of a read (it does not) |
| `Clear`, `Refuse` | the DELETE that follows: the upgrade of the snapshot to a write, or `SQLITE_BUSY` at once |
| `ReplaceHints`, `SetUserProgressToLevel` | the INSERTs of the store functions of the same name |
| `WipeTables`, `LoadLevel`, `LoadTool` | the seed's `load`, with its refusals of a file |
| `Commit` | COMMIT, and for a single transaction what the handler does next |
| `HintsForLevel`, `NextRow` | the query and `rows.Next`, row by row |
| `AdminUserByID`, `Report` | the read behind the answer of PUT, the seed's last line |
| `TimeOut` | `busy_timeout` runs out on a statement that waits |
| `Abort` | any other failed statement or a panic: deferred `Rollback` / `rows.Close`, answer 500 |
| `Crash` | the server dies with all its requests, or a seed does |
| `OtherStatement` | one statement of any other handler |

In `Progress` and `Accounts` the two transactions are one action each; the
refinement of Transactions to AtomicStore is what entitles them to it.

**Migrations** is `db.Migrate`, as server and seed run it at every start. Per
process: `ReadVersion`, `SetDirty`, `Run` (the body, in a transaction), `SetClean`;
`Stop` anywhere. `Turned` is the body of 000002 (and, the other way round, of its
down): UPDATE with a scalar subquery, any of the rows when several qualify.
`StepDown` is the operator's `migrate down 1`. While a process is through, the panel
and the seed write the assignments (`WriteTool`, `DeleteLevel`, `LoadSeed`), so that
a level may unlock several tools by the time the file is taken back. `origin` and
`disturbed` are history: the assignments as the file came with them or as the panel
or the seed last left them, and whether anybody died in, or started into, a
migration. That golang-migrate's lock on SQLite is a flag of one process, and the
order of its marks, are modelled from how `db.Migrate` uses the library and marked
external.

**MCProgress**, **MCAccounts**, **MCSessionClock**, **MCTools**,
**MCTransactions**, **MCMigrations** fix small instances. **ProgressProofs**,
**AccountsProofs**, **SessionClockProofs**, **ToolsProofs**,
**TransactionsProofs**, **SchemaProofs** (on top of TransactionsProofs) and
**MigrationsProofs** hold the theorems.
Operators introduced by a comment starting with "Mutant" are faulty variants of
the definition that follows them. They are used to show that a property can
fail: with the variant in place of the definition, the run must refute it.

## Runs

| run | what is let loose | what it shows |
|---|---|---|
| ProgressFull | one request slot, one player, every panel edit | `TypeOK`; `Integrity` (no orphan progress, unique order, ids behind the sequence); `NeverStuck`; `ListMatchesGate`; `EarnedSolve` |
| ProgressSteady | two players, two slots, panel edits that keep published levels in place | `LinearPlay`, `SolvedStayOpen`, `GateSound`, `ListIsOpen`, and the refinement `ImplementsCampaign` |
| AccountsFull | two slots, crashes, failures, restarts | `TypeOK`; `Integrity`; `OldSessionsExplained`; `LockoutNeedsStaleActor`; `AccountStatements`: each step is, for table users, a statement of Tables, and no id is given twice |
| SessionClockFull | three requests of one browser | `TypeOK`; `ActiveStaysIn`; `DeletedIsFinal`; `AbandonedIsDead`; `PromiseIsKept`: a refreshed expiry holds, or is broken within two request durations of the refresh |
| ToolsFull | everything of ProgressFull with tool writes in between; two levels, two tools, two files | `ToolsTypeOK`; `NoDanglingTie`; `ToolsEarned`: a tool opens by an earned solve, a rewrite of the progress, an edit of it, or the deletion of its level; `FilesKept`: editing levels never closes a file; `SameStatements`: each step, tool writes included, is a statement of Tables |
| TransactionsFull | two connections, every kind of request, good and bad seed files, deletions of levels and accounts, new tools and other writes in between, failures and deaths anywhere | `TypeOK`; the refinement `ImplementsAtomicStore`; `NothingLeftOpen`: connections come back without a transaction; `CheckedRowStays`: what was checked without a lock still holds at the commit; `SchemaHolds`: no commit breaks a constraint; `WriterNeverWaits`; `NoRequestGoesBack`: each statement brings its request nearer to the answer; `Answered`: nobody waits for ever |
| MigrationsFull | three processes that start, migrate, die; an operator who steps down; panel and seed writing the tools at the latest schema | `TypeOK`; `CleanMeansCurrent`; `ReadyIsCurrent`; `AssignmentsCarried`: migrations make up no assignment and lose one only for another of the same level or tool; `UndisturbedIsServed`: an undisturbed start is never turned away; `StartServes`: an undisturbed start ends in serving |
| ProgressStaleGate, AccountsLockout, AccountsLoginRace, SessionClockRace, TransactionsBusy | the smallest instance with the fault (ProgressStaleGate: no panel edits but moving and rewording) | a sentence of the documentation is refuted, see below |

The Accounts runs switch deadlock checking off: ids, secrets and tokens are
bounded, and when they are used up with every account deleted nothing is left to
do. The other runs check it. In Transactions it is the deadlock one would fear:
two transactions that each hold a snapshot and want the lock.

## Bounds

`MaxLevelId` 3 and `MaxOrder` 3: inserting in front, between and behind, swapping
two levels and reusing (not) an id all need at most three; a prefix with a hole
needs two solved or unsolved neighbours. Two flags, one of them in two cases,
and one answer separate equal, equal up to case, and wrong. Two players and two
slots give every pair of handlers; one slot is enough in ProgressFull because
every panel edit is an action of its own that interleaves with the handler.
Accounts: three ids let an admin, another admin and a newcomer meet; three
secrets allow two resets and a registration; three tokens cover an old session, a
new one and one opened in between. SessionClock: lifetime 6, threshold 4,
request duration 1, pause 2; the relation `Gap + 2 * Duration <=
SessionRefreshThreshold` is met exactly, so an off-by-one would show. Tools: two tools may share a file, or be tied
to the same level or to different ones; one player and one slot, because no
property relates two players.

Transactions: two connections are enough for a writer and the one it overtakes,
two writers that want the lock, and a reader under a writer; a third statement in
between is `OtherStatement`, which needs no connection. `MaxLevelId` 2 gives a
seed file of two levels, in an order that is not theirs, and `ann` a rewrite that
takes the first of two. `Offered` holds one request of each shape: both parts of a PUT,
a role alone, progress alone, and, for `bob`, requests about an account that does
not exist. The three seed files are a good one, one that fails in its second level (after rows were
inserted) and one that fails in its tools. `Elsewhere` is what others do
meanwhile in this run: delete levels and accounts (the statements that make a row vanish
that was checked, or that a later part of the request needs), create a tool (a panel
write next to the seed's) and write elsewhere (which makes snapshots stale). With the
other statements as well the run does not end in a few minutes; the theorems allow all
of them, in any number, and the runs of Tools and Accounts take each of them.
The lists are two texts long, so that half a list exists. Levels enter the
database through the seed. The wipe is one step, and a level of a seed file goes in with
its hints: both happen under the write lock, in an image nobody else
reads, and every failure in between has the same outcome as a failure
right after. Migrations: three processes are two that race and one that comes
after; three levels over two tools let two levels share a tool on the way up and two
tools share a level on the way down, so that both subqueries have a choice to make.

Symmetry is used over users and request slots only, which no definition tells
apart, and in no run with a liveness property.

## Assumptions and fairness

The runs about Progress, Accounts, SessionClock and Tools assume no fairness:
what they state is safety, and a handler that is never scheduled again is the
same as one that aborts. Two runs ask whether things come to an end:

* `Transactions!Fairness` is WF of `Continue(c)` for each request: a goroutine (or
  the seed) that can run is run. Waiting for the lock is no exception, since
  `busy_timeout` makes every wait end in `TimeOut`. Weak fairness is enough,
  because a waiting request always has a step: it gets the lock, or it times out.
  `Abort`, `Crash`, `OtherStatement` and new requests get none.
* `Migrations!Fairness` is WF of `Migrate(p)` for each process: one that was started
  goes on running. Neither starts nor ends are fair.

`Answered` and `StartServes` rest on these, and are model-checked only. What they
need besides fairness is safety, and proved: a writer that never waits and a
measure that every statement lowers for the one, a start that cannot fail for the
other. The refinement `ImplementsAtomicStore` is about safety.

* SQLite executes a statement, and a committed transaction, atomically, and
  foreign keys are on for every connection (`db.Open`).
* `SteadySpec` is `Spec` without those panel edits that move, insert in front,
  or delete published levels, and without progress rewrites. It is the "strictly
  linear play" `progress.go` counts on; what happens without it is the subject
  of the runs that refute.
* `CalmSpec` leaves out failures and crashes, to show that the two races of
  Accounts that are refuted need none.
* `crypto/rand` never repeats a token or a temporary password.
* `ActiveStaysIn` is about players who return at least every `Gap` and whose
  refreshes do not fail; `Duration` bounds the time spent inside `RequireLogin`.

## Proofs

All theorems hold for every value of the constants: any number of users, slots,
levels, tokens, any durations. They rest on the named assumptions of the modules
(`BoundsAssumption`, `NullAssumption`, `NameAssumption`, `TimeAssumption`,
`ToolAssumption`, `TablesAssumption`, `SlotAssumption`, `JobAssumption`,
`NoneAssumption`).

* **ProgressProofs.** `TypeCorrect`; `SchemaIntegrity` is inductive with the type
  invariant. `NobodyIsStuck` and `ListAgreesWithGate` are counting arguments over
  `Rank`: ranks of distinct levels differ, so the unsolved level of lowest order
  has at most as many levels at or below it as there are solved ones plus one.
  `SolvesAreEarned` needs `MatchSeen`: a submission that will be accepted and
  whose row still exists has been seen to match. For the steady campaign
  `SteadyInv` joins `TypeOK`, `Integrity` and `LinearPlay` with `Knows(r)`, what
  each handler's locals still say about the database: the order_index is the
  level's own, the count read is at most today's, an admitted level is open.
  LinearPlay alone is not inductive, because the admitted handler writes on the
  strength of its locals. From it follow `PlayIsLinear`, `GateIsSound`,
  `ListsAreOpen`, `SolvedLevelsStayOpen` and the refinement
  `CampaignIsImplemented`: each step is a step or a stutter of Campaign.
* **AccountsProofs.** `TypeCorrect`, `SchemaIntegrity`, `OldSessionsAreExplained`,
  `LockoutTakesAStaleActor`; `AccountsShareTheDatabase`, for which `Integrity` is
  needed (an id beyond the sequence has no row, so a new account is one of
  `Newcomers`); and `OneAtATimeKeepsAnAdmin`: if there is only one
  request slot, an admin always remains (proved only; no run repeats it). So is
  `OneAtATimeShutsOut`: with one slot and nothing failing (`CalmSpec`), a reset
  shuts the old password out. `OldPasswordShutOut` alone is not inductive; what
  makes it so is `HashIsCurrent` (the hash a login compared with is still the
  account's, and no session was opened late) and `NoneCutShort`. Together with the
  runs that refute the two properties this says where the faults lie: in the
  overlap of two requests, and, for the old password, in a reset that fails
  half-way.
* **SessionClockProofs.** `TypeCorrect`, `DeletedStaysDeleted`;
  `AbandonedStaysDead` from `FadingInv` (an unexpired expiry, in the row or read
  from it, is no further away than what `quiet` leaves of the lifetime, and a
  refresh in flight began before it ran out); `ActivePlayersStayIn`, under
  `ActiveEnough`, from `ActiveInv`: after a pause of `quiet` the row still has
  `SessionRefreshThreshold - Duration - quiet` left, and whatever a request read
  is no older than the request. `PromisesAreKept` is what remains of the refuted
  `RefreshHolds`: `PromiseInv` says that an expiry read and not the promised one
  means the promise was made since (`Fresh`), so that only a request that was
  already inside `RequireLogin` when another one refreshed can break it, and
  such a request has ended two request durations later.
* **ToolsProofs.** `ProgressGoesOn` (a toolkit step stutters in Progress) carries
  everything proved of Progress over. `ToolsTypeCorrect` and `TiesPointAtLevels`
  are one inductive invariant; `ToolsAreEarned` combines the step argument with
  `SolvesAreEarned`; `FilesAreKept` rests on `SolvesRemain`: the solve of a level
  that remains is undone only by a rewrite or the end of the account.
  `OneDatabase` ties the two halves of the project together. Transactions lets
  the rest of the server run the statements in `Edits` and no others; the theorem
  says that Progress and Tools, the tool writes included, indeed take no other steps
  on their tables, apart from `SetUserProgressToLevel`, which is there as one step:
  the very step that `Refinement` shows the transaction to implement. It needs
  `LowestIsFirst` (Progress takes the `level - 1` levels of lowest order by
  counting, Tables by sorting) and the invariants of both modules. What is left
  of the server's writes are those on accounts: `AccountsShareTheDatabase`, in
  AccountsProofs.
* **TransactionsProofs.** `Inv` says what each request's locals and its image
  are worth (`Fits`, in parts: `LocalsFit`, `KindFits`, `CheckedFits`, and one
  part for each kind of transaction under way), and that one connection at most
  writes (`OneWriter`). `CheckedFits` is the heart of it: a snapshot that is not
  stale is the committed database, so a check made on it is still true when the
  lock is taken, and `ProgressFits`, `HintsFit`, `LevelsFit` and `ToolsFit` carry
  it to the commit as "the image is the committed database with this much
  of the change in it". Types alone say nothing of the sort, and neither
  `CheckedRowStays` nor the refinement is inductive without it. `Undisturbed` is
  the frame: a commit by one connection leaves what the others know true, because
  their snapshots become stale and nobody else holds the lock. One lemma per
  action gives `Inv'` and the step of AtomicStore it is (`LocalStep` for those
  that write nothing, `WritingStep` for those that commit, `ChangeStep`,
  `MissStep`, `FailStep`, `SucceedStep` for the abstract side). From these follow
  `TypeCorrect`, `ConnectionsComeBack`, `ChecksHold` and `Refinement`, and two
  that are the safe part of `Answered`. `WriterWaitsForNobody`: whoever holds the
  lock is at a statement that needs neither the lock nor a fresh snapshot, so
  there is no circle of waiting. `RequestsAdvance`: `Distance`, and within one
  statement `ItemsLeft`, go down with every step of a request, to 0 at the answer;
  the only other steps of a request are to wait, which `busy_timeout` ends. It
  needs `Inv` for the loops, whose positions must stay within the list or file.
* **SchemaProofs.** `SchemaIsKept`: `Integrity` of every committed database. One
  lemma for each change (`HintsKeep`, `ProgressKeeps`, `RoleKeeps`, `LoadKeeps`
  for a seed file, `EditKeeps` for the statements of others) shows that it keeps
  the constraints of the database it is applied to; `Inv` says that what is committed is such a change
  of the *committed* database, although its statements were checked on a snapshot.
* **MigrationsProofs.** `TypeCorrect`, `CleanIsCurrent`, `ReadyOnLatest`, for any
  number of processes. The invariant adds `AtLeastThere` (a process on its way to
  version v finds the schema at v - 1 or beyond: bodies are never skipped),
  `OneHerald` (of the processes that ran a body and have not yet marked it clean
  there is one, and the file is dirty while there is) and `Announced` (a body
  that will succeed was announced by a dirty mark). `AssignmentsAreCarried`: an
  UPDATE with a subquery keeps some of the pairs of level and tool and adds none;
  for a pair it drops, the row that should have held it holds another pair of the
  same level (on the way down) or tool (on the way up). Over several migrations
  that would not compose by itself, as the pair that stood in could be dropped in
  turn; `CarryInv` adds that the first migration leaves pairs that are one-to-one,
  of which none is lost from then on, until the panel or the seed writes again.
  `LeftAloneItServes` needs `Alone`, which holds until the first disturbance: one
  process migrates at a time, the file is dirty in its hands only, and the body it
  comes to is the next one.

Every safety property of a passing run is proved as well; `Answered` and
`StartServes`, liveness under fairness, are only model-checked, and so are of
course the five refuted ones.

## What the runs refute

1. **ProgressStaleGate**: a submission that read its order_index before the level
   was moved further back passes the gate for a level never open to its player.
   Nothing is created or deleted in the run (`MoveSpec`): a move alone does it.
2. **AccountsLockout**: two admins demoting each other both pass the guard.
3. **AccountsLoginRace**: a login that checked the old hash opens a session after
   the reset was answered.
4. **SessionClockRace**: a request with a stale read deletes the session another
   one just refreshed. `ActivePlayersStayIn` shows that a frequent player is
   safe from it; the run shows one returning at the very end of the lifetime.
5. **TransactionsBusy**: `db.go` sets a busy timeout so that a momentarily locked
   database waits instead of erroring immediately. `ReplaceHints` and
   `SetUserProgressToLevel` read before they write in a deferred transaction; when
   anybody else holds the lock, or wrote in between, the DELETE is refused at
   once.

Five more disagreements with comments and documentation are written into the scope of
properties that hold.
Rank counts the levels of the moment, so inserting or moving a level to the front
locks the last solved one, against the README's "every solved level plus the next
one"; and an admitted submission may record its level after the panel rewrote the
player's progress, which then has a hole. Both are why `SteadySpec` leaves those
edits out. For the same reason `ListIsOpen` is about steady campaigns: when the
panel moves, inserts in front, deletes or rewrites between the count and the LIMIT
query of the list, a level is listed that is locked, against the README's "Future
levels are never returned" (lines 90-91). And a tool tied to no level is "never
auto-unlocked" in `tools.go`, while deleting a level unties its tools and opens them
to everyone: the third disjunct of `ToolsEarned`. Last, `AssignmentsCarried` says of the way down of
000002 what its own comment says (lines 2-3), that it is lossy when a level unlocks
several tools, and what the comment does not say: such a tool comes back with NULL,
which opens it to everyone.

A failure between the two statements of a password reset leaves the old sessions
alive, too. That is not a run of its own: it is one of the three causes
`OldSessionsExplained` names (`cutShort`).

## Not modelled

* **File serving** (`internal/files`): whether a path escapes its directory is a
  property of `os.Root` and of the file system; the directory listing is one read.
  The gates in front of it are in Progress and Tools.
* **Configuration and helpers**, input validation, JSON, bcrypt, attributes of
  cookies, CORS and logging keep no state; they are abstracted to values or left
  out. Titles, descriptions and timestamps of rows other than `expires_at` do not
  influence any decision. `GET /api/me` and the panel's lists are single reads
  whose answer nothing else depends on.
* **A seed next to the submit handler.** The seed is in Transactions, next to solves
  of one statement. It resets the id counters, so a submission that matched before it
  and inserts after it records a solve for the new level of that id; `EarnedSolve` is
  about players and panel only and says so.
* **000001 down** drops every table; there is nothing left to say anything of.
* **The answers of two concurrent resets** of one account: the second UPDATE
  decides which of the two passwords works, and a property would only repeat
  it. That the sessions of both older passwords go is `OldSessionsExplained`.
* **Checkpoints, disk-full and corruption** of SQLite, and the durability of its
  commits, are taken as the library documents them.

## Plan

1. *(done)* Campaign, Progress, Accounts, SessionClock and Tools, with their runs
   and proofs.
2. *(done)* Tables, AtomicStore, Transactions: hints, the two transactions, the
   seed as a second process; refinement, proved.
3. *(done)* Migrations, up, down and together with other processes; proved.
4. *(done)* The constraints of the schema under transactions, the safe part of the
   two liveness properties, and the link between the modules of the handlers and
   Tables; proved.
5. The seed in Progress, with what remains of `EarnedSolve` then.
6. Accounts and Sessions in one module with the clock, so that lazy deletion,
   reset and login meet on more than one token.
7. The gate in front of the player's hint list on the snapshots of Transactions
   (`GetHints` reads under the gate of Progress and then row by row).
