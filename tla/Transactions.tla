----------------------------- MODULE Transactions -----------------------------
(***************************************************************************)
(* The requests of more than one statement that write, on SQLite as        *)
(* db.Open configures it: write-ahead log, foreign keys, a busy timeout,   *)
(* and transactions that BEGIN without taking anything (deferred).         *)
(*                                                                         *)
(*   replace  PUT  /api/admin/levels/{id}/hints    ReplaceHints, read back *)
(*   read     GET  /api/admin/levels/{id}/hints    HintsForLevel           *)
(*   put      PUT  /api/admin/users/{id}           role, progress, read    *)
(*   load     cmd/seed, a process of its own       wipe and load           *)
(*                                                                         *)
(* A connection that reads keeps the snapshot of its first read.  One      *)
(* connection at a time writes.  A statement that has no snapshot to keep  *)
(* waits for the writer, up to the busy timeout; one that must turn its    *)
(* snapshot into a write does not wait, and is refused when the snapshot   *)
(* is not the last committed state any more.  A commit publishes the       *)
(* writer's image.                                                         *)
(***************************************************************************)
EXTENDS Tables

CONSTANTS
    Conns,       \* request slots, each with a connection of the pool
    Offered,     \* the requests that are made
    NoJob,
    NoImage,
    Unread

ASSUME SlotAssumption == NoImage \notin Databases /\ Unread \notin Seq(Texts)

Replace == [kind : {"replace"}, level : LevelIds, list : Lists]
ReadHints == [kind : {"read"}, level : LevelIds]
Put == [kind : {"put"}, user : Users, role : Roles \cup {Gone},  \* Gone: not sent
        goal : 0 .. MaxLevelId + 1]                              \* 0: not sent
Load == [kind : {"load"}, file : Files]
Jobs == Replace \cup ReadHints \cup Put \cup Load

ASSUME JobAssumption == Offered \subseteq Jobs /\ NoJob \notin Jobs

VARIABLES
    db,          \* the committed database
    tx,          \* the transaction open on each connection
    req          \* the request served on each connection

vars == <<db, tx, req>>

\* scan: a SELECT under iteration; read and write: a transaction before and
\* after its first write.  image: what the connection sees.  stale: somebody
\* committed since the snapshot of a transaction that may still write.
NoTx == [mode |-> "none", image |-> NoImage, stale |-> FALSE]
Locals(phase, job, rows, status) ==
    [phase |-> phase, job |-> job, pos |-> 0, rows |-> rows, status |-> status]
Idle == Locals("idle", NoJob, Unread, "")

-----------------------------------------------------------------------------
(* SQLite. *)

LockedBy(c) == tx[c].mode = "write"
LockFree == \A c \in Conns : ~LockedBy(c)

\* Every open snapshot but c's own falls behind.
Outdate(c) == [k \in Conns |->
    IF k # c /\ tx[k].mode = "read" THEN [tx[k] EXCEPT !.stale = TRUE] ELSE tx[k]]

\* A statement of its own that writes.
Autocommit(c, d) ==
    /\ LockFree
    /\ db' = d
    /\ tx' = Outdate(c)

\* A first read.
Snapshot(c, mode) ==
    tx' = [tx EXCEPT ![c] = [mode |-> mode, image |-> db, stale |-> FALSE]]

\* A transaction whose first statement writes.
BeginWrite(c, d) ==
    /\ LockFree
    /\ tx' = [tx EXCEPT ![c] = [mode |-> "write", image |-> d, stale |-> FALSE]]

\* Mutant: upgrade whatever was committed in between.
CanUpgradeStale(c) == LockFree

\* A write on a snapshot, by its holder.
CanUpgrade(c) == LockFree /\ ~tx[c].stale

Write(c, d) ==
    tx' = [tx EXCEPT ![c] = [mode |-> "write", image |-> d, stale |-> FALSE]]

Publish(c) ==
    /\ db' = tx[c].image
    /\ tx' = [Outdate(c) EXCEPT ![c] = NoTx]

Rollback(c) == tx' = [tx EXCEPT ![c] = NoTx]

-----------------------------------------------------------------------------
(* Requests.  Offered holds what passes validation and the guard on one's own  *)
(* role (module Accounts).                                                   *)

At(c, kind, phase) == req[c].phase = phase /\ req[c].job.kind = kind
Go(c, phase) == req' = [req EXCEPT ![c].phase = phase]
Ended(s, rows) == Locals("answered", NoJob, rows, s)
Answer(c, s) == req' = [req EXCEPT ![c] = Ended(s, Unread)]

\* The handler, up to its first statement on the database.
FirstPhase(j) ==
    CASE j.kind \in {"replace", "read"} -> "check"
      [] j.kind = "put" -> IF j.role # Gone THEN "role"
                           ELSE IF j.goal # 0 THEN "check" ELSE "reload"
      [] j.kind = "load" -> "wipe"

Accept(c, j) ==
    /\ req[c].phase = "idle"
    /\ req' = [req EXCEPT ![c] = Locals(FirstPhase(j), j, Unread, "")]
    /\ UNCHANGED <<db, tx>>

AdminGetHints(c) == \E j \in ReadHints \cap Offered : Accept(c, j)
AdminReplaceHints(c) == \E j \in Replace \cap Offered : Accept(c, j)
AdminUpdateUser(c) == \E j \in Put \cap Offered : Accept(c, j)
Seed(c) == \E j \in Load \cap Offered : Accept(c, j)

\* SetUserRole, one statement; not found when it met no row.
SetUserRole(c) ==
    LET j == req[c].job IN
    /\ At(c, "put", "role")
    /\ IF j.user \in UsersOf(db)
         THEN /\ Autocommit(c, UpdateRole(db, j.user, j.role))
              /\ Go(c, IF j.goal # 0 THEN "check" ELSE "reload")
         ELSE /\ LockFree
              /\ Answer(c, "not found")
              /\ UNCHANGED <<db, tx>>

Found(c) == IF req[c].job.kind = "put" THEN req[c].job.user \in UsersOf(db)
                                       ELSE req[c].job.level \in LevelsOf(db)

\* SELECT 1 in front of a replacement or a rewrite opens a snapshot;
\* AdminLevelByID in front of a read is a statement of its own.
Check(c) ==
    /\ req[c].phase = "check"
    /\ IF ~Found(c) THEN Answer(c, "not found") /\ UNCHANGED tx
       ELSE IF req[c].job.kind = "read" THEN Go(c, "open") /\ UNCHANGED tx
       ELSE Go(c, "clear") /\ Snapshot(c, "read")
    /\ UNCHANGED db

\* The DELETE that follows it.
Clear(c) ==
    LET j == req[c].job IN
    /\ req[c].phase = "clear"
    /\ CanUpgrade(c)
    /\ Write(c, IF j.kind = "put" THEN DeleteProgress(tx[c].image, j.user)
                                  ELSE DeleteHints(tx[c].image, j.level))
    /\ Go(c, IF j.kind = "put" /\ j.goal <= 1 THEN "commit" ELSE "fill")
    /\ UNCHANGED db

\* Mutant: the handler tries the transaction again.
RefuseAndRetry(c) ==
    /\ req[c].phase = "clear"
    /\ ~CanUpgrade(c)
    /\ Go(c, "check")
    /\ Rollback(c)
    /\ UNCHANGED db

\* SQLITE_BUSY at once: a writer is at work, or the snapshot is stale.
Refuse(c) ==
    /\ req[c].phase = "clear"
    /\ ~CanUpgrade(c)
    /\ Answer(c, "busy")
    /\ Rollback(c)
    /\ UNCHANGED db

\* One INSERT per hint text, or the end of the list.
ReplaceHints(c) ==
    LET q == req[c] IN
    /\ At(c, "replace", "fill")
    /\ IF q.pos < Len(q.job.list)
         THEN /\ Write(c, InsertHint(tx[c].image, q.job.level, q.job.list[q.pos + 1]))
              /\ req' = [req EXCEPT ![c].pos = @ + 1]
         ELSE Go(c, "commit") /\ UNCHANGED tx
    /\ UNCHANGED db

\* Mutant: a return before the COMMIT, nil as the error.
SetUserProgressUncommitted(c) ==
    /\ At(c, "put", "fill")
    /\ Write(c, InsertProgress(tx[c].image, req[c].job.user, req[c].job.goal - 1))
    /\ Go(c, "reload")
    /\ UNCHANGED db

\* INSERT ... SELECT id FROM levels ORDER BY order_index LIMIT level - 1.
SetUserProgressToLevel(c) ==
    /\ At(c, "put", "fill")
    /\ Write(c, InsertProgress(tx[c].image, req[c].job.user, req[c].job.goal - 1))
    /\ Go(c, "commit")
    /\ UNCHANGED db

\* The four statements that empty the content tables, the first of which
\* takes the write lock; nobody sees the other three one by one.
WipeTables(c) ==
    /\ At(c, "load", "wipe")
    /\ BeginWrite(c, Wipe(db))
    /\ Go(c, "levels")
    /\ UNCHANGED db

\* The next level of the file is usable: a key, a new one, a free order_index.
GoodLevel(q, d) ==
    LET lv == q.job.file.levels[q.pos + 1] IN
    /\ lv.key # NoKey
    /\ \A i \in 1 .. q.pos : q.job.file.levels[i].key # lv.key
    /\ \A l \in LevelsOf(d) : d.order[l] # lv.order

\* A row of levels with its hints.
LoadLevel(c) ==
    LET q == req[c] IN
    /\ q.phase = "levels"
    /\ IF q.pos = Len(q.job.file.levels)
         THEN req' = [req EXCEPT ![c].phase = "tools", ![c].pos = 0] /\ UNCHANGED tx
       ELSE IF GoodLevel(q, tx[c].image)
         THEN /\ Write(c, InsertSeedLevel(tx[c].image, q.job.file.levels[q.pos + 1]))
              /\ req' = [req EXCEPT ![c].pos = @ + 1]
         ELSE Answer(c, "failed") /\ Rollback(c)
    /\ UNCHANGED db

KnownKey(f, k) == k = NoKey \/ \E i \in 1 .. Len(f.levels) : f.levels[i].key = k

LoadTool(c) ==
    LET q == req[c]
        f == q.job.file IN
    /\ q.phase = "tools"
    /\ IF q.pos = Len(f.tools)
         THEN Go(c, "commit") /\ UNCHANGED tx
       ELSE IF KnownKey(f, f.tools[q.pos + 1])
         THEN /\ Write(c, InsertTool(tx[c].image, IdOf(f, f.tools[q.pos + 1])))
              /\ req' = [req EXCEPT ![c].pos = @ + 1]
         ELSE Answer(c, "failed") /\ Rollback(c)
    /\ UNCHANGED db

\* COMMIT, then what is read back for the answer.
Commit(c) ==
    /\ req[c].phase = "commit"
    /\ Publish(c)
    /\ CASE req[c].job.kind = "replace" ->
              req' = [req EXCEPT ![c].phase = "open", ![c].pos = 0]
         [] req[c].job.kind = "put" -> Go(c, "reload")
         [] req[c].job.kind = "load" -> req' = [req EXCEPT ![c].phase = "seeded", ![c].pos = 0]

\* The seed reports and exits.
Report(c) ==
    /\ req[c].phase = "seeded"
    /\ Answer(c, "ok")
    /\ UNCHANGED <<db, tx>>

\* AdminUserByID.
AdminUserByID(c) ==
    /\ req[c].phase = "reload"
    /\ Answer(c, IF Found(c) THEN "ok" ELSE "not found")
    /\ UNCHANGED <<db, tx>>

\* The SELECT of HintsForLevel, and the iteration over its rows.
HintsForLevel(c) ==
    /\ req[c].phase = "open"
    /\ Snapshot(c, "scan")
    /\ req' = [req EXCEPT ![c].phase = "rows", ![c].rows = <<>>]
    /\ UNCHANGED db

\* Mutant: each row is fetched from the state of its moment.
NextRowUnprotected(c) ==
    LET all == db.hints[req[c].job.level]
        n == Len(req[c].rows) IN
    /\ req[c].phase = "rows"
    /\ IF n < Len(all)
         THEN /\ req' = [req EXCEPT ![c].rows = Append(@, all[n + 1])]
              /\ UNCHANGED tx
         ELSE /\ req' = [req EXCEPT ![c] = Ended("ok", @.rows)]
              /\ Rollback(c)
    /\ UNCHANGED db

NextRow(c) ==
    LET all == tx[c].image.hints[req[c].job.level]
        n == Len(req[c].rows) IN
    /\ req[c].phase = "rows"
    /\ IF n < Len(all)
         THEN /\ req' = [req EXCEPT ![c].rows = Append(@, all[n + 1])]
              /\ UNCHANGED tx
         ELSE /\ req' = [req EXCEPT ![c] = Ended("ok", @.rows)]
              /\ Rollback(c)
    /\ UNCHANGED db

\* Mutant: no busy_timeout, the wait has no end.
WaitForever(c) == FALSE /\ UNCHANGED vars

\* busy_timeout runs out on a statement that waits for the writer.
TimeOut(c) ==
    /\ req[c].phase \in {"role", "wipe"}
    /\ ~LockFree
    /\ Answer(c, "busy")
    /\ UNCHANGED <<db, tx>>

Running(c) == req[c].phase \notin {"idle", "answered"}

\* Mutant: the error path forgets the transaction.
AbortLeavingTx(c) ==
    /\ Running(c)
    /\ Answer(c, "failed")
    /\ UNCHANGED <<db, tx>>

\* A statement fails, or the handler panics: the deferred Rollback (or
\* rows.Close) runs, and the answer is a 500.
Abort(c) ==
    /\ Running(c)
    /\ Answer(c, "failed")
    /\ Rollback(c)
    /\ UNCHANGED db

Deliver(c) ==
    /\ req[c].phase = "answered"
    /\ req' = [req EXCEPT ![c] = Idle]
    /\ UNCHANGED <<db, tx>>

\* A process dies with its requests: the server, or a seed.
Die(C) ==
    /\ req' = [c \in Conns |-> IF c \in C THEN Idle ELSE req[c]]
    /\ tx' = [c \in Conns |-> IF c \in C THEN NoTx ELSE tx[c]]
    /\ UNCHANGED db

Seeding(c) == Running(c) /\ req[c].job.kind = "load"
Crash ==
    \/ LET server == {c \in Conns : req[c].phase # "idle" /\ ~Seeding(c)}
       IN server # {} /\ Die(server)
    \/ \E c \in Conns : Seeding(c) /\ Die({c})

\* The single statements of all other handlers, each on a connection of its
\* own.
OtherStatement ==
    /\ LockFree
    /\ db' \in Edits(db)
    /\ tx' = [c \in Conns |-> IF tx[c].mode = "read"
                                THEN [tx[c] EXCEPT !.stale = TRUE] ELSE tx[c]]
    /\ UNCHANGED req

-----------------------------------------------------------------------------
Init ==
    /\ db = Fresh
    /\ tx = [c \in Conns |-> NoTx]
    /\ req = [c \in Conns |-> Idle]

Begin(c) == AdminGetHints(c) \/ AdminReplaceHints(c) \/ AdminUpdateUser(c) \/ Seed(c)

\* What the goroutine of a request does next when nothing goes wrong with it.
Continue(c) ==
    \/ SetUserRole(c) \/ Check(c) \/ Clear(c) \/ Refuse(c)
    \/ ReplaceHints(c) \/ SetUserProgressToLevel(c)
    \/ WipeTables(c) \/ LoadLevel(c) \/ LoadTool(c) \/ Commit(c) \/ Report(c)
    \/ AdminUserByID(c) \/ HintsForLevel(c) \/ NextRow(c)
    \/ TimeOut(c) \/ Deliver(c)

Next ==
    \/ \E c \in Conns : Begin(c) \/ Continue(c) \/ Abort(c)
    \/ Crash
    \/ OtherStatement

\* Goroutines that can run are run, by Go's scheduler and the kernel's.
Fairness == \A c \in Conns : WF_vars(Continue(c))

-----------------------------------------------------------------------------
(* Specification and properties. *)

Safe == Init /\ [][Next]_vars
Spec == Safe /\ Fairness

TxType == [mode : {"none", "scan", "read", "write"},
           image : Databases \cup {NoImage}, stale : BOOLEAN]
Phases == {"idle", "role", "check", "clear", "fill", "wipe", "levels", "tools",
           "commit", "seeded", "reload", "open", "rows", "answered"}
RequestState ==
    [phase : Phases, job : Jobs \cup {NoJob}, pos : Nat, rows : Seq(Texts) \cup {Unread},
     status : {"", "ok", "not found", "busy", "failed"}]

\* The database, every connection's transaction and every handler's locals
\* hold values of their types; one connection at most holds the write lock.
TypeOK ==
    /\ db \in Databases
    /\ tx \in [Conns -> TxType]
    /\ req \in [Conns -> RequestState]
    /\ \A c, k \in Conns : LockedBy(c) /\ LockedBy(k) => c = k

\* What AtomicStore would say of each request.
ToDo(q) ==
    LET j == q.job IN
    CASE q.phase = "role" -> {p \in {"role", "progress"} : p = "progress" => j.goal # 0}
      [] q.phase \in {"check", "clear", "fill", "commit", "wipe", "levels", "tools"} ->
           CASE j.kind = "replace" -> {"hints"}
             [] j.kind = "put" -> {"progress"}
             [] j.kind = "load" -> {"content"}
             [] OTHER -> {}
      [] OTHER -> {}
HasRead(q, t) == IF q.phase = "rows" THEN t.image.hints[q.job.level] ELSE q.rows
Reported(q) == IF q.status = "busy" THEN "failed" ELSE q.status

Asked == [c \in Conns |-> req[c].job]
Left == [c \in Conns |-> ToDo(req[c])]
Seen == [c \in Conns |-> HasRead(req[c], tx[c])]
Told == [c \in Conns |-> Reported(req[c])]

Store == INSTANCE AtomicStore WITH
    Jobs <- Offered, job <- Asked, left <- Left, rows <- Seen, status <- Told

\* The requests implement the store their callers believe in: each change
\* happens at one moment, on the rows the request looked at, at most once and
\* entirely or not at all; a PUT that fails after its role has changed nothing
\* else; a hint list that is read was in force at one moment; a replacement
\* answers with the list that is in force after it.  Statement by statement,
\* with everybody else's statements, refusals, failures and deaths in between.
ImplementsAtomicStore == Store!Spec

\* No request leaves a transaction, and with it a snapshot or the write lock,
\* behind: whatever its handler met, the connection goes back to the pool as it
\* came out.
NothingLeftOpen == \A c \in Conns : ~Running(c) => tx[c] = NoTx

\* What a transaction checked before it wrote (SELECT 1 FROM levels, or FROM
\* users) still holds of the committed tables when it writes and commits, though
\* the check took no lock.
CheckedRowStays ==
    \A c \in Conns : req[c].phase \in {"fill", "commit"} =>
        req[c].job.kind = "load" \/ Found(c)

\* The foreign keys, CHECKs and UNIQUE columns of the schema hold of every
\* committed database: no hint, solve or tie of a level that is gone, no progress
\* of a deleted account, no two levels at one place, no id ahead of its
\* sequence.  The writes under a transaction were checked on its own snapshot
\* only.
SchemaHolds == Integrity(db)

\* Whoever holds the write lock waits for nobody: its next statement needs
\* neither the lock nor a fresh snapshot.  So no two transactions wait for each
\* other, and a wait for the lock is a wait for finitely many statements.
WriterNeverWaits ==
    \A c \in Conns : LockedBy(c) => req[c].phase \in {"fill", "levels", "tools", "commit"}

\* How far a request is from its answer: the statement it is at, and the items
\* that statement still has to go through.
Distance(q) ==
    CASE q.phase = "role" -> 8
      [] q.phase = "check" -> 7
      [] q.phase \in {"clear", "wipe"} -> 6
      [] q.phase \in {"fill", "levels"} -> 5
      [] q.phase = "tools" -> 4
      [] q.phase = "commit" -> 3
      [] q.phase \in {"open", "reload", "seeded"} -> 2
      [] q.phase = "rows" -> 1
      [] OTHER -> 0
ItemsLeft(q, t) ==
    CASE q.phase = "fill" /\ q.job.kind = "replace" -> Len(q.job.list) - q.pos
      [] q.phase = "levels" -> Len(q.job.file.levels) - q.pos
      [] q.phase = "tools" -> Len(q.job.file.tools) - q.pos
      [] q.phase = "rows" -> Len(t.image.hints[q.job.level]) - Len(q.rows)
      [] OTHER -> 0

\* Every statement a request runs brings it nearer to its answer, and there are
\* finitely many left: nothing is retried, no list or file is gone through twice,
\* whatever others commit meanwhile.
NoRequestGoesBack ==
    [][\A c \in Conns : Running(c) /\ req'[c] # req[c] =>
         \/ Distance(req'[c]) < Distance(req[c])
         \/ /\ Distance(req'[c]) = Distance(req[c])
            /\ ItemsLeft(req[c], tx[c])' \in 0 .. ItemsLeft(req[c], tx[c]) - 1]_vars

\* Every request is answered, or dies with its process: nobody waits for the
\* write lock for ever, and no two wait for each other.
Answered == \A c \in Conns : Running(c) ~> ~Running(c)

\* db.go: a busy timeout so a momentarily-locked DB waits instead of erroring
\* immediately.
BusyMeansWaited ==
    [][\A c \in Conns : req'[c].status = "busy" =>
         req[c].status = "busy" \/ TimeOut(c)]_vars
=============================================================================
