------------------------------ MODULE Migrations ------------------------------
(***************************************************************************)
(* db.Migrate, run at every start by the server and by the seed on one     *)
(* database file.  golang-migrate works migration by migration: it marks   *)
(* the version as dirty, runs the body in a transaction, marks the version *)
(* as clean; it refuses a dirty file; its lock is within one process.      *)
(*                                                                         *)
(* The data is what migration 000002 turns around: which level unlocks     *)
(* which tool.  At schema 1 it is a column of levels, at schema 2 one of   *)
(* tools, and its down migration takes it back.  At schema 2 the panel     *)
(* and the seed write it, so that a level may come to unlock several tools *)
(* before the file is taken back.  A level or a tool that is not there is  *)
(* one without an assignment.                                              *)
(***************************************************************************)
EXTENDS Naturals

CONSTANTS Procs, Levels, Tools, None

ASSUME NoneAssumption == None \notin Levels \cup Tools

Latest == 2      \* the last migration in migrations/

VARIABLES
    version,     \* schema_migrations.version, 0 when the table is empty
    dirty,       \* schema_migrations.dirty
    schema,      \* the last body that was committed
    unlocks,     \* levels.unlocks_tool_id, or tools.unlocks_at_level_id
    proc,        \* where each process is, and the migration it is at
    origin,      \* history: the assignments as the panel or the seed left them
    disturbed    \* history: a process died, or a second one started, meanwhile

file == <<version, dirty, schema, unlocks>>
vars == <<version, dirty, schema, unlocks, proc, origin, disturbed>>

Down == [phase |-> "down", at |-> 0]
Go(p, phase, v) == proc' = [proc EXCEPT ![p] = [phase |-> phase, at |-> v]]
Exit(p) == proc' = [proc EXCEPT ![p] = Down]
Migrating(p) == proc[p].phase \notin {"down", "ready"}

\* The assignments <<level, tool>>, whichever table holds them.
Pairs == IF schema = 2 THEN {<<unlocks[t], t>> : t \in {t \in Tools : unlocks[t] # None}}
                       ELSE {<<l, unlocks[l]>> : l \in {l \in Levels : unlocks[l] # None}}

-----------------------------------------------------------------------------
(* The bodies. *)

\* UPDATE ... SET b = (SELECT a row that points at this one), NULL if none:
\* when several rows do, it is one of them.
Turned(a, From, To) ==
    {b \in [To -> From \cup {None}] :
        \A y \in To : IF \E x \in From : a[x] = y
                        THEN b[y] \in From /\ a[b[y]] = y
                        ELSE b[y] = None}

\* Mutant: the subquery selects the wrong column.
UpToItself(a) == {[t \in Tools |-> IF \E l \in Levels : a[l] = t THEN t ELSE None]}

\* 000002_invert_tool_unlock.up.sql and .down.sql.
UpBody(a) == Turned(a, Levels, Tools)

\* Mutant: the column is dropped without carrying its values over.
ForgetfulDownBody(b) == {[l \in Levels |-> None]}
DownBody(b) == Turned(b, Tools, Levels)

\* CREATE TABLE and ADD COLUMN fail on a schema that has them already.
Runs(v) == schema = v - 1

-----------------------------------------------------------------------------
(* A process. *)

Start(p) ==
    /\ proc[p] = Down
    /\ Go(p, "open", 0)
    /\ disturbed' = (disturbed \/ \E q \in Procs : Migrating(q))
    /\ UNCHANGED <<file, origin>>

\* Mutant: ErrNoChange is an error like any other.
ReadVersionStrict(p) ==
    /\ proc[p].phase = "open"
    /\ IF dirty \/ version = Latest THEN Exit(p) ELSE Go(p, "mark", version + 1)
    /\ UNCHANGED <<file, origin, disturbed>>

\* Mutant: only the newest migration is run.
ReadVersionNewestOnly(p) ==
    /\ proc[p].phase = "open"
    /\ IF dirty THEN Exit(p)
       ELSE IF version = Latest THEN Go(p, "ready", 0)
       ELSE Go(p, "mark", Latest)
    /\ UNCHANGED <<file, origin, disturbed>>

\* The version is read once; a dirty one is fatal.
ReadVersion(p) ==
    /\ proc[p].phase = "open"
    /\ IF dirty THEN Exit(p)
       ELSE IF version = Latest THEN Go(p, "ready", 0)               \* ErrNoChange
       ELSE Go(p, "mark", version + 1)
    /\ UNCHANGED <<file, origin, disturbed>>

SetDirty(p) ==
    /\ proc[p].phase = "mark"
    /\ version' = proc[p].at
    /\ dirty' = TRUE
    /\ Go(p, "run", proc[p].at)
    /\ UNCHANGED <<schema, unlocks, origin, disturbed>>

\* 000001 creates the tables, 000002 turns the assignments around.
Transform(v) ==
    /\ schema' = v
    /\ unlocks' \in IF v = 1 THEN {[l \in Levels |-> None]} ELSE UpBody(unlocks)

\* Mutant: main logs the error of Migrate and goes on.
RunOrServe(p) ==
    LET v == proc[p].at IN
    /\ proc[p].phase = "run"
    /\ IF Runs(v) THEN Transform(v) /\ Go(p, "clean", v)
                  ELSE UNCHANGED <<schema, unlocks>> /\ Go(p, "ready", 0)
    /\ UNCHANGED <<version, dirty, origin, disturbed>>

\* Mutant: CREATE TABLE IF NOT EXISTS in 000001.
RunIfMissing(p) ==
    LET v == proc[p].at IN
    /\ proc[p].phase = "run"
    /\ IF Runs(v) THEN Transform(v) /\ Go(p, "clean", v)
       ELSE /\ UNCHANGED <<schema, unlocks>>
            /\ IF v = 1 THEN Go(p, "clean", v) ELSE Exit(p)
    /\ UNCHANGED <<version, dirty, origin, disturbed>>

\* An error is fatal: log.Fatalf in both commands.
Run(p) ==
    LET v == proc[p].at IN
    /\ proc[p].phase = "run"
    /\ IF Runs(v) THEN Transform(v) /\ Go(p, "clean", v)
                  ELSE UNCHANGED <<schema, unlocks>> /\ Exit(p)
    /\ UNCHANGED <<version, dirty, origin, disturbed>>

SetClean(p) ==
    LET v == proc[p].at IN
    /\ proc[p].phase = "clean"
    /\ version' = v
    /\ dirty' = FALSE
    /\ IF v = Latest THEN Go(p, "ready", 0) ELSE Go(p, "mark", v + 1)
    /\ UNCHANGED <<schema, unlocks, origin, disturbed>>

\* A ready process ends, or one that migrates is killed or meets an error.
Stop(p) ==
    /\ proc[p] # Down
    /\ Exit(p)
    /\ disturbed' = (disturbed \/ Migrating(p))
    /\ UNCHANGED <<file, origin>>

\* The operator takes a clean file back by one version, with nobody on it.
StepDown ==
    /\ \A p \in Procs : proc[p] = Down
    /\ ~dirty /\ version = Latest
    /\ version' = version - 1
    /\ schema' = schema - 1
    /\ unlocks' \in DownBody(unlocks)
    /\ UNCHANGED <<dirty, proc, origin, disturbed>>

-----------------------------------------------------------------------------
(* The panel and the seed, from a process that is through. *)

\* Their statements name the columns of schema 2, and fail on any other.
Write(b) ==
    /\ \E p \in Procs : proc[p].phase = "ready"
    /\ schema = 2
    /\ unlocks' = b
    /\ UNCHANGED <<version, dirty, schema, proc, disturbed>>
    /\ origin' = Pairs'

\* CreateTool and UpdateTool with a level or none, DeleteTool.
WriteTool(t, l) == Write([unlocks EXCEPT ![t] = l])

\* ON DELETE SET NULL.
DeleteLevel(l) == Write([t \in Tools |-> IF unlocks[t] = l THEN None ELSE unlocks[t]])

LoadSeed(b) == Write(b)

-----------------------------------------------------------------------------
\* A new file, or one an earlier release has left with content in it.
Init ==
    /\ version \in {0, 1}
    /\ schema = version
    /\ dirty = FALSE
    /\ unlocks \in [Levels -> Tools \cup {None}]
    /\ version = 0 => unlocks = [l \in Levels |-> None]
    /\ origin = Pairs
    /\ proc = [p \in Procs |-> Down]
    /\ disturbed = FALSE

Migrate(p) == ReadVersion(p) \/ SetDirty(p) \/ Run(p) \/ SetClean(p)

Next ==
    \/ \E p \in Procs : Start(p) \/ Migrate(p) \/ Stop(p)
    \/ StepDown
    \/ \E t \in Tools, l \in Levels \cup {None} : WriteTool(t, l)
    \/ \E l \in Levels : DeleteLevel(l)
    \/ \E b \in [Tools -> Levels \cup {None}] : LoadSeed(b)

\* A started process goes on running.
Fairness == \A p \in Procs : WF_vars(Migrate(p))

Safe == Init /\ [][Next]_vars
Spec == Safe /\ Fairness

-----------------------------------------------------------------------------
(* Properties. *)

Assignments ==
    [Levels -> Tools \cup {None}] \cup [Tools -> Levels \cup {None}]

\* The version table, the assignments and the processes have their types, and
\* the assignments are those of the schema.
TypeOK ==
    /\ version \in 0 .. Latest /\ schema \in 0 .. Latest
    /\ dirty \in BOOLEAN /\ disturbed \in BOOLEAN
    /\ unlocks \in IF schema = 2 THEN [Tools -> Levels \cup {None}]
                                 ELSE [Levels -> Tools \cup {None}]
    /\ origin \subseteq Levels \X Tools
    /\ proc \in [Procs -> [phase : {"down", "open", "mark", "run", "clean", "ready"},
                           at : 0 .. Latest]]

\* A file that is marked clean has the schema of its version, whichever
\* processes worked on it together and wherever they died.
CleanMeansCurrent == ~dirty => schema = version

\* A server that serves, or a seed that loads, does so on the latest schema,
\* even when another process is migrating or has failed to.
ReadyIsCurrent ==
    \A p \in Procs : proc[p].phase = "ready" => schema = Latest

\* Migrations make up no assignment, and lose one only where the table they
\* fill has one place for several: its level kept another of its tools (the way
\* down, which says that it is lossy there), or its tool another of its levels
\* (the way up).  So a tool that had a level becomes NULL, which is open to
\* everyone, only when a level of its unlocks another tool still.
AssignmentsCarried ==
    /\ Pairs \subseteq origin
    /\ \A a \in origin : \E b \in Pairs : a[1] = b[1] \/ a[2] = b[2]

\* A start that nobody disturbs, by dying in a migration or by starting into it,
\* is never turned away: the file it finds is clean, and every body it comes to
\* finds the schema it was written for.
UndisturbedIsServed ==
    [][\A p \in Procs : Migrating(p) /\ ~disturbed' => proc'[p] # Down]_vars

\* db.go calls Migrate safe on every startup: while nobody was ever killed in it
\* or started into it, a start ends with the process ready.
StartServes ==
    \A p \in Procs : proc[p].phase = "open" ~> proc[p].phase = "ready" \/ disturbed
=============================================================================
