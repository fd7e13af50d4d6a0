------------------------------ MODULE AtomicStore ------------------------------
(***************************************************************************)
(* What the store promises its callers, without connections, snapshots,    *)
(* statements or locks.  A request asks for at most two changes and may    *)
(* read once; each of the three happens at one moment.  An answer of       *)
(* success means that all of it happened, an answer of failure that no     *)
(* more than what was asked for did.                                       *)
(***************************************************************************)
EXTENDS Tables

CONSTANTS Conns, Jobs, NoJob, Unread

VARIABLES
    db,      \* the database
    job,     \* what each request asks for
    left,    \* the changes it has not made yet
    rows,    \* the hint list it has read
    status   \* its answer, "" while there is none

vars == <<db, job, left, rows, status>>

Parts(j) ==
    CASE j = NoJob -> {}
      [] j.kind = "replace" -> {"hints"}
      [] j.kind = "read" -> {}
      [] j.kind = "put" -> {p \in {"role", "progress"} :
                              (p = "role" => j.role # Gone)
                                /\ (p = "progress" => j.goal # 0)}
      [] j.kind = "load" -> {"content"}

\* Whether the row a request is about is there.
Target(j, d) ==
    CASE j.kind \in {"replace", "read"} -> j.level \in LevelsOf(d)
      [] j.kind = "put" -> j.user \in UsersOf(d)
      [] j.kind = "load" -> TRUE

\* A seed file the loader accepts.
Loadable(f) ==
    /\ \A i \in 1 .. Len(f.levels) : f.levels[i].key # NoKey
    /\ \A i, k \in 1 .. Len(f.levels) : i # k =>
         f.levels[i].key # f.levels[k].key /\ f.levels[i].order # f.levels[k].order
    /\ \A t \in 1 .. Len(f.tools) : f.tools[t] = NoKey \/
         \E i \in 1 .. Len(f.levels) : f.levels[i].key = f.tools[t]

\* The content tables hold exactly the file, its levels numbered from 1.
Loaded(d, f) ==
    [order |-> [l \in LevelIds |-> IF l <= Len(f.levels) THEN f.levels[l].order ELSE 0],
     seq |-> Len(f.levels),
     hints |-> [l \in LevelIds |-> IF l <= Len(f.levels) THEN f.levels[l].hints ELSE <<>>],
     ties |-> [t \in 1 .. Len(f.tools) |-> IdOf(f, f.tools[t])],
     role |-> d.role,
     solved |-> [u \in Users |-> {}]]

\* The database after one change.
Changed(d, j, part) ==
    CASE part = "hints" -> [d EXCEPT !.hints[j.level] = j.list]
      [] part = "role" -> [d EXCEPT !.role[j.user] = j.role]
      [] part = "progress" -> [d EXCEPT !.solved[j.user] = First(d, j.goal - 1)]
      [] part = "content" -> Loaded(d, j.file)

Reads(j) == j.kind \in {"replace", "read"}

-----------------------------------------------------------------------------
Init ==
    /\ db = Fresh
    /\ job = [c \in Conns |-> NoJob]
    /\ left = [c \in Conns |-> {}]
    /\ rows = [c \in Conns |-> Unread]
    /\ status = [c \in Conns |-> ""]

Open(c) == job[c] # NoJob

Accept(c, j) ==
    /\ ~Open(c)
    /\ status[c] = ""
    /\ job' = [job EXCEPT ![c] = j]
    /\ left' = [left EXCEPT ![c] = Parts(j)]
    /\ UNCHANGED <<db, rows, status>>

\* A role is written before progress is.
Change(c, part) ==
    /\ Open(c)
    /\ part \in left[c]
    /\ "role" \in left[c] => part = "role"
    /\ Target(job[c], db)
    /\ part = "content" => Loadable(job[c].file)
    /\ db' = Changed(db, job[c], part)
    /\ left' = [left EXCEPT ![c] = @ \ {part}]
    /\ UNCHANGED <<job, rows, status>>

\* The list in force at one moment after the request's own change.
Read(c) ==
    /\ Open(c)
    /\ Reads(job[c])
    /\ left[c] = {}
    /\ rows' = [rows EXCEPT ![c] = db.hints[job[c].level]]
    /\ UNCHANGED <<db, job, left, status>>

Answer(c, s) ==
    /\ status' = [status EXCEPT ![c] = s]
    /\ job' = [job EXCEPT ![c] = NoJob]
    /\ left' = [left EXCEPT ![c] = {}]
    /\ UNCHANGED db

Succeed(c) ==
    /\ Open(c)
    /\ left[c] = {}
    /\ Reads(job[c]) => rows[c] # Unread
    /\ Answer(c, "ok")
    /\ UNCHANGED rows

\* 404: the row is missing at this moment.
Miss(c) ==
    /\ Open(c)
    /\ ~Target(job[c], db)
    /\ Answer(c, "not found")
    /\ rows' = [rows EXCEPT ![c] = Unread]

Fail(c) ==
    /\ Open(c)
    /\ Answer(c, "failed")
    /\ rows' = [rows EXCEPT ![c] = Unread]

\* The answer is delivered, or the request dies with its process.
Leave(C) ==
    /\ job' = [c \in Conns |-> IF c \in C THEN NoJob ELSE job[c]]
    /\ left' = [c \in Conns |-> IF c \in C THEN {} ELSE left[c]]
    /\ rows' = [c \in Conns |-> IF c \in C THEN Unread ELSE rows[c]]
    /\ status' = [c \in Conns |-> IF c \in C THEN "" ELSE status[c]]
    /\ UNCHANGED db

OtherStatement ==
    /\ db' \in Edits(db)
    /\ UNCHANGED <<job, left, rows, status>>

Next ==
    \/ \E c \in Conns :
         \/ \E j \in Jobs : Accept(c, j)
         \/ \E part \in {"hints", "role", "progress", "content"} : Change(c, part)
         \/ Read(c)
         \/ Succeed(c)
         \/ Miss(c)
         \/ Fail(c)
    \/ \E C \in SUBSET Conns : Leave(C)
    \/ OtherStatement

Spec == Init /\ [][Next]_vars
=============================================================================
