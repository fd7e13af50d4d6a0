--------------------------- MODULE TransactionsProofs ---------------------------
(* Proofs about requests on SQLite, for any number of connections, any         *)
(* database and any set of requests.                                           *)
EXTENDS Transactions, SequenceTheorems, FiniteSetTheorems, TLAPS

-----------------------------------------------------------------------------
(* Sequences that are written item by item. *)

Upto(s, n) == [i \in 1 .. n |-> s[i]]

LEMMA UptoNone == ASSUME NEW s PROVE Upto(s, 0) = <<>>
BY DEF Upto

LEMMA UptoAll == ASSUME NEW S, NEW s \in Seq(S) PROVE Upto(s, Len(s)) = s
BY DEF Upto

LEMMA UptoType ==
    ASSUME NEW S, NEW s, NEW n \in Nat, \A i \in 1 .. n : s[i] \in S
    PROVE  Upto(s, n) \in Seq(S) /\ Len(Upto(s, n)) = n
BY DEF Upto

LEMMA UptoNext ==
    ASSUME NEW S, NEW s, NEW n \in Nat, \A i \in 1 .. n + 1 : s[i] \in S
    PROVE  Append(Upto(s, n), s[n + 1]) = Upto(s, n + 1)
BY UptoType DEF Upto

-----------------------------------------------------------------------------
(* The inductive invariant: where a request is, what its transaction sees.  d  *)
(* is the committed database.                                                  *)

\* The row a request is about is there.
Here(j, d) == IF j.kind = "put" THEN j.user \in UsersOf(d) ELSE j.level \in LevelsOf(d)

\* The first n levels of a file have keys of their own and places of their own.
Good(f, n) ==
    /\ \A i \in 1 .. n : f.levels[i].key # NoKey
    /\ \A i, k \in 1 .. n : i # k =>
         f.levels[i].key # f.levels[k].key /\ f.levels[i].order # f.levels[k].order

\* e is d emptied and loaded with the first n levels of a file.
LevelsIn(e, d, f, n) ==
    /\ e.seq = n
    /\ e.order = [l \in LevelIds |-> IF l <= n THEN f.levels[l].order ELSE 0]
    /\ e.hints = [l \in LevelIds |-> IF l <= n THEN f.levels[l].hints ELSE <<>>]
    /\ e.role = d.role
    /\ e.solved = [u \in Users |-> {}]

Ties(f) == [t \in 1 .. Len(f.tools) |-> IdOf(f, f.tools[t])]

Resting == {"idle", "answered"}
WithoutTx == Resting \cup {"role", "check", "wipe", "seeded", "reload", "open"}

KindFits(q) ==
    LET j == q.job IN
    /\ q.phase = "role" => j.kind = "put" /\ j.role # Gone
    /\ q.phase = "check" => j.kind \in {"replace", "read", "put"} /\ q.pos = 0
    /\ q.phase \in {"clear", "fill"} => j.kind \in {"replace", "put"}
    /\ q.phase \in {"check", "clear", "fill", "commit"} /\ j.kind = "put" => j.goal # 0
    /\ q.phase = "commit" => j.kind \in {"replace", "put", "load"}
    /\ q.phase \in {"wipe", "levels", "tools", "seeded"} => j.kind = "load"
    /\ q.phase \in {"wipe", "role"} => q.pos = 0
    /\ q.phase = "reload" => j.kind = "put"
    /\ q.phase \in {"open", "rows"} => j.kind \in {"replace", "read"}

LocalsFit(q, t) ==
    /\ q.phase = "idle" => q = Idle
    /\ q.phase \in Resting => q.job = NoJob
    /\ q.phase \notin Resting => q.job \in Jobs /\ q.status = ""
    /\ q.phase \notin {"rows", "answered"} => q.rows = Unread
    /\ q.phase \in WithoutTx => t = NoTx
    /\ q.phase \notin WithoutTx => t.image \in Databases

CheckedFits(q, t, d) ==
    q.phase = "clear" =>
        /\ t.mode = "read"
        /\ q.pos = 0
        /\ Here(q.job, t.image)
        /\ ~t.stale => t.image = d

HintsFit(q, t, d) ==
    q.phase \in {"fill", "commit"} /\ q.job.kind = "replace" =>
        LET e == t.image IN
        /\ t.mode = "write"
        /\ Here(q.job, d)
        /\ q.pos \in 0 .. Len(q.job.list)
        /\ q.phase = "commit" => q.pos = Len(q.job.list)
        /\ e.order = d.order /\ e.seq = d.seq /\ e.ties = d.ties
        /\ e.role = d.role /\ e.solved = d.solved
        /\ e.hints = [d.hints EXCEPT ![q.job.level] = Upto(q.job.list, q.pos)]

ProgressFits(q, t, d) ==
    q.phase \in {"fill", "commit"} /\ q.job.kind = "put" =>
        LET e == t.image IN
        /\ t.mode = "write"
        /\ Here(q.job, d)
        /\ e.order = d.order /\ e.seq = d.seq /\ e.ties = d.ties
        /\ e.role = d.role /\ e.hints = d.hints
        /\ e.solved = [d.solved EXCEPT ![q.job.user] =
                         IF q.phase = "fill" THEN {} ELSE First(d, q.job.goal - 1)]

LevelsFit(q, t, d) ==
    q.phase = "levels" =>
        LET f == q.job.file IN
        /\ t.mode = "write"
        /\ q.pos \in 0 .. Len(f.levels)
        /\ Good(f, q.pos)
        /\ LevelsIn(t.image, d, f, q.pos)
        /\ t.image.ties = <<>>

ToolsFit(q, t, d) ==
    q.phase \in {"tools", "commit"} /\ q.job.kind = "load" =>
        LET f == q.job.file IN
        /\ t.mode = "write"
        /\ q.pos \in 0 .. Len(f.tools)
        /\ q.phase = "commit" => q.pos = Len(f.tools)
        /\ Good(f, Len(f.levels))
        /\ \A i \in 1 .. q.pos : KnownKey(f, f.tools[i])
        /\ LevelsIn(t.image, d, f, Len(f.levels))
        /\ t.image.ties = Upto(Ties(f), q.pos)

\* rows is a beginning of all.
Begins(rows, all, S) ==
    /\ rows \in Seq(S) /\ Len(rows) <= Len(all)
    /\ \A i \in 1 .. Len(rows) : rows[i] = all[i]

RowsFit(q, t) ==
    q.phase = "rows" =>
        t.mode = "scan" /\ Begins(q.rows, t.image.hints[q.job.level], Texts)

Fits(q, t, d) ==
    /\ q \in RequestState
    /\ t \in TxType
    /\ LocalsFit(q, t)
    /\ KindFits(q)
    /\ CheckedFits(q, t, d)
    /\ HintsFit(q, t, d)
    /\ ProgressFits(q, t, d)
    /\ LevelsFit(q, t, d)
    /\ ToolsFit(q, t, d)
    /\ RowsFit(q, t)

OneWriter == \A c, k \in Conns : LockedBy(c) /\ LockedBy(k) => c = k

Inv ==
    /\ db \in Databases
    /\ tx \in [Conns -> TxType]
    /\ req \in [Conns -> RequestState]
    /\ OneWriter
    /\ \A c \in Conns : Fits(req[c], tx[c], db)

-----------------------------------------------------------------------------
(* The database: its fields, and statements field by field. *)

LEMMA Bounds ==
    MaxLevelId \in Nat /\ MaxOrder \in Nat /\ MaxTools \in Nat /\ Registered \subseteq Users
BY TablesAssumption

LEMMA SameDatabase ==
    ASSUME NEW d \in Databases, NEW e \in Databases,
           d.order = e.order, d.seq = e.seq, d.hints = e.hints, d.ties = e.ties,
           d.role = e.role, d.solved = e.solved
    PROVE  d = e
<1>1. d = [order |-> d.order, seq |-> d.seq, hints |-> d.hints, ties |-> d.ties,
           role |-> d.role, solved |-> d.solved]
  BY DEF Databases
<1>2. e = [order |-> e.order, seq |-> e.seq, hints |-> e.hints, ties |-> e.ties,
           role |-> e.role, solved |-> e.solved]
  BY DEF Databases
<1> QED
  BY <1>1, <1>2, Zenon

LEMMA FirstType == ASSUME NEW d, NEW n PROVE First(d, n) \in SUBSET LevelIds
BY DEF First, LevelsOf

LEMMA FirstNone ==
    ASSUME NEW d \in Databases
    PROVE  First(d, 0) = {}
<1> SUFFICES ASSUME NEW l \in LevelsOf(d),
                    Cardinality({k \in LevelsOf(d) : d.order[k] <= d.order[l]}) <= 0
             PROVE  FALSE
  BY DEF First, LevelsOf
<1> DEFINE A == {k \in LevelsOf(d) : d.order[k] <= d.order[l]}
<1>1. IsFiniteSet(LevelIds)
  BY FS_Interval, Bounds DEF LevelIds
<1>2. IsFiniteSet(A)
  BY <1>1, FS_Subset DEF LevelsOf
<1>3. d.order[l] \in Nat
  BY Bounds DEF Databases, LevelsOf
<1>4. l \in A
  BY <1>3
<1>5. Cardinality(A) \in Nat /\ Cardinality(A) # 0
  BY <1>2, <1>4, FS_CardinalityType, FS_EmptySet
<1> QED
  BY <1>5

LEMMA NoHints == <<>> \in Seq(Texts) /\ <<>> \in Seq(NoTool .. MaxLevelId)
BY EmptySeq

\* e differs from d in one table.
OnlyHints(e, d, hints) ==
    /\ e \in Databases
    /\ e.order = d.order /\ e.seq = d.seq /\ e.ties = d.ties
    /\ e.role = d.role /\ e.solved = d.solved
    /\ e.hints = hints

OnlyProgress(e, d, solved) ==
    /\ e \in Databases
    /\ e.order = d.order /\ e.seq = d.seq /\ e.ties = d.ties
    /\ e.role = d.role /\ e.hints = d.hints
    /\ e.solved = solved

LEMMA DeleteHintsFields ==
    ASSUME NEW d \in Databases, NEW l \in LevelIds
    PROVE  OnlyHints(DeleteHints(d, l), d, [d.hints EXCEPT ![l] = <<>>])
BY NoHints DEF DeleteHints, OnlyHints, Databases

LEMMA InsertHintFields ==
    ASSUME NEW d \in Databases, NEW l \in LevelIds, NEW text \in Texts
    PROVE  OnlyHints(InsertHint(d, l, text), d, [d.hints EXCEPT ![l] = Append(d.hints[l], text)])
<1>1. Append(d.hints[l], text) \in Seq(Texts)
  BY DEF Databases
<1> QED
  BY <1>1 DEF InsertHint, OnlyHints, Databases

LEMMA UpdateRoleFields ==
    ASSUME NEW d \in Databases, NEW u \in Users, NEW r \in Roles \cup {Gone}
    PROVE  LET e == UpdateRole(d, u, r) IN
           /\ e \in Databases
           /\ e.order = d.order /\ e.seq = d.seq /\ e.ties = d.ties
           /\ e.hints = d.hints /\ e.solved = d.solved
           /\ e.role = [d.role EXCEPT ![u] = r]
BY DEF UpdateRole, Databases

LEMMA DeleteProgressFields ==
    ASSUME NEW d \in Databases, NEW u \in Users
    PROVE  OnlyProgress(DeleteProgress(d, u), d, [d.solved EXCEPT ![u] = {}])
BY DEF DeleteProgress, OnlyProgress, Databases

LEMMA InsertProgressFields ==
    ASSUME NEW d \in Databases, NEW u \in Users, NEW n
    PROVE  OnlyProgress(InsertProgress(d, u, n), d, [d.solved EXCEPT ![u] = First(d, n)])
<1>1. First(d, n) \in SUBSET LevelIds
  BY FirstType
<1> QED
  BY <1>1 DEF InsertProgress, OnlyProgress, Databases

LEMMA InsertLevelType ==
    ASSUME NEW d \in Databases, NEW o \in Orders, d.seq < MaxLevelId
    PROVE  InsertLevel(d, o) \in Databases
<1>1. d.seq + 1 \in 1 .. MaxLevelId /\ d.seq + 1 \in 0 .. MaxLevelId /\ o \in 0 .. MaxOrder
  BY Bounds DEF Databases, LevelIds, Orders
<1> QED
  BY <1>1 DEF InsertLevel, Databases, LevelIds

LEMMA UpdateLevelType ==
    ASSUME NEW d \in Databases, NEW l \in LevelIds, NEW o \in Orders
    PROVE  UpdateLevel(d, l, o) \in Databases
<1>1. o \in 0 .. MaxOrder
  BY Bounds DEF Orders
<1> QED
  BY <1>1 DEF UpdateLevel, Databases

LEMMA DeleteLevelType ==
    ASSUME NEW d \in Databases, NEW l \in LevelIds
    PROVE  DeleteLevel(d, l) \in Databases
<1> DEFINE T == [t \in DOMAIN d.ties |-> IF d.ties[t] = l THEN Untied ELSE d.ties[t]]
<1>1. d.ties \in Seq(NoTool .. MaxLevelId)
  BY DEF Databases
<1>2. T \in Seq(NoTool .. MaxLevelId)
  BY Bounds, <1>1 DEF Untied, NoTool
<1> QED
  BY <1>2, NoHints, Bounds DEF DeleteLevel, Databases

LEMMA DeleteUserType ==
    ASSUME NEW d \in Databases, NEW u \in Users
    PROVE  DeleteUser(d, u) \in Databases
BY DEF DeleteUser, Databases

LEMMA RecordSolvedType ==
    ASSUME NEW d \in Databases, NEW u \in Users, NEW l \in LevelIds
    PROVE  RecordSolved(d, u, l) \in Databases
<1>1. d.solved[u] \cup {l} \in SUBSET LevelIds
  BY DEF Databases
<1> QED
  BY <1>1 DEF RecordSolved, Databases

LEMMA MayTieType == ASSUME NEW d PROVE MayTie(d) \subseteq NoTool .. MaxLevelId
BY Bounds DEF MayTie, LevelsOf, LevelIds, Untied, NoTool

LEMMA Rewritten ==
    ASSUME NEW S, NEW s \in Seq(S), NEW t, NEW x \in S
    PROVE  [s EXCEPT ![t] = x] \in Seq(S)
<1> DEFINE z == [s EXCEPT ![t] = x]
<1>1. Len(s) \in Nat /\ DOMAIN s = 1 .. Len(s) /\ s \in [1 .. Len(s) -> S]
  OBVIOUS
<1>2. z \in [1 .. Len(s) -> S]
  BY <1>1, Zenon
<1> QED
  BY <1>1, <1>2, SeqDef

LEMMA InsertToolType ==
    ASSUME NEW d \in Databases, NEW l \in NoTool .. MaxLevelId
    PROVE  InsertTool(d, l) \in Databases
<1>1. Append(d.ties, l) \in Seq(NoTool .. MaxLevelId)
  BY DEF Databases
<1> QED
  BY <1>1 DEF InsertTool, Databases

LEMMA UpdateToolType ==
    ASSUME NEW d \in Databases, NEW t, NEW l \in NoTool .. MaxLevelId
    PROVE  UpdateTool(d, t, l) \in Databases
<1>1. [d.ties EXCEPT ![t] = l] \in Seq(NoTool .. MaxLevelId)
  BY Rewritten DEF Databases
<1> QED
  BY <1>1 DEF UpdateTool, Databases

LEMMA DeleteToolType ==
    ASSUME NEW d \in Databases, NEW t
    PROVE  DeleteTool(d, t) \in Databases
<1>1. NoTool \in NoTool .. MaxLevelId
  BY Bounds DEF NoTool
<1>2. [d.ties EXCEPT ![t] = NoTool] \in Seq(NoTool .. MaxLevelId)
  BY <1>1, Rewritten DEF Databases
<1> QED
  BY <1>2 DEF DeleteTool, Databases

LEMMA InsertUserType ==
    ASSUME NEW d \in Databases, NEW u \in Users, NEW r \in Roles
    PROVE  InsertUser(d, u, r) \in Databases
BY DEF InsertUser, Databases

LEMMA WhenSubset == \A statement, S : When(statement, S) \subseteq S
BY DEF When

LEMMA EditsType == ASSUME NEW d \in Databases, NEW e \in Edits(d) PROVE e \in Databases
<1>1. e \in {d} \cup Created(d) \cup Updated(d) \cup WithoutLevel(d)
              \cup ToolCreated(d) \cup ToolUpdated(d) \cup WithoutTool(d)
              \cup UserCreated(d) \cup WithoutUser(d) \cup Solved(d)
  BY WhenSubset DEF Edits
<1>2. \/ e = d
      \/ d.seq < MaxLevelId /\ \E o \in Orders : e = InsertLevel(d, o)
      \/ \E l \in LevelIds, o \in Orders : e = UpdateLevel(d, l, o)
      \/ \E l \in LevelIds : e = DeleteLevel(d, l)
      \/ \E l \in MayTie(d) : e = InsertTool(d, l)
      \/ \E t \in ToolsOf(d), l \in MayTie(d) : e = UpdateTool(d, t, l)
      \/ \E t \in ToolsOf(d) : e = DeleteTool(d, t)
      \/ \E u \in Users, r \in Roles : e = InsertUser(d, u, r)
      \/ \E u \in Users : e = DeleteUser(d, u)
      \/ \E u \in Users, l \in LevelIds : e = RecordSolved(d, u, l)
  BY <1>1 DEF FreeOrders, LevelsOf, UsersOf, Created, Updated, WithoutLevel,
              ToolCreated, ToolUpdated, WithoutTool, UserCreated, Newcomers, FirstRoles,
              WithoutUser, Solved
<1> QED
  BY <1>2, InsertLevelType, UpdateLevelType, DeleteLevelType, MayTieType, InsertToolType,
     UpdateToolType, DeleteToolType, InsertUserType, DeleteUserType, RecordSolvedType

LEMMA FreshType == Fresh \in Databases
<1>1. 0 \in 0 .. MaxLevelId /\ 0 \in 0 .. MaxOrder
  BY Bounds
<1>2. \A u \in Users : (IF u \in Registered THEN "player" ELSE Unborn) \in Roles \cup {Gone, Unborn}
  BY DEF Roles
<1> QED
  BY <1>1, <1>2, NoHints DEF Fresh, Databases

-----------------------------------------------------------------------------
(* Values that handlers hold. *)

LEMMA JobFields ==
    ASSUME NEW j \in Jobs
    PROVE  /\ j.kind \in {"replace", "read", "put", "load"}
           /\ j.kind \in {"replace", "read"} => j.level \in LevelIds
           /\ j.kind = "replace" => j.list \in Seq(Texts)
           /\ j.kind = "put" => j.user \in Users /\ j.role \in Roles \cup {Gone}
                                                /\ j.goal \in Nat
           /\ j.kind = "load" => j.file \in Files
<1>1. CASE j \in Replace
  BY <1>1, TablesAssumption DEF Replace
<1>2. CASE j \in ReadHints
  BY <1>2 DEF ReadHints
<1>3. CASE j \in Put
  BY <1>3, Bounds DEF Put
<1>4. CASE j \in Load
  BY <1>4 DEF Load
<1> QED
  BY <1>1, <1>2, <1>3, <1>4 DEF Jobs

LEMMA FileFields ==
    ASSUME NEW f \in Files
    PROVE  /\ Len(f.levels) \in 0 .. MaxLevelId
           /\ \A i \in 1 .. Len(f.levels) :
                f.levels[i].order \in Orders /\ f.levels[i].hints \in Seq(Texts)
           /\ Len(f.tools) \in Nat
<1>1. f \in SeedFile /\ Len(f.levels) <= MaxLevelId
  BY TablesAssumption
<1>2. f.levels \in Seq(SeedLevel) /\ f.tools \in Seq(Keys \cup {NoKey})
  BY <1>1 DEF SeedFile
<1>3. Len(f.levels) \in Nat /\ \A i \in 1 .. Len(f.levels) : f.levels[i] \in SeedLevel
  BY <1>2
<1>4. \A lv \in SeedLevel : lv.order \in Orders /\ lv.hints \in Seq(Texts)
  BY DEF SeedLevel
<1> QED
  BY <1>1, <1>2, <1>3, <1>4, Bounds

LEMMA NoTxType == NoTx \in TxType
BY Zenon DEF NoTx, TxType

LEMMA TxOf ==
    ASSUME NEW mode \in {"none", "scan", "read", "write"}, NEW image \in Databases
    PROVE  [mode |-> mode, image |-> image, stale |-> FALSE] \in TxType
BY Zenon DEF TxType

LEMMA StaleType ==
    ASSUME NEW t \in TxType
    PROVE  /\ [t EXCEPT !.stale = TRUE] \in TxType
           /\ [t EXCEPT !.stale = TRUE].mode = t.mode
           /\ [t EXCEPT !.stale = TRUE].image = t.image
           /\ [t EXCEPT !.stale = TRUE].stale
BY DEF TxType

LEMMA IdleType == Idle \in RequestState
BY DEF Idle, Locals, RequestState, Phases

LEMMA IdleFields ==
    Idle.phase = "idle" /\ Idle.job = NoJob /\ Idle.rows = Unread /\ Idle.status = ""
BY DEF Idle, Locals

LEMMA Rephased ==
    ASSUME NEW q \in RequestState, NEW p \in Phases
    PROVE  LET r == [q EXCEPT !.phase = p] IN
           /\ r \in RequestState /\ r.phase = p
           /\ r.job = q.job /\ r.pos = q.pos /\ r.rows = q.rows /\ r.status = q.status
BY DEF RequestState

LEMMA Restarted ==
    ASSUME NEW q \in RequestState, NEW p \in Phases
    PROVE  LET r == [q EXCEPT !.phase = p, !.pos = 0] IN
           /\ r \in RequestState /\ r.phase = p
           /\ r.job = q.job /\ r.pos = 0 /\ r.rows = q.rows /\ r.status = q.status
BY DEF RequestState

LEMMA Advanced ==
    ASSUME NEW q \in RequestState
    PROVE  LET r == [q EXCEPT !.pos = @ + 1] IN
           /\ r \in RequestState /\ r.phase = q.phase
           /\ r.job = q.job /\ r.pos = q.pos + 1 /\ r.rows = q.rows /\ r.status = q.status
<1>1. q.pos \in Nat
  BY DEF RequestState
<1>2. q.pos + 1 \in Nat
  BY <1>1
<1> QED
  BY <1>2 DEF RequestState

Answers == {"ok", "not found", "busy", "failed"}
HintLists == Seq(Texts) \cup {Unread}

LEMMA EndedFields ==
    \A s \in Answers, rows \in HintLists :
       /\ Ended(s, rows) \in RequestState
       /\ Ended(s, rows).phase = "answered"
       /\ Ended(s, rows).job = NoJob
       /\ Ended(s, rows).rows = rows
       /\ Ended(s, rows).status = s
BY DEF Ended, Locals, RequestState, Phases, Answers, HintLists

-----------------------------------------------------------------------------
(* The shapes a step can have, and what they leave alone. *)

\* Nothing depends on the database in these phases.
LEMMA CalmFits ==
    ASSUME NEW q \in RequestState, NEW d, q.phase \in WithoutTx,
           LocalsFit(q, NoTx), KindFits(q)
    PROVE  Fits(q, NoTx, d)
BY NoTxType DEF Fits, WithoutTx, Resting, CheckedFits, HintsFit, ProgressFits, LevelsFit,
   ToolsFit, RowsFit

LEMMA EndedFits ==
    ASSUME NEW s \in Answers, NEW rows \in HintLists, NEW d
    PROVE  Fits(Ended(s, rows), NoTx, d)
<1>1. /\ Ended(s, rows) \in RequestState /\ Ended(s, rows).phase = "answered"
      /\ Ended(s, rows).job = NoJob
  BY EndedFields, Zenon
<1>2. LocalsFit(Ended(s, rows), NoTx) /\ KindFits(Ended(s, rows))
  BY <1>1 DEF LocalsFit, KindFits, WithoutTx, Resting
<1> QED
  BY <1>1, <1>2, CalmFits DEF WithoutTx, Resting

LEMMA IdleFits == ASSUME NEW d PROVE Fits(Idle, NoTx, d)
<1>1. /\ Idle \in RequestState /\ Idle.phase = "idle" /\ Idle.job = NoJob
      /\ Idle.rows = Unread
  BY IdleType, IdleFields
<1> QED
  BY <1>1, CalmFits DEF LocalsFit, KindFits, WithoutTx, Resting

\* Somebody else's step, as a request sees it.
Aside(t, t2, d, d2) ==
    /\ t2 = t \/ (t.mode = "read" /\ t2 = [t EXCEPT !.stale = TRUE])
    /\ d2 = d \/ (t.mode # "write" /\ (t.mode = "read" => t2.stale))

LEMMA Undisturbed ==
    ASSUME NEW q, NEW t, NEW t2, NEW d, NEW d2, Fits(q, t, d), Aside(t, t2, d, d2)
    PROVE  Fits(q, t2, d2) /\ t2.mode = t.mode /\ t2.image = t.image
<1>1. /\ t2 \in TxType /\ t2.mode = t.mode /\ t2.image = t.image
      /\ t.mode # "read" => t2 = t
      /\ t2 = t \/ t2.stale
  <2>1. CASE t2 = t
    <3>1. t \in TxType
      BY DEF Fits
    <3> QED
      BY <2>1, <3>1
  <2>2. CASE t.mode = "read" /\ t2 = [t EXCEPT !.stale = TRUE]
    BY <2>2, StaleType DEF Fits
  <2> QED
    BY <2>1, <2>2 DEF Aside
<1>2. LocalsFit(q, t2)
  <2>1. NoTx.mode = "none"
    BY DEF NoTx
  <2> QED
    BY <1>1, <2>1 DEF Fits, LocalsFit
<1>3. CheckedFits(q, t2, d2)
  BY <1>1 DEF Fits, CheckedFits, Aside
<1>4. t.mode = "write" => d2 = d
  BY DEF Aside
<1>5. HintsFit(q, t2, d2)
  BY <1>1, <1>4 DEF Fits, HintsFit
<1>6. ProgressFits(q, t2, d2)
  BY <1>1, <1>4 DEF Fits, ProgressFits
<1>7. LevelsFit(q, t2, d2)
  BY <1>1, <1>4 DEF Fits, LevelsFit
<1>8. ToolsFit(q, t2, d2)
  BY <1>1, <1>4 DEF Fits, ToolsFit
<1>9. RowsFit(q, t2)
  BY <1>1 DEF Fits, RowsFit
<1> QED
  BY <1>1, <1>2, <1>3, <1>5, <1>6, <1>7, <1>8, <1>9 DEF Fits

-----------------------------------------------------------------------------
(* A step of one request: what it does to its own locals and transaction, and  *)
(* whether it leaves the committed database alone (Local) or not (Writing).    *)

Local(c, q, t) ==
    /\ req' = [req EXCEPT ![c] = q]
    /\ tx' = [tx EXCEPT ![c] = t]
    /\ db' = db

Writing(c, q, t, d) ==
    /\ \A k \in Conns : k # c => ~LockedBy(k)
    /\ req' = [req EXCEPT ![c] = q]
    /\ tx' = [Outdate(c) EXCEPT ![c] = t]
    /\ db' = d

LEMMA LocalStep ==
    ASSUME Inv, NEW c \in Conns, NEW q, NEW t, Local(c, q, t), Fits(q, t, db),
           t.mode = "write" => \A k \in Conns : k # c => ~LockedBy(k)
    PROVE  Inv'
<1>1. q \in RequestState /\ t \in TxType
  BY DEF Fits
<1>2. tx' \in [Conns -> TxType] /\ req' \in [Conns -> RequestState]
  BY <1>1 DEF Inv, Local
<1>3. /\ req'[c] = q /\ tx'[c] = t
      /\ \A k \in Conns : k # c => req'[k] = req[k] /\ tx'[k] = tx[k]
  BY DEF Inv, Local
<1>4. OneWriter'
  BY <1>3 DEF Inv, OneWriter, LockedBy
<1>5. \A k \in Conns : Fits(req'[k], tx'[k], db')
  BY <1>3 DEF Inv, Local
<1> QED
  BY <1>2, <1>4, <1>5 DEF Inv, Local

\* Its own locals and transaction, nobody else's.
Own(c, q, t) ==
    /\ req' = [req EXCEPT ![c] = q]
    /\ tx'[c] = t
    /\ \A k \in Conns : k # c => tx'[k].image = tx[k].image

LEMMA OutdateFields ==
    ASSUME Inv, NEW c \in Conns
    PROVE  /\ Outdate(c) \in [Conns -> TxType]
           /\ \A k \in Conns : k # c =>
                /\ Outdate(c)[k] = tx[k] \/ (tx[k].mode = "read"
                                              /\ Outdate(c)[k] = [tx[k] EXCEPT !.stale = TRUE])
                /\ tx[k].mode = "read" => Outdate(c)[k].stale
                /\ Outdate(c)[k].mode = tx[k].mode
                /\ Outdate(c)[k].image = tx[k].image
<1> SUFFICES ASSUME NEW k \in Conns
             PROVE  /\ Outdate(c)[k] \in TxType
                    /\ k # c =>
                        /\ Outdate(c)[k] = tx[k] \/ (tx[k].mode = "read"
                                              /\ Outdate(c)[k] = [tx[k] EXCEPT !.stale = TRUE])
                        /\ tx[k].mode = "read" => Outdate(c)[k].stale
                        /\ Outdate(c)[k].mode = tx[k].mode
                        /\ Outdate(c)[k].image = tx[k].image
  BY DEF Outdate
<1>1. tx[k] \in TxType
  BY DEF Inv
<1>2. CASE k # c /\ tx[k].mode = "read"
  <2>1. Outdate(c)[k] = [tx[k] EXCEPT !.stale = TRUE]
    BY <1>2 DEF Outdate
  <2> QED
    BY <2>1, <1>1, <1>2, StaleType
<1>3. CASE ~(k # c /\ tx[k].mode = "read")
  <2>1. Outdate(c)[k] = tx[k]
    BY <1>3 DEF Outdate
  <2> QED
    BY <2>1, <1>1, <1>3
<1> QED
  BY <1>2, <1>3

LEMMA WritingStep ==
    ASSUME Inv, NEW c \in Conns, NEW q, NEW t, NEW d \in Databases,
           Writing(c, q, t, d), Fits(q, t, d), t.mode # "write"
    PROVE  Inv' /\ Own(c, q, t)
<1>1. q \in RequestState /\ t \in TxType
  BY DEF Fits
<1>2. tx' \in [Conns -> TxType] /\ req' \in [Conns -> RequestState]
  BY <1>1, OutdateFields DEF Inv, Writing
<1>3. /\ req'[c] = q /\ tx'[c] = t
      /\ \A k \in Conns : k # c => req'[k] = req[k] /\ tx'[k] = Outdate(c)[k]
  BY OutdateFields DEF Inv, Writing
<1>4. ASSUME NEW k \in Conns, k # c
      PROVE  /\ Fits(req'[k], tx'[k], db') /\ tx'[k].mode # "write"
             /\ tx'[k].image = tx[k].image
  <2>1. tx[k].mode # "write"
    BY <1>4 DEF Writing, LockedBy
  <2>2. Aside(tx[k], tx'[k], db, db')
    BY <1>3, <1>4, <2>1, OutdateFields DEF Aside
  <2>3. Fits(req[k], tx[k], db)
    BY DEF Inv
  <2> QED
    BY <1>3, <1>4, <2>1, <2>2, <2>3, Undisturbed
<1>5. OneWriter'
  BY <1>3, <1>4 DEF OneWriter, LockedBy
<1>6. \A k \in Conns : Fits(req'[k], tx'[k], db')
  BY <1>3, <1>4 DEF Writing
<1> QED
  BY <1>2, <1>3, <1>4, <1>5, <1>6 DEF Inv, Writing, Own

LEMMA OneChange ==
    ASSUME NEW S, NEW f, NEW g, NEW c \in S, NEW v,
           f = [k \in S |-> f[k]], g = [k \in S |-> g[k]],
           g[c] = v, \A k \in S : k # c => g[k] = f[k]
    PROVE  g = [f EXCEPT ![c] = v]
OBVIOUS

LEMMA LocalIsOwn ==
    ASSUME Inv, NEW c \in Conns, NEW q, NEW t, Local(c, q, t)
    PROVE  Own(c, q, t)
BY DEF Inv, Local, Own

\* What the abstract store sees of such a step.
LEMMA View ==
    ASSUME Inv, NEW c \in Conns, NEW q, NEW t, Own(c, q, t)
    PROVE  /\ Asked' = [Asked EXCEPT ![c] = q.job]
           /\ Left' = [Left EXCEPT ![c] = ToDo(q)]
           /\ Seen' = [Seen EXCEPT ![c] = HasRead(q, t)]
           /\ Told' = [Told EXCEPT ![c] = Reported(q)]
<1>1. /\ req'[c] = q /\ tx'[c] = t
      /\ \A k \in Conns : k # c => req'[k] = req[k] /\ tx'[k].image = tx[k].image
  BY DEF Inv, Own
<1>2. /\ Asked'[c] = q.job /\ Left'[c] = ToDo(q)
      /\ Seen'[c] = HasRead(q, t) /\ Told'[c] = Reported(q)
  BY <1>1 DEF Asked, Left, Seen, Told
<1>3. \A k \in Conns : k # c => HasRead(req'[k], tx'[k]) = HasRead(req[k], tx[k])
  BY <1>1 DEF HasRead
<1>4. \A k \in Conns : k # c =>
        /\ Asked'[k] = Asked[k] /\ Left'[k] = Left[k]
        /\ Seen'[k] = Seen[k] /\ Told'[k] = Told[k]
  BY <1>1, <1>3 DEF Asked, Left, Seen, Told
<1>5. Asked' = [Asked EXCEPT ![c] = q.job]
  <2>1. Asked = [k \in Conns |-> Asked[k]] /\ Asked' = [k \in Conns |-> Asked'[k]]
    BY DEF Asked
  <2> QED
    BY <2>1, <1>2, <1>4, OneChange
<1>6. Left' = [Left EXCEPT ![c] = ToDo(q)]
  <2>1. Left = [k \in Conns |-> Left[k]] /\ Left' = [k \in Conns |-> Left'[k]]
    BY DEF Left
  <2> QED
    BY <2>1, <1>2, <1>4, OneChange
<1>7. Seen' = [Seen EXCEPT ![c] = HasRead(q, t)]
  <2>1. Seen = [k \in Conns |-> Seen[k]] /\ Seen' = [k \in Conns |-> Seen'[k]]
    BY DEF Seen
  <2> QED
    BY <2>1, <1>2, <1>4, OneChange
<1>8. Told' = [Told EXCEPT ![c] = Reported(q)]
  <2>1. Told = [k \in Conns |-> Told[k]] /\ Told' = [k \in Conns |-> Told'[k]]
    BY DEF Told
  <2> QED
    BY <2>1, <1>2, <1>4, OneChange
<1> QED
  BY <1>5, <1>6, <1>7, <1>8

-----------------------------------------------------------------------------
(* The abstract store's own copies of the operators of Tables.                 *)

LEMMA SameTables ==
    /\ \A d : Store!LevelsOf(d) = LevelsOf(d)
    /\ \A d : Store!UsersOf(d) = UsersOf(d)
    /\ \A d, n : Store!First(d, n) = First(d, n)
    /\ \A f, k : Store!IdOf(f, k) = IdOf(f, k)
    /\ Store!LevelIds = LevelIds
    /\ Store!Fresh = Fresh
<1>1. Store!LevelIds = LevelIds
  BY DEF LevelIds, Store!LevelIds
<1>2. \A d : Store!LevelsOf(d) = LevelsOf(d)
  BY <1>1 DEF LevelsOf, Store!LevelsOf
<1>3. \A S : Store!Cardinality(S) = Cardinality(S)
  BY Zenon DEF Cardinality, Store!Cardinality
<1>4. \A d, n : Store!First(d, n) = First(d, n)
  BY <1>3, <1>2 DEF First, Store!First
<1>5. \A d : Store!UsersOf(d) = UsersOf(d)
  BY DEF UsersOf, Store!UsersOf, Roles, Store!Roles
<1>6. \A f, k : Store!IdOf(f, k) = IdOf(f, k)
  BY DEF IdOf, Store!IdOf, Untied, Store!Untied
<1>7. Store!Fresh = Fresh
  BY <1>1 DEF Fresh, Store!Fresh, Unborn, Store!Unborn
<1> QED
  BY <1>1, <1>2, <1>4, <1>5, <1>6, <1>7

LEMMA SameEdits == \A d : Store!Edits(d) = Edits(d)
<1>1. /\ Store!Orders = Orders /\ Store!Untied = Untied /\ Store!NoTool = NoTool
      /\ Store!Gone = Gone /\ Store!Unborn = Unborn /\ Store!Roles = Roles
  BY DEF Orders, Store!Orders, Untied, Store!Untied, NoTool, Store!NoTool, Gone, Store!Gone,
         Unborn, Store!Unborn, Roles, Store!Roles
<1>2. \A d : Store!FreeOrders(d) = FreeOrders(d)
  BY <1>1, SameTables DEF FreeOrders, Store!FreeOrders
<1>3. \A d : Store!Created(d) = Created(d)
  BY <1>2, Zenon DEF Created, Store!Created, InsertLevel, Store!InsertLevel
<1>4. \A d : Store!Updated(d) = Updated(d)
  <2>1. \A d, l, o : Store!UpdateLevel(d, l, o) = UpdateLevel(d, l, o)
    BY Zenon DEF UpdateLevel, Store!UpdateLevel
  <2> QED
    BY <1>2, <2>1, SameTables DEF Updated, Store!Updated
<1>5. \A d : Store!Solved(d) = Solved(d)
  <2>1. \A d, u, l : Store!RecordSolved(d, u, l) = RecordSolved(d, u, l)
    BY Zenon DEF RecordSolved, Store!RecordSolved
  <2> QED
    BY <2>1, SameTables DEF Solved, Store!Solved
<1>6. \A d : Store!WithoutLevel(d) = WithoutLevel(d)
  <2>1. \A d, l : Store!DeleteLevel(d, l) = DeleteLevel(d, l)
    BY <1>1, Zenon DEF DeleteLevel, Store!DeleteLevel
  <2> QED
    BY <2>1, SameTables DEF WithoutLevel, Store!WithoutLevel
<1>7. \A d : Store!WithoutUser(d) = WithoutUser(d)
  <2>1. \A d, u : Store!DeleteUser(d, u) = DeleteUser(d, u)
    BY <1>1, Zenon DEF DeleteUser, Store!DeleteUser
  <2> QED
    BY <2>1, SameTables DEF WithoutUser, Store!WithoutUser
<1>8. \A statement, S : Store!When(statement, S) = When(statement, S)
  BY DEF When, Store!When
<1>9. \A d : Store!ToolsOf(d) = ToolsOf(d) /\ Store!MayTie(d) = MayTie(d)
  BY <1>1, SameTables DEF ToolsOf, Store!ToolsOf, MayTie, Store!MayTie
<1>10. \A d : Store!ToolCreated(d) = ToolCreated(d)
  <2>1. \A d, l : Store!InsertTool(d, l) = InsertTool(d, l)
    BY Zenon DEF InsertTool, Store!InsertTool
  <2> QED
    BY <1>9, <2>1 DEF ToolCreated, Store!ToolCreated
<1>11. \A d : Store!ToolUpdated(d) = ToolUpdated(d)
  <2>1. \A d, t, l : Store!UpdateTool(d, t, l) = UpdateTool(d, t, l)
    BY Zenon DEF UpdateTool, Store!UpdateTool
  <2> QED
    BY <1>9, <2>1 DEF ToolUpdated, Store!ToolUpdated
<1>12. \A d : Store!WithoutTool(d) = WithoutTool(d)
  <2>1. \A d, t : Store!DeleteTool(d, t) = DeleteTool(d, t)
    BY <1>1, Zenon DEF DeleteTool, Store!DeleteTool
  <2> QED
    BY <1>9, <2>1 DEF WithoutTool, Store!WithoutTool
<1>13. \A d : Store!UserCreated(d) = UserCreated(d)
  <2>1. \A d, u, r : Store!InsertUser(d, u, r) = InsertUser(d, u, r)
    BY Zenon DEF InsertUser, Store!InsertUser
  <2>2. \A d : Store!Newcomers(d) = Newcomers(d) /\ Store!FirstRoles(d) = FirstRoles(d)
    BY <1>1 DEF Newcomers, Store!Newcomers, FirstRoles, Store!FirstRoles
  <2> QED
    BY <2>1, <2>2 DEF UserCreated, Store!UserCreated
<1> QED
  BY <1>3, <1>4, <1>5, <1>6, <1>7, <1>8, <1>10, <1>11, <1>12, <1>13 DEF Edits, Store!Edits

-----------------------------------------------------------------------------
(* Steps the abstract store does not see, failures, and rows that are missing. *)

StoreStep == [Store!Next]_(Store!vars)

LEMMA Abstractly ==
    ASSUME NEW c \in Conns
    PROVE  /\ Asked[c] = req[c].job /\ Left[c] = ToDo(req[c])
           /\ Seen[c] = HasRead(req[c], tx[c]) /\ Told[c] = Reported(req[c])
BY DEF Asked, Left, Seen, Told

LEMMA AtWork ==
    ASSUME Inv, NEW c \in Conns, Running(c)
    PROVE  /\ req[c] \in RequestState /\ req[c].job \in Jobs /\ req[c].job # NoJob
           /\ req[c].status = "" /\ Asked[c] # NoJob /\ Reported(req[c]) = ""
           /\ Fits(req[c], tx[c], db)
           /\ LocalsFit(req[c], tx[c]) /\ KindFits(req[c])
<1>1. Fits(req[c], tx[c], db)
  BY DEF Inv
<1>2. req[c] \in RequestState /\ LocalsFit(req[c], tx[c]) /\ KindFits(req[c])
  BY <1>1 DEF Fits
<1>3. req[c].job \in Jobs /\ req[c].status = ""
  BY <1>2 DEF LocalsFit, Running, Resting
<1> QED
  BY <1>1, <1>2, <1>3, Abstractly, JobAssumption DEF Reported

LEMMA Invisible ==
    ASSUME Inv, NEW c \in Conns, NEW q, NEW t, Local(c, q, t),
           q.job = req[c].job, ToDo(q) = ToDo(req[c]),
           HasRead(q, t) = HasRead(req[c], tx[c]), q.status = req[c].status
    PROVE  StoreStep
<1>1. Own(c, q, t)
  BY LocalIsOwn
<1>2. /\ Asked' = [Asked EXCEPT ![c] = q.job]
      /\ Left' = [Left EXCEPT ![c] = ToDo(q)]
      /\ Seen' = [Seen EXCEPT ![c] = HasRead(q, t)]
      /\ Told' = [Told EXCEPT ![c] = Reported(q)]
  BY <1>1, View
<1>3. Reported(q) = Reported(req[c])
  BY DEF Reported
<1>4. Asked' = Asked /\ Left' = Left /\ Seen' = Seen /\ Told' = Told
  <2>1. /\ q.job = Asked[c] /\ ToDo(q) = Left[c]
        /\ HasRead(q, t) = Seen[c] /\ Reported(q) = Told[c]
    BY <1>3, Abstractly
  <2>2. /\ Asked = [Asked EXCEPT ![c] = Asked[c]] /\ Left = [Left EXCEPT ![c] = Left[c]]
        /\ Seen = [Seen EXCEPT ![c] = Seen[c]] /\ Told = [Told EXCEPT ![c] = Told[c]]
    BY DEF Asked, Left, Seen, Told
  <2> QED
    BY <1>2, <2>1, <2>2
<1> QED
  BY <1>4 DEF Local, StoreStep, Store!vars

LEMMA EndedView ==
    ASSUME Inv, NEW c \in Conns, NEW s \in Answers, NEW rows \in HintLists,
           Local(c, Ended(s, rows), NoTx)
    PROVE  /\ Inv'
           /\ Asked' = [Asked EXCEPT ![c] = NoJob]
           /\ Left' = [Left EXCEPT ![c] = {}]
           /\ Seen' = [Seen EXCEPT ![c] = rows]
           /\ Told' = [Told EXCEPT ![c] = IF s = "busy" THEN "failed" ELSE s]
<1> DEFINE q == Ended(s, rows)
<1>1. q.phase = "answered" /\ q.job = NoJob /\ q.rows = rows /\ q.status = s
  BY EndedFields
<1>2. Fits(q, NoTx, db)
  BY EndedFits
<1>3. NoTx.mode # "write"
  BY DEF NoTx
<1> HIDE DEF q
<1>4. Inv'
  BY <1>2, <1>3, LocalStep DEF q
<1>5. Own(c, q, NoTx)
  BY LocalIsOwn DEF q
<1>6. /\ Asked' = [Asked EXCEPT ![c] = q.job]
      /\ Left' = [Left EXCEPT ![c] = ToDo(q)]
      /\ Seen' = [Seen EXCEPT ![c] = HasRead(q, NoTx)]
      /\ Told' = [Told EXCEPT ![c] = Reported(q)]
  BY <1>5, View
<1>7. ToDo(q) = {} /\ HasRead(q, NoTx) = rows
      /\ Reported(q) = IF s = "busy" THEN "failed" ELSE s
  BY <1>1 DEF ToDo, HasRead, Reported
<1> QED
  BY <1>1, <1>4, <1>6, <1>7

LEMMA FailStep ==
    ASSUME Inv, NEW c \in Conns, Running(c), NEW s \in {"failed", "busy"},
           Local(c, Ended(s, Unread), NoTx)
    PROVE  Inv' /\ StoreStep
<1>1. s \in Answers /\ Unread \in HintLists
  BY DEF Answers, HintLists
<1>2. /\ Inv' /\ Asked' = [Asked EXCEPT ![c] = NoJob]
      /\ Left' = [Left EXCEPT ![c] = {}] /\ Seen' = [Seen EXCEPT ![c] = Unread]
      /\ Told' = [Told EXCEPT ![c] = "failed"]
  BY <1>1, EndedView
<1>3. Asked[c] # NoJob
  BY AtWork
<1>4. Store!Fail(c)
  BY <1>2, <1>3 DEF Store!Fail, Store!Open, Store!Answer, Local
<1> QED
  BY <1>2, <1>4 DEF StoreStep, Store!Next

LEMMA AnsweredView ==
    ASSUME Inv, NEW c \in Conns, NEW s \in Answers, s # "busy", NEW rows \in HintLists,
           Local(c, Ended(s, rows), NoTx)
    PROVE  /\ Inv'
           /\ Asked' = [Asked EXCEPT ![c] = NoJob]
           /\ Left' = [Left EXCEPT ![c] = {}]
           /\ Seen' = [Seen EXCEPT ![c] = rows]
           /\ Told' = [Told EXCEPT ![c] = s]
BY EndedView

LEMMA AnsweredWithout ==
    ASSUME Inv, NEW c \in Conns, NEW s \in Answers, s # "busy",
           Local(c, Ended(s, Unread), NoTx)
    PROVE  /\ Inv'
           /\ Asked' = [Asked EXCEPT ![c] = NoJob]
           /\ Left' = [Left EXCEPT ![c] = {}]
           /\ Seen' = [Seen EXCEPT ![c] = Unread]
           /\ Told' = [Told EXCEPT ![c] = s]
<1>1. Unread \in HintLists
  BY DEF HintLists
<1> QED
  BY <1>1, AnsweredView, Zenon

LEMMA MissStep ==
    ASSUME Inv, NEW c \in Conns, req[c].phase \in {"role", "check", "reload"}, ~Found(c),
           Local(c, Ended("not found", Unread), NoTx)
    PROVE  Inv' /\ StoreStep
<1>1. "not found" \in Answers /\ "not found" # "busy"
  BY DEF Answers
<1>2. /\ Inv' /\ Asked' = [Asked EXCEPT ![c] = NoJob]
      /\ Left' = [Left EXCEPT ![c] = {}] /\ Seen' = [Seen EXCEPT ![c] = Unread]
      /\ Told' = [Told EXCEPT ![c] = "not found"]
  BY <1>1, AnsweredWithout, Zenon
<1>3. Asked[c] # NoJob /\ KindFits(req[c])
  BY AtWork DEF Running
<1>4. ~Store!Target(Asked[c], db)
  BY <1>3, SameTables, Abstractly DEF KindFits, Found, Store!Target
<1>5. Store!Miss(c)
  BY <1>2, <1>3, <1>4 DEF Store!Miss, Store!Open, Store!Answer, Local
<1> QED
  BY <1>2, <1>5 DEF StoreStep, Store!Next

\* Nothing is open: the transaction stays as it is.
LEMMA NothingOpen ==
    ASSUME Inv, NEW c \in Conns, req[c].phase \in WithoutTx
    PROVE  tx[c] = NoTx /\ tx = [tx EXCEPT ![c] = NoTx]
<1>1. tx[c] = NoTx
  BY DEF Inv, Fits, LocalsFit
<1> QED
  BY <1>1 DEF Inv

-----------------------------------------------------------------------------
(* The steps of a request. *)

Changing == {"check", "clear", "fill", "commit", "wipe", "levels", "tools"}
LEMMA ToDoOf ==
    ASSUME NEW q
    PROVE  /\ q.phase \in {"idle", "seeded", "reload", "open", "rows", "answered"} => ToDo(q) = {}
           /\ q.phase = "role" =>
                ToDo(q) = IF q.job.goal # 0 THEN {"role", "progress"} ELSE {"role"}
           /\ q.phase \in Changing =>
                /\ q.job.kind = "replace" => ToDo(q) = {"hints"}
                /\ q.job.kind = "put" => ToDo(q) = {"progress"}
                /\ q.job.kind = "load" => ToDo(q) = {"content"}
                /\ q.job.kind = "read" => ToDo(q) = {}
BY DEF ToDo, Changing

LEMMA AcceptStep ==
    ASSUME Inv, NEW c \in Conns, NEW j \in Offered, Accept(c, j)
    PROVE  Inv' /\ StoreStep
<1> DEFINE q == Locals(FirstPhase(j), j, Unread, "")
<1>1. j \in Jobs /\ j # NoJob
  BY JobAssumption
<1>2. j.kind \in {"replace", "read", "put", "load"}
  BY <1>1, JobFields
<1>3. /\ q.phase = FirstPhase(j) /\ q.job = j /\ q.pos = 0 /\ q.rows = Unread
      /\ q.status = ""
  BY DEF Locals
<1>4. /\ q.phase \in {"check", "role", "reload", "wipe"}
      /\ q.phase \in WithoutTx /\ q.phase \in Phases
  BY <1>2, <1>3 DEF FirstPhase, WithoutTx, Phases
<1>5. q \in RequestState
  BY <1>1, <1>4 DEF Locals, RequestState
<1>6. KindFits(q)
  BY <1>2, <1>3 DEF KindFits, FirstPhase
<1>7. LocalsFit(q, NoTx)
  BY <1>1, <1>3, <1>4 DEF LocalsFit, WithoutTx, Resting
<1>8. ToDo(q) = Store!Parts(j)
  <2>1. CASE j.kind = "put"
    BY <1>1, <1>3, <2>1 DEF FirstPhase, ToDo, Store!Parts, Gone, Store!Gone
  <2>2. CASE j.kind # "put"
    BY <1>1, <1>2, <1>3, <2>2 DEF FirstPhase, ToDo, Store!Parts
  <2> QED
    BY <2>1, <2>2
<1> HIDE DEF q
<1>9. req' = [req EXCEPT ![c] = q] /\ tx' = tx /\ db' = db
  BY DEF Accept, q
<1>10. /\ req[c].phase = "idle" /\ req[c].job = NoJob /\ req[c].status = ""
       /\ req[c].rows = Unread
  <2>1. req[c].phase = "idle" /\ LocalsFit(req[c], tx[c])
    BY DEF Accept, Inv, Fits
  <2>2. req[c] = Idle
    BY <2>1 DEF LocalsFit
  <2> QED
    BY <2>2, IdleFields, Zenon
<1>11. tx[c] = NoTx /\ tx = [tx EXCEPT ![c] = NoTx]
  BY <1>10, NothingOpen DEF WithoutTx, Resting
<1>12. Local(c, q, NoTx)
  BY <1>9, <1>11 DEF Local
<1>13. Fits(q, NoTx, db)
  BY <1>4, <1>5, <1>6, <1>7, CalmFits
<1>14. NoTx.mode # "write"
  BY DEF NoTx
<1>15. Inv'
  BY <1>12, <1>13, <1>14, LocalStep
<1>16. Own(c, q, NoTx)
  BY <1>12, LocalIsOwn
<1>17. /\ Asked' = [Asked EXCEPT ![c] = j]
       /\ Left' = [Left EXCEPT ![c] = Store!Parts(j)]
       /\ Seen' = [Seen EXCEPT ![c] = HasRead(q, NoTx)]
       /\ Told' = [Told EXCEPT ![c] = Reported(q)]
  <2>1. /\ Asked' = [Asked EXCEPT ![c] = q.job]
        /\ Left' = [Left EXCEPT ![c] = ToDo(q)]
        /\ Seen' = [Seen EXCEPT ![c] = HasRead(q, NoTx)]
        /\ Told' = [Told EXCEPT ![c] = Reported(q)]
    BY <1>16, View, Zenon
  <2> QED
    BY <2>1, <1>3, <1>8
<1>18. HasRead(q, NoTx) = Seen[c] /\ Reported(q) = Told[c] /\ Told[c] = "" /\ Asked[c] = NoJob
  BY <1>3, <1>4, <1>10, Abstractly DEF HasRead, Reported
<1>19. Seen' = Seen /\ Told' = Told
  BY <1>17, <1>18 DEF Seen, Told
<1>20. Store!Accept(c, j)
  BY <1>9, <1>17, <1>18, <1>19 DEF Store!Accept, Store!Open
<1> QED
  BY <1>15, <1>20 DEF StoreStep, Store!Next

\* A request that moves on, and has nothing open before or after.
LEMMA MoveOn ==
    ASSUME Inv, NEW c \in Conns, NEW p \in Phases, Running(c),
           req[c].phase \in WithoutTx, p \in WithoutTx, p \notin Resting
    PROVE  LET q == [req[c] EXCEPT !.phase = p] IN
           /\ q \in RequestState /\ LocalsFit(q, NoTx)
           /\ q.phase = p /\ q.job = req[c].job /\ q.pos = req[c].pos
           /\ q.rows = Unread /\ q.status = ""
<1> DEFINE q == [req[c] EXCEPT !.phase = p]
<1>1. /\ req[c] \in RequestState /\ req[c].job \in Jobs /\ req[c].status = ""
      /\ LocalsFit(req[c], tx[c])
  BY AtWork
<1>2. req[c].phase \notin {"rows", "answered"}
  BY DEF Running, WithoutTx, Resting
<1>3. req[c].rows = Unread
  BY <1>1, <1>2 DEF LocalsFit
<1>4. /\ q \in RequestState /\ q.phase = p /\ q.job = req[c].job /\ q.pos = req[c].pos
      /\ q.rows = Unread /\ q.status = ""
  BY <1>1, <1>3, Rephased
<1> HIDE DEF q
<1>5. p # "idle" /\ p # "answered" /\ p # "rows"
  BY DEF WithoutTx, Resting
<1>6. LocalsFit(q, NoTx)
  BY <1>1, <1>4, <1>5 DEF LocalsFit, Resting
<1> QED
  BY <1>4, <1>6 DEF q

\* A change that is published: the abstract store makes it at that moment.
LEMMA ChangeStep ==
    ASSUME Inv, NEW c \in Conns, NEW q, NEW t, NEW d \in Databases,
           NEW part \in {"hints", "role", "progress", "content"},
           Running(c), Writing(c, q, t, d), Fits(q, t, d), t.mode # "write",
           q.job = req[c].job, q.status = req[c].status,
           HasRead(q, t) = HasRead(req[c], tx[c]),
           part \in ToDo(req[c]), ToDo(q) = ToDo(req[c]) \ {part},
           "role" \in ToDo(req[c]) => part = "role",
           Store!Target(req[c].job, db),
           part = "content" => Store!Loadable(req[c].job.file),
           d = Store!Changed(db, req[c].job, part)
    PROVE  Inv' /\ StoreStep
<1>1. Inv' /\ Own(c, q, t)
  BY WritingStep
<1>2. /\ Asked' = [Asked EXCEPT ![c] = q.job]
      /\ Left' = [Left EXCEPT ![c] = ToDo(q)]
      /\ Seen' = [Seen EXCEPT ![c] = HasRead(q, t)]
      /\ Told' = [Told EXCEPT ![c] = Reported(q)]
  BY <1>1, View, Zenon
<1>3. Reported(q) = Reported(req[c])
  BY DEF Reported
<1>4. Asked' = Asked /\ Seen' = Seen /\ Told' = Told
  <2>1. q.job = Asked[c] /\ HasRead(q, t) = Seen[c] /\ Reported(q) = Told[c]
    BY <1>3, Abstractly
  <2>2. /\ Asked = [Asked EXCEPT ![c] = Asked[c]]
        /\ Seen = [Seen EXCEPT ![c] = Seen[c]] /\ Told = [Told EXCEPT ![c] = Told[c]]
    BY DEF Asked, Seen, Told
  <2> QED
    BY <1>2, <2>1, <2>2
<1>5. Left' = [Left EXCEPT ![c] = Left[c] \ {part}]
  BY <1>2, Abstractly
<1>6. Asked[c] = req[c].job /\ Asked[c] # NoJob /\ Left[c] = ToDo(req[c])
  BY AtWork, Abstractly
<1>7. Store!Change(c, part)
  BY <1>4, <1>5, <1>6 DEF Store!Change, Store!Open, Writing
<1> QED
  BY <1>1, <1>7 DEF StoreStep, Store!Next

LEMMA SetUserRoleStep ==
    ASSUME Inv, NEW c \in Conns, SetUserRole(c)
    PROVE  Inv' /\ StoreStep
<1>1. req[c].phase = "role" /\ Running(c) /\ req[c].phase \in WithoutTx
  BY DEF SetUserRole, At, Running, WithoutTx, Resting
<1>2. /\ req[c].job \in Jobs /\ KindFits(req[c]) /\ req[c].status = ""
      /\ req[c].pos = 0 /\ req[c].job.role # Gone /\ req[c].job.kind = "put"
      /\ LocalsFit(req[c], tx[c]) /\ req[c] \in RequestState
  BY <1>1, AtWork DEF KindFits
<1>3. /\ req[c].job.user \in Users /\ req[c].job.role \in Roles \cup {Gone}
      /\ req[c].job.goal \in Nat
  BY <1>2, JobFields
<1>4. tx[c] = NoTx /\ tx = [tx EXCEPT ![c] = NoTx]
  BY <1>1, NothingOpen
<1>5. CASE req[c].job.user \in UsersOf(db)
  <2> DEFINE p == IF req[c].job.goal # 0 THEN "check" ELSE "reload"
             q == [req[c] EXCEPT !.phase = p]
             d == UpdateRole(db, req[c].job.user, req[c].job.role)
  <2>1. p \in Phases /\ p \in WithoutTx /\ p \notin Resting
    BY DEF Phases, WithoutTx, Resting
  <2>2. /\ q \in RequestState /\ LocalsFit(q, NoTx)
        /\ q.phase = p /\ q.job = req[c].job /\ q.pos = req[c].pos
        /\ q.rows = Unread /\ q.status = ""
    BY <1>1, <2>1, MoveOn
  <2>3. d \in Databases
    BY <1>3, UpdateRoleFields DEF Inv
  <2>4. LockFree /\ req' = [req EXCEPT ![c] = q] /\ tx' = Outdate(c) /\ db' = d
    BY <1>5 DEF SetUserRole, Autocommit, Go
  <2>5. Outdate(c) = [Outdate(c) EXCEPT ![c] = NoTx]
    BY <1>4 DEF Outdate
  <2>6. Writing(c, q, NoTx, d)
    BY <2>4, <2>5 DEF Writing, LockFree
  <2>7. Store!Target(req[c].job, db)
    BY <1>2, <1>5, SameTables DEF Store!Target
  <2>8. d = Store!Changed(db, req[c].job, "role")
    BY DEF Store!Changed, UpdateRole
  <2>9. NoTx.mode # "write"
    BY DEF NoTx
  <2>10. "role" \in ToDo(req[c])
    BY <1>1, ToDoOf
  <2>11. p \in {"check", "reload"} /\ (p = "check" <=> req[c].job.goal # 0)
    OBVIOUS
  <2> HIDE DEF p, q, d
  <2>12. KindFits(q)
    BY <1>2, <2>2, <2>11 DEF KindFits
  <2>13. Fits(q, NoTx, d)
    BY <2>1, <2>2, <2>12, CalmFits, Zenon
  <2>14. ToDo(q) = ToDo(req[c]) \ {"role"}
    <3>1. ToDo(req[c]) = IF req[c].job.goal # 0 THEN {"role", "progress"} ELSE {"role"}
      BY <1>1, ToDoOf
    <3>2. ToDo(q) = IF req[c].job.goal # 0 THEN {"progress"} ELSE {}
      BY <1>2, <2>2, <2>11, ToDoOf DEF Changing
    <3> QED
      BY <3>1, <3>2
  <2>15. HasRead(q, NoTx) = HasRead(req[c], tx[c])
    <3>1. req[c].rows = Unread
      BY <1>1, <1>2 DEF LocalsFit
    <3> QED
      BY <1>1, <2>2, <2>11, <3>1 DEF HasRead
  <2> QED
    BY <1>1, <1>2, <2>2, <2>3, <2>13, <2>14, <2>15, <2>6, <2>7, <2>8, <2>9, <2>10, ChangeStep
<1>6. CASE req[c].job.user \notin UsersOf(db)
  <2>1. Local(c, Ended("not found", Unread), NoTx)
    BY <1>4, <1>6 DEF SetUserRole, Answer, Local
  <2>2. ~Found(c)
    BY <1>2, <1>6 DEF Found
  <2> QED
    BY <1>1, <2>1, <2>2, MissStep
<1> QED
  BY <1>5, <1>6

LEMMA CheckStep ==
    ASSUME Inv, NEW c \in Conns, Check(c)
    PROVE  Inv' /\ StoreStep
<1>1. /\ req[c].phase = "check" /\ Running(c) /\ req[c].phase \in WithoutTx /\ db' = db
  BY DEF Check, Running, WithoutTx, Resting
<1>2. /\ req[c].job \in Jobs /\ KindFits(req[c]) /\ req[c].status = "" /\ req[c].pos = 0
      /\ req[c].job.kind \in {"replace", "read", "put"} /\ req[c].rows = Unread
      /\ LocalsFit(req[c], tx[c]) /\ req[c] \in RequestState
  BY <1>1, AtWork DEF KindFits, LocalsFit
<1>3. tx[c] = NoTx /\ tx = [tx EXCEPT ![c] = NoTx]
  BY <1>1, NothingOpen
<1>4. CASE ~Found(c)
  <2>1. Local(c, Ended("not found", Unread), NoTx)
    BY <1>3, <1>4 DEF Check, Answer, Local
  <2> QED
    BY <1>1, <1>4, <2>1, MissStep
<1>5. CASE Found(c) /\ req[c].job.kind = "read"
  <2> DEFINE q == [req[c] EXCEPT !.phase = "open"]
  <2>1. "open" \in Phases /\ "open" \in WithoutTx /\ "open" \notin Resting
    BY DEF Phases, WithoutTx, Resting
  <2>2. /\ q \in RequestState /\ LocalsFit(q, NoTx)
        /\ q.phase = "open" /\ q.job = req[c].job /\ q.pos = req[c].pos
        /\ q.rows = Unread /\ q.status = ""
    BY <1>1, <2>1, MoveOn
  <2>3. Local(c, q, NoTx)
    BY <1>3, <1>5 DEF Check, Go, Local
  <2> HIDE DEF q
  <2>4. KindFits(q)
    BY <1>5, <2>2 DEF KindFits
  <2>5. Fits(q, NoTx, db)
    BY <2>1, <2>2, <2>4, CalmFits
  <2>6. ToDo(q) = ToDo(req[c])
    BY <1>1, <1>5, <2>2, ToDoOf DEF Changing
  <2>7. HasRead(q, NoTx) = HasRead(req[c], tx[c])
    BY <1>1, <1>2, <2>2 DEF HasRead
  <2>8. NoTx.mode # "write"
    BY DEF NoTx
  <2> QED
    BY <1>2, <2>2, <2>3, <2>5, <2>6, <2>7, <2>8, LocalStep, Invisible
<1>6. CASE Found(c) /\ req[c].job.kind # "read"
  <2> DEFINE q == [req[c] EXCEPT !.phase = "clear"]
             t == [mode |-> "read", image |-> db, stale |-> FALSE]
  <2>1. "clear" \in Phases
    BY DEF Phases
  <2>2. /\ q \in RequestState /\ q.phase = "clear" /\ q.job = req[c].job
        /\ q.pos = 0 /\ q.rows = Unread /\ q.status = ""
    BY <1>2, <2>1, Rephased
  <2>3. t \in TxType /\ t.mode = "read" /\ t.image = db /\ db \in Databases
    BY TxOf DEF Inv
  <2>4. Local(c, q, t)
    BY <1>6, <1>1 DEF Check, Go, Snapshot, Local
  <2> HIDE DEF q, t
  <2>5. LocalsFit(q, t) /\ KindFits(q)
    BY <1>2, <1>6, <1>1, <2>2, <2>3 DEF LocalsFit, KindFits, WithoutTx, Resting
  <2>6. Here(q.job, db)
    BY <1>6, <2>2 DEF Here, Found
  <2>7. Fits(q, t, db)
    BY <2>2, <2>3, <2>5, <2>6 DEF Fits, CheckedFits, HintsFit, ProgressFits, LevelsFit,
       ToolsFit, RowsFit
  <2>8. ToDo(q) = ToDo(req[c])
    BY <1>1, <1>2, <2>2, ToDoOf DEF Changing
  <2>9. HasRead(q, t) = HasRead(req[c], tx[c])
    BY <1>1, <1>2, <2>2 DEF HasRead
  <2> QED
    BY <1>2, <2>2, <2>3, <2>4, <2>7, <2>8, <2>9, LocalStep, Invisible
<1> QED
  BY <1>4, <1>5, <1>6

\* A statement inside a transaction: only its image changes.
Writer(e) == [mode |-> "write", image |-> e, stale |-> FALSE]

LEMMA WriterFields ==
    ASSUME NEW e \in Databases
    PROVE  Writer(e) \in TxType /\ Writer(e).mode = "write" /\ Writer(e).image = e
BY TxOf DEF Writer

LEMMA SoleWriter ==
    ASSUME Inv, NEW c \in Conns, LockFree \/ tx[c].mode = "write"
    PROVE  \A k \in Conns : k # c => ~LockedBy(k)
BY DEF Inv, OneWriter, LockedBy, LockFree

LEMMA WriteStep ==
    ASSUME Inv, NEW c \in Conns, NEW q, NEW e \in Databases, Running(c),
           LockFree \/ tx[c].mode = "write",
           req' = [req EXCEPT ![c] = q], Write(c, e), db' = db,
           Fits(q, Writer(e), db), q.job = req[c].job, q.status = "",
           q.rows = Unread, req[c].rows = Unread,
           q.phase # "rows", req[c].phase # "rows", ToDo(q) = ToDo(req[c])
    PROVE  Inv' /\ StoreStep
<1>1. Local(c, q, Writer(e))
  BY DEF Local, Write, Writer
<1>2. \A k \in Conns : k # c => ~LockedBy(k)
  BY SoleWriter
<1>3. HasRead(q, Writer(e)) = HasRead(req[c], tx[c])
  BY DEF HasRead
<1>4. req[c].status = ""
  BY AtWork
<1> QED
  BY <1>1, <1>2, <1>3, <1>4, LocalStep, Invisible, Zenon

LEMMA ClearStep ==
    ASSUME Inv, NEW c \in Conns, Clear(c)
    PROVE  Inv' /\ StoreStep
<1>1. /\ req[c].phase = "clear" /\ Running(c) /\ db' = db /\ LockFree /\ ~tx[c].stale
  BY DEF Clear, CanUpgrade, Running
<1>2. /\ req[c].job \in Jobs /\ KindFits(req[c]) /\ req[c].status = ""
      /\ req[c].job.kind \in {"replace", "put"} /\ req[c].rows = Unread
      /\ LocalsFit(req[c], tx[c]) /\ req[c] \in RequestState
  BY <1>1, AtWork DEF KindFits, LocalsFit
<1>3. /\ req[c].pos = 0 /\ Here(req[c].job, tx[c].image) /\ tx[c].image = db
  BY <1>1, AtWork DEF Fits, CheckedFits
<1>4. db \in Databases
  BY DEF Inv
<1>5. CASE req[c].job.kind = "replace"
  <2> DEFINE q == [req[c] EXCEPT !.phase = "fill"]
             e == DeleteHints(db, req[c].job.level)
  <2>1. "fill" \in Phases
    BY DEF Phases
  <2>2. /\ q \in RequestState /\ q.phase = "fill" /\ q.job = req[c].job
        /\ q.pos = 0 /\ q.rows = Unread /\ q.status = ""
    BY <1>2, <1>3, <2>1, Rephased
  <2>3. req[c].job.level \in LevelIds /\ req[c].job.list \in Seq(Texts)
    BY <1>2, <1>5, JobFields
  <2>4. /\ e \in Databases /\ e.order = db.order /\ e.seq = db.seq /\ e.ties = db.ties
        /\ e.role = db.role /\ e.solved = db.solved
        /\ e.hints = [db.hints EXCEPT ![req[c].job.level] = <<>>]
    BY <1>4, <2>3, DeleteHintsFields DEF OnlyHints
  <2>5. req' = [req EXCEPT ![c] = q] /\ Write(c, e)
    BY <1>3, <1>5 DEF Clear, Go
  <2> HIDE DEF q, e
  <2>6. Writer(e) \in TxType /\ Writer(e).mode = "write" /\ Writer(e).image = e
    BY <2>4, WriterFields
  <2>7. LocalsFit(q, Writer(e)) /\ KindFits(q)
    BY <1>2, <1>5, <2>2, <2>4, <2>6 DEF LocalsFit, KindFits, WithoutTx, Resting
  <2>8. HintsFit(q, Writer(e), db)
    <3>1. Upto(req[c].job.list, 0) = <<>> /\ Len(req[c].job.list) \in Nat
      BY <2>3, UptoNone
    <3>2. 0 \in 0 .. Len(req[c].job.list)
      BY <3>1
    <3>3. Upto(q.job.list, q.pos) = <<>> /\ q.pos \in 0 .. Len(q.job.list)
      BY <2>2, <3>1, <3>2, Zenon
    <3>4. e.hints = [db.hints EXCEPT ![q.job.level] = Upto(q.job.list, q.pos)]
      BY <2>2, <2>4, <3>3, Zenon
    <3>5. Here(q.job, db)
      BY <1>3, <2>2, Zenon
    <3> QED
      BY <2>2, <2>4, <2>6, <3>3, <3>4, <3>5 DEF HintsFit
  <2>9. Fits(q, Writer(e), db)
    BY <1>5, <2>2, <2>6, <2>7, <2>8 DEF Fits, CheckedFits, ProgressFits, LevelsFit,
       ToolsFit, RowsFit
  <2>10. ToDo(q) = ToDo(req[c])
    BY <1>1, <1>5, <2>2, ToDoOf DEF Changing
  <2> QED
    BY <1>1, <1>2, <2>2, <2>4, <2>5, <2>9, <2>10, WriteStep
<1>6. CASE req[c].job.kind = "put"
  <2> DEFINE p == IF req[c].job.goal <= 1 THEN "commit" ELSE "fill"
             q == [req[c] EXCEPT !.phase = p]
             e == DeleteProgress(db, req[c].job.user)
  <2>1. p \in Phases /\ p \in {"fill", "commit"} /\ (p = "commit" <=> req[c].job.goal <= 1)
    BY DEF Phases
  <2> HIDE DEF p
  <2>2. /\ q \in RequestState /\ q.phase = p /\ q.job = req[c].job
        /\ q.pos = 0 /\ q.rows = Unread /\ q.status = ""
    BY <1>2, <1>3, <2>1, Rephased
  <2>3. req[c].job.user \in Users /\ req[c].job.goal \in Nat /\ req[c].job.goal # 0
    BY <1>1, <1>2, <1>6, JobFields DEF KindFits
  <2>4. /\ e \in Databases /\ e.order = db.order /\ e.seq = db.seq /\ e.ties = db.ties
        /\ e.role = db.role /\ e.hints = db.hints
        /\ e.solved = [db.solved EXCEPT ![req[c].job.user] = {}]
    BY <1>4, <2>3, DeleteProgressFields DEF OnlyProgress
  <2>5. req' = [req EXCEPT ![c] = q] /\ Write(c, e)
    BY <1>3, <1>6 DEF Clear, Go, p
  <2> HIDE DEF q, e
  <2>6. Writer(e) \in TxType /\ Writer(e).mode = "write" /\ Writer(e).image = e
    BY <2>4, WriterFields
  <2>7. LocalsFit(q, Writer(e)) /\ KindFits(q)
    BY <1>2, <1>6, <2>1, <2>2, <2>3, <2>4, <2>6 DEF LocalsFit, KindFits, WithoutTx, Resting
  <2>8. ProgressFits(q, Writer(e), db)
    <3>1. p = "commit" => First(db, req[c].job.goal - 1) = {}
      <4>1. p = "commit" => req[c].job.goal - 1 = 0
        BY <2>1, <2>3
      <4> QED
        BY <4>1, <1>4, FirstNone
    <3>2. Here(q.job, db)
      BY <1>3, <2>2, Zenon
    <3>3. (IF q.phase = "fill" THEN {} ELSE First(db, q.job.goal - 1)) = {}
      BY <2>1, <2>2, <3>1
    <3>4. e.solved = [db.solved EXCEPT ![q.job.user] =
                        IF q.phase = "fill" THEN {} ELSE First(db, q.job.goal - 1)]
      BY <2>2, <2>4, <3>3, Zenon
    <3> QED
      BY <2>4, <2>6, <3>2, <3>4 DEF ProgressFits
  <2>9. Fits(q, Writer(e), db)
    BY <1>6, <2>1, <2>2, <2>6, <2>7, <2>8 DEF Fits, CheckedFits, HintsFit, LevelsFit,
       ToolsFit, RowsFit
  <2>10. ToDo(q) = ToDo(req[c])
    BY <1>1, <1>6, <2>1, <2>2, ToDoOf DEF Changing
  <2> QED
    BY <1>1, <1>2, <2>1, <2>2, <2>4, <2>5, <2>9, <2>10, WriteStep
<1> QED
  BY <1>2, <1>5, <1>6

\* Whatever fails, the request gives back its transaction and answers.
LEMMA RefuseStep ==
    ASSUME Inv, NEW c \in Conns, Refuse(c)
    PROVE  Inv' /\ StoreStep
<1>1. Running(c) /\ Local(c, Ended("busy", Unread), NoTx)
  BY DEF Refuse, Answer, Rollback, Local, Running
<1> QED
  BY <1>1, FailStep, Zenon

LEMMA AbortStep ==
    ASSUME Inv, NEW c \in Conns, Abort(c)
    PROVE  Inv' /\ StoreStep
<1>1. Running(c) /\ Local(c, Ended("failed", Unread), NoTx)
  BY DEF Abort, Answer, Rollback, Local
<1> QED
  BY <1>1, FailStep, Zenon

LEMMA TimeOutStep ==
    ASSUME Inv, NEW c \in Conns, TimeOut(c)
    PROVE  Inv' /\ StoreStep
<1>1. req[c].phase \in WithoutTx /\ Running(c)
  BY DEF TimeOut, WithoutTx, Running
<1>2. tx = [tx EXCEPT ![c] = NoTx]
  BY <1>1, NothingOpen
<1>3. Local(c, Ended("busy", Unread), NoTx)
  BY <1>2 DEF TimeOut, Answer, Local
<1> QED
  BY <1>1, <1>3, FailStep, Zenon

\* A step of the handler alone.
LEMMA StayStep ==
    ASSUME Inv, NEW c \in Conns, NEW q, Running(c),
           req' = [req EXCEPT ![c] = q], tx' = tx, db' = db,
           Fits(q, tx[c], db), q.job = req[c].job, q.status = "",
           HasRead(q, tx[c]) = HasRead(req[c], tx[c]), ToDo(q) = ToDo(req[c])
    PROVE  Inv' /\ StoreStep
<1>1. Local(c, q, tx[c])
  BY DEF Local, Inv
<1>2. tx[c].mode = "write" => \A k \in Conns : k # c => ~LockedBy(k)
  BY SoleWriter
<1>3. req[c].status = ""
  BY AtWork
<1> QED
  BY <1>1, <1>2, <1>3, LocalStep, Invisible, Zenon

LEMMA Items ==
    ASSUME NEW S, NEW s \in Seq(S), NEW n \in Nat, n + 1 \in 1 .. Len(s)
    PROVE  s[n + 1] \in S /\ \A i \in 1 .. n + 1 : s[i] \in S
OBVIOUS

LEMMA NotYet ==
    ASSUME NEW N \in Nat, NEW n \in 0 .. N, n # N
    PROVE  /\ n < N /\ n + 1 \in 1 .. N /\ n + 1 \in 0 .. N
           /\ \A i \in 1 .. n + 1 : i \in 1 .. n \/ i = n + 1
OBVIOUS

LEMMA ReplaceHintsStep ==
    ASSUME Inv, NEW c \in Conns, ReplaceHints(c)
    PROVE  Inv' /\ StoreStep
<1> DEFINE l == req[c].job.level
           list == req[c].job.list
           n == req[c].pos
           e == tx[c].image
<1>1. /\ req[c].phase = "fill" /\ req[c].job.kind = "replace" /\ Running(c) /\ db' = db
  BY DEF ReplaceHints, At, Running
<1>2. /\ req[c].job \in Jobs /\ req[c].status = "" /\ req[c].rows = Unread
      /\ tx[c] \in TxType /\ e \in Databases /\ req[c] \in RequestState
      /\ Fits(req[c], tx[c], db) /\ LocalsFit(req[c], tx[c])
  BY <1>1, AtWork DEF Fits, LocalsFit, WithoutTx, Resting
<1>3. /\ tx[c].mode = "write" /\ Here(req[c].job, db) /\ n \in 0 .. Len(list)
      /\ e.order = db.order /\ e.seq = db.seq /\ e.ties = db.ties
      /\ e.role = db.role /\ e.solved = db.solved
      /\ e.hints = [db.hints EXCEPT ![l] = Upto(list, n)]
  BY <1>1, <1>2 DEF Fits, HintsFit
<1>4. l \in LevelIds /\ list \in Seq(Texts) /\ n \in Nat /\ Len(list) \in Nat
  <2>1. l \in LevelIds /\ list \in Seq(Texts)
    BY <1>1, <1>2, JobFields
  <2>2. n \in Nat
    BY <1>2 DEF RequestState
  <2> QED
    BY <2>1, <2>2
<1>5. db.hints \in [LevelIds -> Seq(Texts)]
  BY DEF Inv, Databases
<1>6. CASE n < Len(list)
  <2> DEFINE q == [req[c] EXCEPT !.pos = @ + 1]
             e2 == InsertHint(e, l, list[n + 1])
  <2>1. /\ q \in RequestState /\ q.phase = "fill" /\ q.job = req[c].job
        /\ q.pos = n + 1 /\ q.rows = Unread /\ q.status = ""
    BY <1>1, <1>2, Advanced
  <2>2. n + 1 \in 1 .. Len(list) /\ n + 1 \in 0 .. Len(list)
    <3>1. n # Len(list)
      BY <1>4, <1>6
    <3> QED
      BY <1>3, <1>4, <3>1, NotYet, Zenon
  <2>3. list[n + 1] \in Texts /\ \A i \in 1 .. n + 1 : list[i] \in Texts
    BY <1>4, <2>2, Items, Zenon
  <2>4. /\ e2 \in Databases /\ e2.order = e.order /\ e2.seq = e.seq /\ e2.ties = e.ties
        /\ e2.role = e.role /\ e2.solved = e.solved
        /\ e2.hints = [e.hints EXCEPT ![l] = Append(e.hints[l], list[n + 1])]
    <3>1. OnlyHints(e2, e, [e.hints EXCEPT ![l] = Append(e.hints[l], list[n + 1])])
      BY <1>2, <1>4, <2>3, InsertHintFields, Zenon
    <3> QED
      BY <3>1, Zenon DEF OnlyHints
  <2>5. e.hints[l] = Upto(list, n)
    BY <1>3, <1>4, <1>5
  <2>6. Append(Upto(list, n), list[n + 1]) = Upto(list, n + 1)
    BY <1>4, <2>3, UptoNext
  <2>7. e2.hints = [db.hints EXCEPT ![l] = Upto(list, n + 1)]
    <3>1. e2.hints = [e.hints EXCEPT ![l] = Upto(list, n + 1)]
      BY <2>4, <2>5, <2>6, Zenon
    <3> QED
      BY <3>1, <1>3, <1>4, <1>5
  <2>8. req' = [req EXCEPT ![c] = q] /\ Write(c, e2)
    BY <1>6 DEF ReplaceHints
  <2>9. /\ q.job.level = l /\ q.job.list = list
    BY <2>1
  <2> HIDE DEF q, e2, e, n, list, l
  <2>10. Writer(e2) \in TxType /\ Writer(e2).mode = "write" /\ Writer(e2).image = e2
    BY <2>4, WriterFields
  <2>11. LocalsFit(q, Writer(e2)) /\ KindFits(q)
    BY <1>1, <1>2, <2>1, <2>4, <2>10 DEF LocalsFit, KindFits, WithoutTx, Resting
  <2>12. HintsFit(q, Writer(e2), db)
    BY <1>3, <2>1, <2>2, <2>4, <2>7, <2>9, <2>10 DEF HintsFit
  <2>13. Fits(q, Writer(e2), db)
    BY <1>1, <2>1, <2>10, <2>11, <2>12 DEF Fits, CheckedFits, ProgressFits, LevelsFit,
       ToolsFit, RowsFit
  <2>14. ToDo(q) = ToDo(req[c])
    BY <1>1, <2>1, ToDoOf DEF Changing
  <2> QED
    BY <1>1, <1>2, <1>3, <2>1, <2>4, <2>8, <2>13, <2>14, WriteStep
<1>7. CASE ~(n < Len(list))
  <2> DEFINE q == [req[c] EXCEPT !.phase = "commit"]
  <2>1. "commit" \in Phases
    BY DEF Phases
  <2>2. /\ q \in RequestState /\ q.phase = "commit" /\ q.job = req[c].job
        /\ q.pos = n /\ q.rows = Unread /\ q.status = ""
    BY <1>2, <2>1, Rephased
  <2>3. req' = [req EXCEPT ![c] = q] /\ tx' = tx
    BY <1>7 DEF ReplaceHints, Go
  <2>4. n = Len(list)
    BY <1>3, <1>4, <1>7
  <2>5. /\ q.job.level = l /\ q.job.list = list
    BY <2>2
  <2> HIDE DEF q, e, n, list, l
  <2>6. LocalsFit(q, tx[c]) /\ KindFits(q)
    BY <1>1, <1>2, <2>2 DEF LocalsFit, KindFits, WithoutTx, Resting, e
  <2>7. HintsFit(q, tx[c], db)
    BY <1>3, <2>2, <2>4, <2>5 DEF HintsFit, e
  <2>8. Fits(q, tx[c], db)
    BY <1>1, <1>2, <2>2, <2>6, <2>7 DEF Fits, CheckedFits, ProgressFits, LevelsFit,
       ToolsFit, RowsFit
  <2>9. ToDo(q) = ToDo(req[c])
    BY <1>1, <2>2, ToDoOf DEF Changing
  <2>10. HasRead(q, tx[c]) = HasRead(req[c], tx[c])
    BY <1>1, <1>2, <2>2 DEF HasRead
  <2> QED
    BY <1>1, <2>2, <2>3, <2>8, <2>9, <2>10, StayStep
<1> QED
  BY <1>6, <1>7

LEMMA SetUserProgressToLevelStep ==
    ASSUME Inv, NEW c \in Conns, SetUserProgressToLevel(c)
    PROVE  Inv' /\ StoreStep
<1> DEFINE u == req[c].job.user
           e == tx[c].image
           q == [req[c] EXCEPT !.phase = "commit"]
           e2 == InsertProgress(e, u, req[c].job.goal - 1)
<1>1. /\ req[c].phase = "fill" /\ req[c].job.kind = "put" /\ Running(c) /\ db' = db
      /\ req' = [req EXCEPT ![c] = q] /\ Write(c, e2)
  BY DEF SetUserProgressToLevel, At, Running, Go
<1>2. /\ req[c].job \in Jobs /\ req[c].status = "" /\ req[c].rows = Unread
      /\ e \in Databases /\ req[c] \in RequestState /\ KindFits(req[c])
      /\ Fits(req[c], tx[c], db) /\ LocalsFit(req[c], tx[c])
  BY <1>1, AtWork DEF Fits, LocalsFit, WithoutTx, Resting
<1>3. /\ tx[c].mode = "write" /\ Here(req[c].job, db)
      /\ e.order = db.order /\ e.seq = db.seq /\ e.ties = db.ties
      /\ e.role = db.role /\ e.hints = db.hints
      /\ e.solved = [db.solved EXCEPT ![u] = {}]
  BY <1>1, <1>2 DEF Fits, ProgressFits
<1>4. u \in Users /\ req[c].job.goal # 0
  BY <1>1, <1>2, JobFields DEF KindFits
<1>5. "commit" \in Phases
  BY DEF Phases
<1>6. /\ q \in RequestState /\ q.phase = "commit" /\ q.job = req[c].job
      /\ q.rows = Unread /\ q.status = ""
  BY <1>2, <1>5, Rephased
<1>7. /\ e2 \in Databases /\ e2.order = e.order /\ e2.seq = e.seq /\ e2.ties = e.ties
      /\ e2.role = e.role /\ e2.hints = e.hints
      /\ e2.solved = [e.solved EXCEPT ![u] = First(e, req[c].job.goal - 1)]
  <2>1. OnlyProgress(e2, e, [e.solved EXCEPT ![u] = First(e, req[c].job.goal - 1)])
    BY <1>2, <1>4, InsertProgressFields, Zenon
  <2> QED
    BY <2>1 DEF OnlyProgress
<1>8. First(e, req[c].job.goal - 1) = First(db, req[c].job.goal - 1)
  BY <1>3 DEF First, LevelsOf
<1>9. e2.solved = [db.solved EXCEPT ![u] = First(db, req[c].job.goal - 1)]
  <2>1. db.solved \in [Users -> SUBSET LevelIds]
    BY DEF Inv, Databases
  <2> QED
    BY <1>3, <1>4, <1>7, <1>8, <2>1
<1>10. q.job.user = u /\ q.job.goal = req[c].job.goal
  BY <1>6
<1> HIDE DEF q, e2, e, u
<1>11. Writer(e2) \in TxType /\ Writer(e2).mode = "write" /\ Writer(e2).image = e2
  BY <1>7, WriterFields
<1>12. LocalsFit(q, Writer(e2)) /\ KindFits(q)
  BY <1>1, <1>2, <1>4, <1>6, <1>7, <1>11 DEF LocalsFit, KindFits, WithoutTx, Resting
<1>13. ProgressFits(q, Writer(e2), db)
  BY <1>3, <1>6, <1>7, <1>9, <1>10, <1>11 DEF ProgressFits
<1>14. Fits(q, Writer(e2), db)
  BY <1>1, <1>6, <1>11, <1>12, <1>13 DEF Fits, CheckedFits, HintsFit, LevelsFit,
     ToolsFit, RowsFit
<1>15. ToDo(q) = ToDo(req[c])
  BY <1>1, <1>6, ToDoOf DEF Changing
<1> QED
  BY <1>1, <1>2, <1>3, <1>6, <1>7, <1>14, <1>15, WriteStep

-----------------------------------------------------------------------------
(* The seed. *)

LEMMA WipeFields ==
    ASSUME NEW d \in Databases, NEW f
    PROVE  Wipe(d) \in Databases /\ LevelsIn(Wipe(d), d, f, 0) /\ Wipe(d).ties = <<>>
<1>1. 0 \in 0 .. MaxLevelId /\ 0 \in 0 .. MaxOrder /\ d.role \in [Users -> Roles \cup {Gone, Unborn}]
  BY Bounds DEF Databases
<1>2. Wipe(d) \in Databases
  BY <1>1, NoHints DEF Wipe, Databases
<1>3. \A l \in LevelIds : ~(l <= 0)
  BY Bounds DEF LevelIds
<1>4. /\ Wipe(d).seq = 0 /\ Wipe(d).role = d.role /\ Wipe(d).ties = <<>>
      /\ Wipe(d).order = [l \in LevelIds |-> 0] /\ Wipe(d).hints = [l \in LevelIds |-> <<>>]
      /\ Wipe(d).solved = [u \in Users |-> {}]
  BY DEF Wipe
<1>5. LevelsIn(Wipe(d), d, f, 0)
  BY <1>3, <1>4 DEF LevelsIn
<1> QED
  BY <1>2, <1>4, <1>5

LEMMA SeedLevelFields ==
    ASSUME NEW e \in Databases, NEW d, NEW f \in Files, NEW n \in Nat, n < Len(f.levels),
           LevelsIn(e, d, f, n)
    PROVE  LET e2 == InsertSeedLevel(e, f.levels[n + 1]) IN
           e2 \in Databases /\ LevelsIn(e2, d, f, n + 1) /\ e2.ties = e.ties
<1> DEFINE lv == f.levels[n + 1]
           e2 == InsertSeedLevel(e, lv)
<1>1. n + 1 \in 1 .. Len(f.levels) /\ Len(f.levels) \in 0 .. MaxLevelId
  BY FileFields
<1>2. lv.order \in 1 .. MaxOrder /\ lv.hints \in Seq(Texts)
  BY <1>1, FileFields DEF Orders
<1>3. n + 1 \in LevelIds /\ n + 1 \in 0 .. MaxLevelId /\ lv.order \in 0 .. MaxOrder
  BY <1>1, <1>2, Bounds DEF LevelIds
<1>4. /\ e.seq = n
      /\ e.order = [l \in LevelIds |-> IF l <= n THEN f.levels[l].order ELSE 0]
      /\ e.hints = [l \in LevelIds |-> IF l <= n THEN f.levels[l].hints ELSE <<>>]
      /\ e.role = d.role /\ e.solved = [u \in Users |-> {}]
  BY DEF LevelsIn
<1>5. e2 = [e EXCEPT !.seq = n + 1, !.order = [e.order EXCEPT ![n + 1] = lv.order],
                     !.hints = [e.hints EXCEPT ![n + 1] = lv.hints]]
  BY <1>4 DEF InsertSeedLevel
<1>6. /\ [e.order EXCEPT ![n + 1] = lv.order] \in [LevelIds -> 0 .. MaxOrder]
      /\ [e.hints EXCEPT ![n + 1] = lv.hints] \in [LevelIds -> Seq(Texts)]
  BY <1>2, <1>3 DEF Databases
<1>7. /\ e2 \in Databases /\ e2.seq = n + 1 /\ e2.ties = e.ties
      /\ e2.role = e.role /\ e2.solved = e.solved
      /\ e2.order = [e.order EXCEPT ![n + 1] = lv.order]
      /\ e2.hints = [e.hints EXCEPT ![n + 1] = lv.hints]
  BY <1>3, <1>5, <1>6 DEF Databases
<1>8. \A l \in LevelIds : l <= n + 1 <=> l <= n \/ l = n + 1
  BY DEF LevelIds
<1> HIDE DEF e2
<1>9. e2.order = [l \in LevelIds |-> IF l <= n + 1 THEN f.levels[l].order ELSE 0]
  <2> DEFINE now == [l \in LevelIds |-> IF l <= n + 1 THEN f.levels[l].order ELSE 0]
  <2>1. \A l \in LevelIds : e2.order[l] = now[l]
    BY <1>4, <1>7, <1>8
  <2>2. e2.order = [l \in LevelIds |-> e2.order[l]]
    BY <1>4, <1>7
  <2> QED
    BY <2>1, <2>2
<1>10. e2.hints = [l \in LevelIds |-> IF l <= n + 1 THEN f.levels[l].hints ELSE <<>>]
  <2> DEFINE now == [l \in LevelIds |-> IF l <= n + 1 THEN f.levels[l].hints ELSE <<>>]
  <2>1. \A l \in LevelIds : e2.hints[l] = now[l]
    BY <1>4, <1>7, <1>8
  <2>2. e2.hints = [l \in LevelIds |-> e2.hints[l]]
    BY <1>4, <1>7
  <2> QED
    BY <2>1, <2>2
<1>11. LevelsIn(e2, d, f, n + 1)
  BY <1>4, <1>7, <1>9, <1>10 DEF LevelsIn
<1> QED
  BY <1>7, <1>11 DEF e2

LEMMA GoodNext ==
    ASSUME NEW q, NEW e, NEW d, q.job.file \in Files, q.pos \in Nat,
           q.pos < Len(q.job.file.levels),
           Good(q.job.file, q.pos), LevelsIn(e, d, q.job.file, q.pos), GoodLevel(q, e)
    PROVE  Good(q.job.file, q.pos + 1)
<1> DEFINE f == q.job.file
           n == q.pos
           lv == f.levels[n + 1]
<1>1. lv.key # NoKey /\ \A i \in 1 .. n : f.levels[i].key # lv.key
  BY DEF GoodLevel
<1>2. \A l \in LevelsOf(e) : e.order[l] # lv.order
  BY DEF GoodLevel
<1>3. ASSUME NEW i \in 1 .. n PROVE f.levels[i].order # lv.order
  <2>1. i \in 1 .. Len(f.levels) /\ i \in LevelIds /\ i <= n
    BY FileFields, Bounds DEF LevelIds
  <2>2. e.order[i] = f.levels[i].order
    BY <2>1 DEF LevelsIn
  <2>3. f.levels[i].order # 0
    BY <2>1, FileFields, Bounds DEF Orders
  <2> QED
    BY <1>2, <2>1, <2>2, <2>3 DEF LevelsOf
<1>4. \A i \in 1 .. n + 1 : i \in 1 .. n \/ i = n + 1
  OBVIOUS
<1> QED
  BY <1>1, <1>3, <1>4 DEF Good

LEMMA TieType ==
    ASSUME NEW f \in Files, NEW k, KnownKey(f, k)
    PROVE  IdOf(f, k) \in 0 .. MaxLevelId
<1>1. Len(f.levels) \in 0 .. MaxLevelId
  BY FileFields
<1>2. CASE k = NoKey
  BY <1>1, <1>2, Bounds DEF IdOf, Untied
<1>3. CASE k # NoKey
  <2>1. \E i \in 1 .. Len(f.levels) : f.levels[i].key = k
    BY <1>3 DEF KnownKey
  <2>2. (CHOOSE l \in 1 .. Len(f.levels) : f.levels[l].key = k) \in 1 .. Len(f.levels)
    BY <2>1
  <2>3. IdOf(f, k) \in 1 .. Len(f.levels)
    BY <1>3, <2>2 DEF IdOf
  <2> QED
    BY <1>1, <2>3, Bounds
<1> QED
  BY <1>2, <1>3

LEMMA WipeTablesStep ==
    ASSUME Inv, NEW c \in Conns, WipeTables(c)
    PROVE  Inv' /\ StoreStep
<1> DEFINE q == [req[c] EXCEPT !.phase = "levels"]
           e == Wipe(db)
           f == req[c].job.file
<1>1. /\ req[c].phase = "wipe" /\ req[c].job.kind = "load" /\ Running(c) /\ db' = db
      /\ LockFree /\ req' = [req EXCEPT ![c] = q] /\ Write(c, e)
  BY DEF WipeTables, BeginWrite, Write, Go, At, Running
<1>2. /\ req[c].job \in Jobs /\ req[c].status = "" /\ req[c].rows = Unread
      /\ req[c] \in RequestState /\ KindFits(req[c]) /\ req[c].pos = 0
  BY <1>1, AtWork DEF LocalsFit, KindFits
<1>3. f \in Files /\ Len(f.levels) \in Nat
  <2>1. f \in Files
    BY <1>1, <1>2, JobFields
  <2> QED
    BY <2>1, FileFields
<1>4. "levels" \in Phases
  BY DEF Phases
<1>5. /\ q \in RequestState /\ q.phase = "levels" /\ q.job = req[c].job
      /\ q.pos = 0 /\ q.rows = Unread /\ q.status = ""
  BY <1>2, <1>4, Rephased
<1>6. e \in Databases /\ LevelsIn(e, db, f, 0) /\ e.ties = <<>>
  BY WipeFields DEF Inv
<1>7. q.job.file = f
  BY <1>5
<1> HIDE DEF q, e, f
<1>8. Writer(e) \in TxType /\ Writer(e).mode = "write" /\ Writer(e).image = e
  BY <1>6, WriterFields
<1>9. LocalsFit(q, Writer(e)) /\ KindFits(q)
  BY <1>1, <1>2, <1>5, <1>6, <1>8 DEF LocalsFit, KindFits, WithoutTx, Resting
<1>10. LevelsFit(q, Writer(e), db)
  <2>1. Good(f, 0) /\ 0 \in 0 .. Len(f.levels)
    BY <1>3 DEF Good
  <2> QED
    BY <1>5, <1>6, <1>7, <1>8, <2>1 DEF LevelsFit
<1>11. Fits(q, Writer(e), db)
  BY <1>1, <1>5, <1>8, <1>9, <1>10 DEF Fits, CheckedFits, HintsFit, ProgressFits,
     ToolsFit, RowsFit
<1>12. ToDo(q) = ToDo(req[c])
  BY <1>1, <1>5, ToDoOf DEF Changing
<1> QED
  BY <1>1, <1>2, <1>5, <1>6, <1>11, <1>12, WriteStep

LEMMA LoadLevelStep ==
    ASSUME Inv, NEW c \in Conns, LoadLevel(c)
    PROVE  Inv' /\ StoreStep
<1> DEFINE f == req[c].job.file
           n == req[c].pos
           e == tx[c].image
<1>1. req[c].phase = "levels" /\ Running(c) /\ db' = db
  BY DEF LoadLevel, Running
<1>2. /\ req[c].job \in Jobs /\ req[c].status = "" /\ req[c].rows = Unread
      /\ e \in Databases /\ req[c] \in RequestState /\ req[c].job.kind = "load"
      /\ Fits(req[c], tx[c], db) /\ n \in Nat /\ tx[c] \in TxType
  <2>1. Fits(req[c], tx[c], db) /\ LocalsFit(req[c], tx[c]) /\ KindFits(req[c])
    BY <1>1, AtWork
  <2>2. req[c] \in RequestState /\ n \in Nat /\ tx[c] \in TxType
    BY <2>1 DEF Fits, RequestState
  <2> QED
    BY <1>1, <2>1, <2>2, AtWork DEF LocalsFit, KindFits, WithoutTx, Resting
<1>3. /\ tx[c].mode = "write" /\ n \in 0 .. Len(f.levels) /\ Good(f, n)
      /\ LevelsIn(e, db, f, n) /\ e.ties = <<>>
  BY <1>1, <1>2 DEF Fits, LevelsFit
<1>4. f \in Files /\ Len(f.levels) \in Nat /\ Len(f.tools) \in Nat
  <2>1. f \in Files
    BY <1>2, JobFields
  <2> QED
    BY <2>1, FileFields
<1>5. CASE n = Len(f.levels)
  <2> DEFINE q == [req[c] EXCEPT !.phase = "tools", !.pos = 0]
  <2>1. "tools" \in Phases
    BY DEF Phases
  <2>2. /\ q \in RequestState /\ q.phase = "tools" /\ q.job = req[c].job
        /\ q.pos = 0 /\ q.rows = Unread /\ q.status = ""
    BY <1>2, <2>1, Restarted
  <2>3. req' = [req EXCEPT ![c] = q] /\ tx' = tx
    BY <1>5 DEF LoadLevel
  <2>4. q.job.file = f
    BY <2>2
  <2> HIDE DEF q, f, n
  <2>5. LocalsFit(q, tx[c]) /\ KindFits(q)
    BY <1>2, <2>2 DEF LocalsFit, KindFits, WithoutTx, Resting
  <2>6. ToolsFit(q, tx[c], db)
    <3>1. Upto(Ties(f), 0) = <<>> /\ 0 \in 0 .. Len(f.tools)
      BY <1>4, UptoNone
    <3>2. \A i \in 1 .. 0 : FALSE
      OBVIOUS
    <3>3. Good(f, Len(f.levels)) /\ LevelsIn(e, db, f, Len(f.levels))
      BY <1>3, <1>5
    <3> QED
      BY <1>3, <2>2, <2>4, <3>1, <3>2, <3>3 DEF ToolsFit
  <2>7. Fits(q, tx[c], db)
    BY <1>2, <2>2, <2>5, <2>6 DEF Fits, CheckedFits, HintsFit, ProgressFits, LevelsFit, RowsFit
  <2>8. ToDo(q) = ToDo(req[c])
    BY <1>1, <1>2, <2>2, ToDoOf DEF Changing
  <2>9. HasRead(q, tx[c]) = HasRead(req[c], tx[c])
    BY <1>1, <1>2, <2>2 DEF HasRead
  <2> QED
    BY <1>1, <2>2, <2>3, <2>7, <2>8, <2>9, StayStep
<1>6. CASE n # Len(f.levels) /\ GoodLevel(req[c], e)
  <2> DEFINE q == [req[c] EXCEPT !.pos = @ + 1]
             e2 == InsertSeedLevel(e, f.levels[n + 1])
  <2>1. /\ q \in RequestState /\ q.phase = "levels" /\ q.job = req[c].job
        /\ q.pos = n + 1 /\ q.rows = Unread /\ q.status = ""
    BY <1>1, <1>2, Advanced
  <2>2. n < Len(f.levels) /\ n + 1 \in 0 .. Len(f.levels)
    BY <1>3, <1>4, <1>6, NotYet, Zenon
  <2>3. e2 \in Databases /\ LevelsIn(e2, db, f, n + 1) /\ e2.ties = e.ties
    BY <1>2, <1>3, <1>4, <2>2, SeedLevelFields
  <2>4. Good(f, n + 1)
    BY <1>2, <1>3, <1>4, <1>6, <2>2, GoodNext
  <2>5. req' = [req EXCEPT ![c] = q] /\ Write(c, e2)
    BY <1>6 DEF LoadLevel
  <2>6. q.job.file = f
    BY <2>1
  <2> HIDE DEF q, e2, f, n
  <2>7. Writer(e2) \in TxType /\ Writer(e2).mode = "write" /\ Writer(e2).image = e2
    BY <2>3, WriterFields
  <2>8. LocalsFit(q, Writer(e2)) /\ KindFits(q)
    BY <1>2, <2>1, <2>3, <2>7 DEF LocalsFit, KindFits, WithoutTx, Resting
  <2>9. LevelsFit(q, Writer(e2), db)
    BY <1>3, <2>1, <2>2, <2>3, <2>4, <2>6, <2>7 DEF LevelsFit
  <2>10. Fits(q, Writer(e2), db)
    BY <2>1, <2>7, <2>8, <2>9 DEF Fits, CheckedFits, HintsFit, ProgressFits, ToolsFit, RowsFit
  <2>11. ToDo(q) = ToDo(req[c])
    BY <1>1, <1>2, <2>1, ToDoOf DEF Changing
  <2> QED
    BY <1>1, <1>2, <1>3, <2>1, <2>3, <2>5, <2>10, <2>11, WriteStep
<1>7. CASE n # Len(f.levels) /\ ~GoodLevel(req[c], e)
  <2>1. Local(c, Ended("failed", Unread), NoTx)
    BY <1>7 DEF LoadLevel, Answer, Rollback, Local
  <2> QED
    BY <1>1, <2>1, FailStep, Zenon
<1> QED
  BY <1>5, <1>6, <1>7

LEMMA LoadToolStep ==
    ASSUME Inv, NEW c \in Conns, LoadTool(c)
    PROVE  Inv' /\ StoreStep
<1> DEFINE f == req[c].job.file
           n == req[c].pos
           e == tx[c].image
<1>1. req[c].phase = "tools" /\ Running(c) /\ db' = db
  BY DEF LoadTool, Running
<1>2. /\ req[c].job \in Jobs /\ req[c].status = "" /\ req[c].rows = Unread
      /\ e \in Databases /\ req[c] \in RequestState /\ req[c].job.kind = "load"
      /\ Fits(req[c], tx[c], db) /\ n \in Nat /\ tx[c] \in TxType
  <2>1. Fits(req[c], tx[c], db) /\ LocalsFit(req[c], tx[c]) /\ KindFits(req[c])
    BY <1>1, AtWork
  <2>2. req[c] \in RequestState /\ n \in Nat /\ tx[c] \in TxType
    BY <2>1 DEF Fits, RequestState
  <2> QED
    BY <1>1, <2>1, <2>2, AtWork DEF LocalsFit, KindFits, WithoutTx, Resting
<1>3. /\ tx[c].mode = "write" /\ n \in 0 .. Len(f.tools) /\ Good(f, Len(f.levels))
      /\ \A i \in 1 .. n : KnownKey(f, f.tools[i])
      /\ LevelsIn(e, db, f, Len(f.levels)) /\ e.ties = Upto(Ties(f), n)
  BY <1>1, <1>2 DEF Fits, ToolsFit
<1>4. f \in Files /\ Len(f.levels) \in Nat /\ Len(f.tools) \in Nat
  <2>1. f \in Files
    BY <1>2, JobFields
  <2> QED
    BY <2>1, FileFields
<1>5. CASE n = Len(f.tools)
  <2> DEFINE q == [req[c] EXCEPT !.phase = "commit"]
  <2>1. "commit" \in Phases
    BY DEF Phases
  <2>2. /\ q \in RequestState /\ q.phase = "commit" /\ q.job = req[c].job
        /\ q.pos = n /\ q.rows = Unread /\ q.status = ""
    BY <1>2, <2>1, Rephased
  <2>3. req' = [req EXCEPT ![c] = q] /\ tx' = tx
    BY <1>5 DEF LoadTool, Go
  <2>4. q.job.file = f
    BY <2>2
  <2> HIDE DEF q, f, n
  <2>5. LocalsFit(q, tx[c]) /\ KindFits(q)
    BY <1>2, <2>2 DEF LocalsFit, KindFits, WithoutTx, Resting
  <2>6. ToolsFit(q, tx[c], db)
    BY <1>3, <1>5, <2>2, <2>4 DEF ToolsFit
  <2>7. Fits(q, tx[c], db)
    BY <1>2, <2>2, <2>5, <2>6 DEF Fits, CheckedFits, HintsFit, ProgressFits, LevelsFit, RowsFit
  <2>8. ToDo(q) = ToDo(req[c])
    BY <1>1, <1>2, <2>2, ToDoOf DEF Changing
  <2>9. HasRead(q, tx[c]) = HasRead(req[c], tx[c])
    BY <1>1, <1>2, <2>2 DEF HasRead
  <2> QED
    BY <1>1, <2>2, <2>3, <2>7, <2>8, <2>9, StayStep
<1>6. CASE n # Len(f.tools) /\ KnownKey(f, f.tools[n + 1])
  <2> DEFINE q == [req[c] EXCEPT !.pos = @ + 1]
             k == IdOf(f, f.tools[n + 1])
             e2 == InsertTool(e, k)
  <2>1. /\ q \in RequestState /\ q.phase = "tools" /\ q.job = req[c].job
        /\ q.pos = n + 1 /\ q.rows = Unread /\ q.status = ""
    BY <1>1, <1>2, Advanced
  <2>2. /\ n + 1 \in 1 .. Len(f.tools) /\ n + 1 \in 0 .. Len(f.tools)
        /\ \A i \in 1 .. n + 1 : i \in 1 .. n \/ i = n + 1
    BY <1>3, <1>4, <1>6, NotYet, Zenon
  <2>3. \A i \in 1 .. n + 1 : KnownKey(f, f.tools[i])
    BY <1>3, <1>6, <2>2, Zenon
  <2>4. \A i \in 1 .. n + 1 : Ties(f)[i] \in 0 .. MaxLevelId
    <3>1. \A i \in 1 .. n + 1 : i \in 1 .. Len(f.tools)
      BY <1>4, <2>2
    <3> SUFFICES ASSUME NEW i \in 1 .. n + 1 PROVE Ties(f)[i] \in 0 .. MaxLevelId
      OBVIOUS
    <3>2. IdOf(f, f.tools[i]) \in 0 .. MaxLevelId
      BY <1>4, <2>3, TieType, Zenon
    <3>3. \A t \in 1 .. Len(f.tools) : Ties(f)[t] = IdOf(f, f.tools[t])
      BY DEF Ties
    <3> QED
      BY <3>1, <3>2, <3>3, Zenon
  <2>5. Ties(f)[n + 1] = k /\ k \in 0 .. MaxLevelId
    <3>1. k \in 0 .. MaxLevelId
      BY <1>4, <1>6, TieType, Zenon
    <3>2. \A t \in 1 .. Len(f.tools) : Ties(f)[t] = IdOf(f, f.tools[t])
      BY DEF Ties
    <3> QED
      BY <2>2, <3>1, <3>2, Zenon
  <2>6. Append(Upto(Ties(f), n), Ties(f)[n + 1]) = Upto(Ties(f), n + 1)
    <3> DEFINE s == Ties(f)
    <3>1. n \in Nat /\ \A i \in 1 .. n + 1 : s[i] \in 0 .. MaxLevelId
      BY <1>2, <2>4
    <3>2. Append(Upto(s, n), s[n + 1]) = Upto(s, n + 1)
      <4> HIDE DEF f, n, s
      <4> QED
        BY <3>1, UptoNext, Zenon
    <3> QED
      BY <3>2
  <2>7. e2 \in Databases /\ e2.ties = Append(e.ties, k)
        /\ e2.order = e.order /\ e2.seq = e.seq /\ e2.hints = e.hints
        /\ e2.role = e.role /\ e2.solved = e.solved
    <3>1. e2 \in Databases
      <4> HIDE DEF k, e
      <4>1. k \in NoTool .. MaxLevelId
        BY <2>5, Bounds DEF NoTool
      <4> QED
        BY <1>2, <4>1, InsertToolType
    <3> HIDE DEF k, e
    <3> QED
      BY <1>2, <3>1 DEF InsertTool, Databases
  <2>8. e2.ties = Upto(Ties(f), n + 1)
    BY <1>3, <2>5, <2>6, <2>7, Zenon
  <2>9. req' = [req EXCEPT ![c] = q] /\ Write(c, e2)
    BY <1>6 DEF LoadTool
  <2>10. q.job.file = f
    BY <2>1
  <2> HIDE DEF q, e2, f, n, e
  <2>11. LevelsIn(e2, db, f, Len(f.levels))
    BY <1>3, <2>7 DEF LevelsIn
  <2>12. Writer(e2) \in TxType /\ Writer(e2).mode = "write" /\ Writer(e2).image = e2
    BY <2>7, WriterFields
  <2>13. LocalsFit(q, Writer(e2)) /\ KindFits(q)
    BY <1>2, <2>1, <2>7, <2>12 DEF LocalsFit, KindFits, WithoutTx, Resting
  <2>14. ToolsFit(q, Writer(e2), db)
    BY <1>3, <2>1, <2>2, <2>3, <2>8, <2>10, <2>11, <2>12 DEF ToolsFit
  <2>15. Fits(q, Writer(e2), db)
    BY <1>2, <2>1, <2>12, <2>13, <2>14 DEF Fits, CheckedFits, HintsFit, ProgressFits,
       LevelsFit, RowsFit
  <2>16. ToDo(q) = ToDo(req[c])
    BY <1>1, <1>2, <2>1, ToDoOf DEF Changing
  <2> QED
    BY <1>1, <1>2, <1>3, <2>1, <2>7, <2>9, <2>15, <2>16, WriteStep
<1>7. CASE n # Len(f.tools) /\ ~KnownKey(f, f.tools[n + 1])
  <2>1. Local(c, Ended("failed", Unread), NoTx)
    BY <1>7 DEF LoadTool, Answer, Rollback, Local
  <2> QED
    BY <1>1, <2>1, FailStep, Zenon
<1> QED
  BY <1>5, <1>6, <1>7

-----------------------------------------------------------------------------
(* Commit: the image is what the abstract store makes of the database.         *)

\* A request after its commit.
Committed(q, p, n, r) ==
    /\ r \in RequestState /\ r.phase = p /\ r.job = q.job /\ r.pos = n
    /\ r.rows = Unread /\ r.status = ""

LEMMA PublishStep ==
    ASSUME Inv, NEW c \in Conns, NEW r, NEW p, NEW n,
           NEW part \in {"hints", "progress", "content"},
           req[c].phase = "commit", Publish(c), req' = [req EXCEPT ![c] = r],
           Committed(req[c], p, n, r),
           ToDo(req[c]) = {part},
           \/ p = "open" /\ req[c].job.kind = "replace"
           \/ p = "reload" /\ req[c].job.kind = "put"
           \/ p = "seeded" /\ req[c].job.kind = "load",
           tx[c].mode = "write",
           Store!Target(req[c].job, db),
           part = "content" => Store!Loadable(req[c].job.file),
           tx[c].image = Store!Changed(db, req[c].job, part)
    PROVE  Inv' /\ StoreStep
<1>1. /\ Running(c) /\ req[c].status = "" /\ req[c].job \in Jobs /\ req[c].rows = Unread
      /\ tx[c].image \in Databases
  <2>1. Running(c)
    BY DEF Running
  <2>2. req[c].status = "" /\ req[c].job \in Jobs /\ LocalsFit(req[c], tx[c])
    BY <2>1, AtWork
  <2> QED
    BY <2>1, <2>2 DEF LocalsFit, WithoutTx, Resting
<1>2. Writing(c, r, NoTx, tx[c].image)
  BY SoleWriter DEF Writing, Publish
<1>3. NoTx.mode # "write"
  BY DEF NoTx
<1>4. /\ r \in RequestState /\ r.phase = p /\ r.job = req[c].job
      /\ r.rows = Unread /\ r.status = ""
  BY DEF Committed
<1>5. LocalsFit(r, NoTx) /\ KindFits(r) /\ r.phase \in WithoutTx
  BY <1>1, <1>4 DEF LocalsFit, KindFits, WithoutTx, Resting
<1>6. Fits(r, NoTx, tx[c].image)
  BY <1>4, <1>5, CalmFits
<1>7. ToDo(r) = {}
  BY <1>4, ToDoOf
<1>8. HasRead(r, NoTx) = HasRead(req[c], tx[c])
  BY <1>1, <1>4 DEF HasRead
<1>9. ToDo(r) = ToDo(req[c]) \ {part} /\ part \in ToDo(req[c]) /\ "role" \notin ToDo(req[c])
  BY <1>7
<1>10. part \in {"hints", "role", "progress", "content"}
  OBVIOUS
<1> QED
  BY <1>1, <1>2, <1>3, <1>4, <1>6, <1>8, <1>9, <1>10, ChangeStep

LEMMA CommitStep ==
    ASSUME Inv, NEW c \in Conns, Commit(c)
    PROVE  Inv' /\ StoreStep
<1> DEFINE j == req[c].job
           e == tx[c].image
<1>1. req[c].phase = "commit" /\ Running(c) /\ Publish(c)
  BY DEF Commit, Running
<1>2. /\ j \in Jobs /\ req[c].status = "" /\ req[c].rows = Unread
      /\ e \in Databases /\ req[c] \in RequestState /\ j.kind \in {"replace", "put", "load"}
      /\ Fits(req[c], tx[c], db)
  <2>1. Fits(req[c], tx[c], db) /\ LocalsFit(req[c], tx[c]) /\ KindFits(req[c])
    BY <1>1, AtWork
  <2> QED
    BY <1>1, <2>1, AtWork DEF LocalsFit, KindFits, WithoutTx, Resting
<1>3. db \in Databases
  BY DEF Inv
<1>4. CASE j.kind = "replace"
  <2> DEFINE r == [req[c] EXCEPT !.phase = "open", !.pos = 0]
  <2>1. j.level \in LevelIds /\ j.list \in Seq(Texts)
    BY <1>2, <1>4, JobFields
  <2>2. /\ tx[c].mode = "write" /\ Here(j, db)
        /\ e.order = db.order /\ e.seq = db.seq /\ e.ties = db.ties
        /\ e.role = db.role /\ e.solved = db.solved
        /\ req[c].pos = Len(j.list)
        /\ e.hints = [db.hints EXCEPT ![j.level] = Upto(j.list, req[c].pos)]
    BY <1>1, <1>2, <1>4 DEF Fits, HintsFit
  <2>3. Upto(j.list, req[c].pos) = j.list
    BY <2>1, <2>2, UptoAll
  <2>4. OnlyHints([db EXCEPT !.hints[j.level] = j.list], db, [db.hints EXCEPT ![j.level] = j.list])
    BY <1>3, <2>1 DEF OnlyHints, Databases
  <2>5. e = [db EXCEPT !.hints[j.level] = j.list]
    <3> DEFINE g == [db EXCEPT !.hints[j.level] = j.list]
    <3>1. /\ g \in Databases /\ g.order = e.order /\ g.seq = e.seq /\ g.ties = e.ties
          /\ g.role = e.role /\ g.solved = e.solved /\ g.hints = e.hints
      BY <2>2, <2>3, <2>4 DEF OnlyHints
    <3> HIDE DEF g
    <3>2. e = g
      BY <1>2, <3>1, SameDatabase
    <3> QED
      BY <3>2 DEF g
  <2>6. e = Store!Changed(db, j, "hints")
    BY <2>5 DEF Store!Changed
  <2>7. Store!Target(j, db)
    BY <1>4, <2>2, SameTables DEF Store!Target, Here
  <2>8. Committed(req[c], "open", 0, r)
    <3>1. "open" \in Phases
      BY DEF Phases
    <3> QED
      BY <1>2, <3>1, Restarted DEF Committed
  <2>9. req' = [req EXCEPT ![c] = r]
    BY <1>4 DEF Commit
  <2>10. ToDo(req[c]) = {"hints"}
    BY <1>1, <1>4, ToDoOf DEF Changing
  <2> HIDE DEF r
  <2> QED
    BY <1>1, <1>4, <2>2, <2>6, <2>7, <2>8, <2>9, <2>10, PublishStep
<1>5. CASE j.kind = "put"
  <2> DEFINE r == [req[c] EXCEPT !.phase = "reload"]
             s == First(db, j.goal - 1)
  <2>1. j.user \in Users /\ s \in SUBSET LevelIds
    BY <1>2, <1>5, JobFields, FirstType
  <2>2. /\ tx[c].mode = "write" /\ Here(j, db)
        /\ e.order = db.order /\ e.seq = db.seq /\ e.ties = db.ties
        /\ e.role = db.role /\ e.hints = db.hints
        /\ e.solved = [db.solved EXCEPT ![j.user] = s]
    BY <1>1, <1>2, <1>5 DEF Fits, ProgressFits
  <2>3. OnlyProgress([db EXCEPT !.solved[j.user] = s], db, [db.solved EXCEPT ![j.user] = s])
    BY <1>3, <2>1 DEF OnlyProgress, Databases
  <2>4. e = [db EXCEPT !.solved[j.user] = s]
    <3> DEFINE g == [db EXCEPT !.solved[j.user] = s]
    <3>1. /\ g \in Databases /\ g.order = e.order /\ g.seq = e.seq /\ g.ties = e.ties
          /\ g.role = e.role /\ g.solved = e.solved /\ g.hints = e.hints
      BY <2>2, <2>3 DEF OnlyProgress
    <3> HIDE DEF g
    <3>2. e = g
      BY <1>2, <3>1, SameDatabase
    <3> QED
      BY <3>2 DEF g
  <2>5. e = Store!Changed(db, j, "progress")
    BY <2>4, SameTables DEF Store!Changed
  <2>6. Store!Target(j, db)
    BY <1>5, <2>2, SameTables DEF Store!Target, Here
  <2>7. Committed(req[c], "reload", req[c].pos, r)
    <3>1. "reload" \in Phases
      BY DEF Phases
    <3> QED
      BY <1>2, <3>1, Rephased DEF Committed
  <2>8. req' = [req EXCEPT ![c] = r]
    BY <1>5 DEF Commit, Go
  <2>9. ToDo(req[c]) = {"progress"}
    BY <1>1, <1>5, ToDoOf DEF Changing
  <2> HIDE DEF r
  <2> QED
    BY <1>1, <1>5, <2>2, <2>5, <2>6, <2>7, <2>8, <2>9, PublishStep
<1>6. CASE j.kind = "load"
  <2> DEFINE r == [req[c] EXCEPT !.phase = "seeded", !.pos = 0]
             f == j.file
  <2>1. /\ tx[c].mode = "write" /\ req[c].pos = Len(f.tools) /\ Good(f, Len(f.levels))
        /\ \A i \in 1 .. req[c].pos : KnownKey(f, f.tools[i])
        /\ LevelsIn(e, db, f, Len(f.levels))
        /\ e.ties = Upto(Ties(f), req[c].pos)
    BY <1>1, <1>2, <1>6 DEF Fits, ToolsFit
  <2>2. e.ties = Ties(f)
    <3>1. Upto(Ties(f), Len(f.tools)) = Ties(f)
      BY DEF Upto, Ties
    <3> QED
      BY <2>1, <3>1, Zenon
  <2>3. e = [order |-> e.order, seq |-> e.seq, hints |-> e.hints, ties |-> e.ties,
             role |-> e.role, solved |-> e.solved]
    BY <1>2 DEF Databases
  <2>4. e = Store!Loaded(db, f)
    <3>1. /\ e.seq = Len(f.levels) /\ e.role = db.role /\ e.solved = [u \in Users |-> {}]
          /\ e.order = [l \in LevelIds |->
                          IF l <= Len(f.levels) THEN f.levels[l].order ELSE 0]
          /\ e.hints = [l \in LevelIds |->
                          IF l <= Len(f.levels) THEN f.levels[l].hints ELSE <<>>]
      BY <2>1, Zenon DEF LevelsIn
    <3>2. e.ties = [t \in 1 .. Len(f.tools) |-> Store!IdOf(f, f.tools[t])]
      BY <2>2, SameTables DEF Ties
    <3>3. Store!LevelIds = LevelIds
      BY SameTables
    <3> HIDE DEF e, f
    <3> QED
      BY <2>3, <3>1, <3>2, <3>3, Zenon DEF Store!Loaded
  <2>5. e = Store!Changed(db, j, "content")
    BY <2>4 DEF Store!Changed
  <2>6. Store!Target(j, db)
    BY <1>6, Zenon DEF Store!Target
  <2>7. Store!Loadable(f)
    BY <2>1 DEF Good, KnownKey, Store!Loadable
  <2>8. Committed(req[c], "seeded", 0, r)
    <3>1. "seeded" \in Phases
      BY DEF Phases
    <3> QED
      BY <1>2, <3>1, Restarted DEF Committed
  <2>9. req' = [req EXCEPT ![c] = r]
    BY <1>6 DEF Commit
  <2>10. ToDo(req[c]) = {"content"}
    BY <1>1, <1>6, ToDoOf DEF Changing
  <2> HIDE DEF r
  <2> QED
    BY <1>1, <1>6, <2>1, <2>5, <2>6, <2>7, <2>8, <2>9, <2>10, PublishStep
<1> QED
  BY <1>2, <1>4, <1>5, <1>6

-----------------------------------------------------------------------------
(* Reads, answers, and the end of a request. *)

LEMMA SucceedStep ==
    ASSUME Inv, NEW c \in Conns, Running(c), NEW rows \in HintLists,
           ToDo(req[c]) = {}, rows = HasRead(req[c], tx[c]),
           Store!Reads(req[c].job) => rows # Unread,
           Local(c, Ended("ok", rows), NoTx)
    PROVE  Inv' /\ StoreStep
<1>1. "ok" \in Answers /\ "ok" # "busy"
  BY DEF Answers
<1>2. /\ Inv' /\ Asked' = [Asked EXCEPT ![c] = NoJob]
      /\ Left' = [Left EXCEPT ![c] = {}] /\ Seen' = [Seen EXCEPT ![c] = rows]
      /\ Told' = [Told EXCEPT ![c] = "ok"]
  BY <1>1, AnsweredView
<1>3. Seen' = Seen
  <2>1. Seen[c] = rows /\ Seen = [Seen EXCEPT ![c] = Seen[c]]
    BY Abstractly DEF Seen
  <2> QED
    BY <1>2, <2>1
<1>4. Asked[c] # NoJob /\ Left[c] = {} /\ (Store!Reads(Asked[c]) => Seen[c] # Unread)
  BY AtWork, Abstractly
<1>5. Store!Succeed(c)
  BY <1>2, <1>3, <1>4 DEF Store!Succeed, Store!Open, Store!Answer, Local
<1> QED
  BY <1>2, <1>5 DEF StoreStep, Store!Next

LEMMA ReportStep ==
    ASSUME Inv, NEW c \in Conns, Report(c)
    PROVE  Inv' /\ StoreStep
<1>1. req[c].phase = "seeded" /\ Running(c) /\ req[c].phase \in WithoutTx
  BY DEF Report, Running, WithoutTx
<1>2. tx = [tx EXCEPT ![c] = NoTx]
  BY <1>1, NothingOpen
<1>3. Local(c, Ended("ok", Unread), NoTx)
  BY <1>2 DEF Report, Answer, Local
<1>4. req[c].rows = Unread /\ req[c].job.kind = "load"
  BY <1>1, AtWork DEF LocalsFit, KindFits
<1>5. ToDo(req[c]) = {} /\ Unread = HasRead(req[c], tx[c]) /\ ~Store!Reads(req[c].job)
  BY <1>1, <1>4, ToDoOf DEF HasRead, Store!Reads
<1>6. Unread \in HintLists
  BY DEF HintLists
<1> QED
  BY <1>1, <1>3, <1>5, <1>6, SucceedStep, Zenon

LEMMA AdminUserByIDStep ==
    ASSUME Inv, NEW c \in Conns, AdminUserByID(c)
    PROVE  Inv' /\ StoreStep
<1>1. req[c].phase = "reload" /\ Running(c) /\ req[c].phase \in WithoutTx
  BY DEF AdminUserByID, Running, WithoutTx
<1>2. tx = [tx EXCEPT ![c] = NoTx]
  BY <1>1, NothingOpen
<1>3. CASE Found(c)
  <2>1. Local(c, Ended("ok", Unread), NoTx)
    BY <1>2, <1>3 DEF AdminUserByID, Answer, Local
  <2>2. req[c].rows = Unread /\ req[c].job.kind = "put"
    BY <1>1, AtWork DEF LocalsFit, KindFits
  <2>3. ToDo(req[c]) = {} /\ Unread = HasRead(req[c], tx[c]) /\ ~Store!Reads(req[c].job)
    BY <1>1, <2>2, ToDoOf DEF HasRead, Store!Reads
  <2>4. Unread \in HintLists
    BY DEF HintLists
  <2> QED
    BY <1>1, <2>1, <2>3, <2>4, SucceedStep, Zenon
<1>4. CASE ~Found(c)
  <2>1. Local(c, Ended("not found", Unread), NoTx)
    BY <1>2, <1>4 DEF AdminUserByID, Answer, Local
  <2> QED
    BY <1>1, <1>4, <2>1, MissStep
<1> QED
  BY <1>3, <1>4

LEMMA HintsForLevelStep ==
    ASSUME Inv, NEW c \in Conns, HintsForLevel(c)
    PROVE  Inv' /\ StoreStep
<1> DEFINE q == [req[c] EXCEPT !.phase = "rows", !.rows = <<>>]
           t == [mode |-> "scan", image |-> db, stale |-> FALSE]
<1>1. /\ req[c].phase = "open" /\ Running(c) /\ db' = db /\ Local(c, q, t)
  BY DEF HintsForLevel, Snapshot, Local, Running
<1>2. /\ req[c].job \in Jobs /\ req[c].status = "" /\ req[c] \in RequestState
      /\ req[c].job.kind \in {"replace", "read"}
  BY <1>1, AtWork DEF KindFits
<1>3. req[c].job.level \in LevelIds
  BY <1>2, JobFields
<1>4. "rows" \in Phases /\ <<>> \in Seq(Texts)
  BY NoHints DEF Phases
<1>5. /\ q \in RequestState /\ q.phase = "rows" /\ q.job = req[c].job
      /\ q.rows = <<>> /\ q.status = ""
  BY <1>2, <1>4 DEF RequestState
<1>6. t \in TxType /\ t.mode = "scan" /\ t.image = db /\ db \in Databases
  BY TxOf DEF Inv
<1> HIDE DEF q, t
<1>7. LocalsFit(q, t) /\ KindFits(q)
  BY <1>2, <1>5, <1>6 DEF LocalsFit, KindFits, WithoutTx, Resting
<1>8. RowsFit(q, t)
  <2>1. db.hints[q.job.level] \in Seq(Texts)
    BY <1>3, <1>5, <1>6 DEF Databases
  <2>2. Len(<<>>) = 0 /\ Len(db.hints[q.job.level]) \in Nat
    BY <2>1
  <2>3. Len(<<>>) <= Len(db.hints[q.job.level]) /\ \A i \in 1 .. Len(<<>>) : FALSE
    BY <2>2
  <2> QED
    BY <1>4, <1>5, <1>6, <2>3 DEF RowsFit, Begins
<1>9. Fits(q, t, db)
  BY <1>5, <1>6, <1>7, <1>8 DEF Fits, CheckedFits, HintsFit, ProgressFits, LevelsFit, ToolsFit
<1>10. Inv' /\ Own(c, q, t)
  BY <1>1, <1>6, <1>9, LocalStep, LocalIsOwn
<1>11. /\ Asked' = [Asked EXCEPT ![c] = q.job]
       /\ Left' = [Left EXCEPT ![c] = ToDo(q)]
       /\ Seen' = [Seen EXCEPT ![c] = HasRead(q, t)]
       /\ Told' = [Told EXCEPT ![c] = Reported(q)]
  BY <1>10, View, Zenon
<1>12. /\ q.job = Asked[c] /\ ToDo(q) = Left[c] /\ Left[c] = {} /\ Reported(q) = Told[c]
       /\ HasRead(q, t) = db.hints[Asked[c].level]
  <2>1. /\ Asked[c] = req[c].job /\ Left[c] = ToDo(req[c]) /\ Told[c] = Reported(req[c])
    BY Abstractly
  <2>2. ToDo(q) = {} /\ ToDo(req[c]) = {}
    BY <1>1, <1>5, ToDoOf
  <2>3. Reported(q) = Reported(req[c])
    BY <1>2, <1>5 DEF Reported
  <2>4. HasRead(q, t) = db.hints[req[c].job.level]
    BY <1>5, <1>6 DEF HasRead
  <2> QED
    BY <1>5, <2>1, <2>2, <2>3, <2>4, Zenon
<1>13. Asked' = Asked /\ Left' = Left /\ Told' = Told
  <2>1. /\ Asked = [Asked EXCEPT ![c] = Asked[c]] /\ Left = [Left EXCEPT ![c] = Left[c]]
        /\ Told = [Told EXCEPT ![c] = Told[c]]
    BY DEF Asked, Left, Told
  <2> QED
    BY <1>11, <1>12, <2>1
<1>14. Seen' = [Seen EXCEPT ![c] = db.hints[Asked[c].level]]
  BY <1>11, <1>12
<1>15. Asked[c] # NoJob /\ Store!Reads(Asked[c])
  BY <1>1, <1>2, AtWork, Abstractly DEF Store!Reads
<1>16. Store!Read(c)
  BY <1>1, <1>12, <1>13, <1>14, <1>15 DEF Store!Read, Store!Open
<1> QED
  BY <1>10, <1>16 DEF StoreStep, Store!Next

LEMMA OneMoreRow ==
    ASSUME NEW S, NEW all \in Seq(S), NEW rows, Begins(rows, all, S)
    PROVE  /\ Len(rows) < Len(all) =>
                Begins(Append(rows, all[Len(rows) + 1]), all, S)
           /\ ~(Len(rows) < Len(all)) => rows = all
<1>1. /\ rows \in Seq(S) /\ Len(rows) <= Len(all)
      /\ \A i \in 1 .. Len(rows) : rows[i] = all[i]
  BY DEF Begins
<1>2. CASE Len(rows) < Len(all)
  <2> DEFINE n == Len(rows)
             more == Append(rows, all[n + 1])
  <2>1. n \in Nat /\ n + 1 \in 1 .. Len(all) /\ all[n + 1] \in S
    BY <1>1, <1>2
  <2>2. more \in Seq(S) /\ Len(more) = n + 1 /\ n + 1 <= Len(all)
    BY <1>1, <2>1
  <2>3. ASSUME NEW i \in 1 .. n + 1 PROVE more[i] = all[i]
    BY <1>1, <2>1
  <2> QED
    BY <1>2, <2>2, <2>3 DEF Begins
<1>3. CASE ~(Len(rows) < Len(all))
  <2>1. Len(rows) = Len(all)
    BY <1>1, <1>3
  <2> QED
    BY <1>1, <2>1
<1> QED
  BY <1>2, <1>3

LEMMA NextRowStep ==
    ASSUME Inv, NEW c \in Conns, NextRow(c)
    PROVE  Inv' /\ StoreStep
<1> DEFINE all == tx[c].image.hints[req[c].job.level]
           rows == req[c].rows
<1>1. req[c].phase = "rows" /\ Running(c) /\ db' = db
  BY DEF NextRow, Running
<1>2. /\ req[c].job \in Jobs /\ req[c].status = "" /\ req[c] \in RequestState
      /\ req[c].job.kind \in {"replace", "read"} /\ Fits(req[c], tx[c], db)
      /\ tx[c].image \in Databases /\ tx[c] \in TxType
  <2>1. Fits(req[c], tx[c], db) /\ LocalsFit(req[c], tx[c]) /\ KindFits(req[c])
    BY <1>1, AtWork
  <2>2. tx[c] \in TxType
    BY <2>1 DEF Fits
  <2> QED
    BY <1>1, <2>1, <2>2, AtWork DEF LocalsFit, KindFits, WithoutTx, Resting
<1>3. tx[c].mode = "scan" /\ Begins(rows, all, Texts) /\ rows \in Seq(Texts)
  <2>1. RowsFit(req[c], tx[c])
    BY <1>2 DEF Fits
  <2> QED
    BY <1>1, <2>1, Zenon DEF RowsFit, Begins
<1>4. all \in Seq(Texts)
  <2>1. req[c].job.level \in LevelIds
    BY <1>2, JobFields
  <2> QED
    BY <1>2, <2>1 DEF Databases
<1>5. CASE Len(rows) < Len(all)
  <2> DEFINE more == Append(rows, all[Len(rows) + 1])
             q == [req[c] EXCEPT !.rows = more]
  <2>1. Begins(more, all, Texts) /\ more \in Seq(Texts)
    <3>1. Begins(more, all, Texts)
      BY <1>3, <1>4, <1>5, OneMoreRow, Zenon
    <3> QED
      BY <3>1, Zenon DEF Begins
  <2>2. req' = [req EXCEPT ![c] = q] /\ tx' = tx
    BY <1>5 DEF NextRow
  <2> HIDE DEF more
  <2>3. /\ q \in RequestState /\ q.phase = "rows" /\ q.job = req[c].job
        /\ q.rows = more /\ q.status = ""
    BY <1>1, <1>2, <2>1 DEF RequestState
  <2> HIDE DEF q
  <2>4. LocalsFit(q, tx[c]) /\ KindFits(q)
    BY <1>2, <2>3 DEF LocalsFit, KindFits, WithoutTx, Resting
  <2>5. RowsFit(q, tx[c])
    BY <1>3, <2>1, <2>3, Zenon DEF RowsFit
  <2>6. Fits(q, tx[c], db)
    BY <1>2, <2>3, <2>4, <2>5 DEF Fits, CheckedFits, HintsFit, ProgressFits, LevelsFit, ToolsFit
  <2>7. ToDo(q) = ToDo(req[c])
    BY <1>1, <2>3, ToDoOf
  <2>8. HasRead(q, tx[c]) = HasRead(req[c], tx[c])
    BY <1>1, <2>3 DEF HasRead
  <2> QED
    BY <1>1, <2>2, <2>3, <2>6, <2>7, <2>8, StayStep
<1>6. CASE ~(Len(rows) < Len(all))
  <2>1. rows = all
    BY <1>3, <1>4, <1>6, OneMoreRow, Zenon
  <2>2. Local(c, Ended("ok", rows), NoTx)
    BY <1>6 DEF NextRow, Rollback, Local
  <2>3. ToDo(req[c]) = {} /\ rows = HasRead(req[c], tx[c])
    BY <1>1, <2>1, ToDoOf DEF HasRead
  <2>4. rows \in HintLists
    BY <1>3, Zenon DEF HintLists
  <2>5. rows # Unread
    BY <1>3, SlotAssumption, Zenon
  <2> QED
    BY <1>1, <2>2, <2>3, <2>4, <2>5, SucceedStep, Zenon
<1> QED
  BY <1>5, <1>6

\* Requests that are over, delivered or dead.
LEMMA DieStep ==
    ASSUME Inv, NEW C \in SUBSET Conns, Die(C)
    PROVE  Inv' /\ StoreStep
<1>1. /\ db' = db
      /\ \A k \in C : req'[k] = Idle /\ tx'[k] = NoTx
      /\ \A k \in Conns \ C : req'[k] = req[k] /\ tx'[k] = tx[k]
      /\ req' = [k \in Conns |-> req'[k]] /\ tx' = [k \in Conns |-> tx'[k]]
  BY DEF Die
<1>2. \A k \in Conns : Fits(req'[k], tx'[k], db')
  <2> SUFFICES ASSUME NEW k \in Conns PROVE Fits(req'[k], tx'[k], db')
    OBVIOUS
  <2>1. CASE k \in C
    BY <1>1, <2>1, IdleFits
  <2>2. CASE k \notin C
    BY <1>1, <2>2 DEF Inv
  <2> QED
    BY <2>1, <2>2
<1>3. tx' \in [Conns -> TxType] /\ req' \in [Conns -> RequestState]
  <2>1. \A k \in Conns : req'[k] \in RequestState /\ tx'[k] \in TxType
    BY <1>2 DEF Fits
  <2> QED
    BY <1>1, <2>1
<1>4. OneWriter'
  <2>1. NoTx.mode # "write"
    BY DEF NoTx
  <2> QED
    BY <1>1, <2>1 DEF Inv, OneWriter, LockedBy
<1>5. Inv'
  BY <1>1, <1>2, <1>3, <1>4 DEF Inv
<1>6. ToDo(Idle) = {} /\ HasRead(Idle, NoTx) = Unread /\ Reported(Idle) = "" /\ Idle.job = NoJob
  BY IdleFields, ToDoOf DEF HasRead, Reported
<1>7. Store!Leave(C)
  <2>1. Asked' = [k \in Conns |-> IF k \in C THEN NoJob ELSE Asked[k]]
    BY <1>1, <1>6 DEF Asked
  <2>2. Left' = [k \in Conns |-> IF k \in C THEN {} ELSE Left[k]]
    BY <1>1, <1>6 DEF Left
  <2>3. Seen' = [k \in Conns |-> IF k \in C THEN Unread ELSE Seen[k]]
    BY <1>1, <1>6 DEF Seen
  <2>4. Told' = [k \in Conns |-> IF k \in C THEN "" ELSE Told[k]]
    BY <1>1, <1>6 DEF Told
  <2> QED
    BY <1>1, <2>1, <2>2, <2>3, <2>4 DEF Store!Leave
<1> QED
  BY <1>5, <1>7 DEF StoreStep, Store!Next

LEMMA DeliverStep ==
    ASSUME Inv, NEW c \in Conns, Deliver(c)
    PROVE  Inv' /\ StoreStep
<1>1. tx[c] = NoTx
  BY NothingOpen DEF Deliver, WithoutTx, Resting
<1>2. Die({c})
  BY <1>1 DEF Deliver, Die, Inv
<1> QED
  BY <1>2, DieStep

LEMMA OtherStatementStep ==
    ASSUME Inv, OtherStatement
    PROVE  Inv' /\ StoreStep
<1>1. LockFree /\ db' \in Edits(db) /\ req' = req
  BY DEF OtherStatement
<1>2. db' \in Databases
  BY <1>1, EditsType DEF Inv
<1>3. ASSUME NEW k \in Conns
      PROVE  /\ Fits(req'[k], tx'[k], db') /\ tx'[k].image = tx[k].image
             /\ tx'[k].mode # "write"
  <2>1. Fits(req[k], tx[k], db) /\ tx[k] \in TxType /\ tx[k].mode # "write"
    BY <1>1 DEF Inv, LockFree, LockedBy
  <2>2. CASE tx[k].mode = "read"
    <3>1. tx'[k] = [tx[k] EXCEPT !.stale = TRUE]
      BY <2>2 DEF OtherStatement
    <3>2. Aside(tx[k], tx'[k], db, db')
      BY <2>1, <2>2, <3>1, StaleType DEF Aside
    <3> QED
      BY <1>1, <2>1, <3>2, Undisturbed
  <2>3. CASE tx[k].mode # "read"
    <3>1. tx'[k] = tx[k]
      BY <2>3 DEF OtherStatement
    <3>2. Aside(tx[k], tx'[k], db, db')
      BY <2>1, <2>3, <3>1 DEF Aside
    <3> QED
      BY <1>1, <2>1, <3>2, Undisturbed
  <2> QED
    BY <2>2, <2>3
<1>4. tx' = [k \in Conns |-> tx'[k]] /\ req' \in [Conns -> RequestState]
  BY <1>1 DEF OtherStatement, Inv
<1>5. tx' \in [Conns -> TxType]
  BY <1>3, <1>4 DEF Fits
<1>6. OneWriter'
  BY <1>3 DEF OneWriter, LockedBy
<1>7. Inv'
  BY <1>2, <1>3, <1>4, <1>5, <1>6 DEF Inv
<1>8. \A k \in Conns : HasRead(req'[k], tx'[k]) = HasRead(req[k], tx[k])
  BY <1>1, <1>3 DEF HasRead
<1>9. Asked' = Asked /\ Left' = Left /\ Told' = Told
  BY <1>1 DEF Asked, Left, Told
<1>10. Seen' = Seen
  BY <1>8 DEF Seen
<1>11. Store!OtherStatement
  BY <1>1, <1>9, <1>10, SameEdits DEF Store!OtherStatement
<1> QED
  BY <1>7, <1>11 DEF StoreStep, Store!Next

LEMMA StutterStep ==
    ASSUME Inv, UNCHANGED vars
    PROVE  Inv' /\ StoreStep
<1>1. db' = db /\ tx' = tx /\ req' = req
  BY DEF vars
<1>2. Inv'
  BY <1>1 DEF Inv, OneWriter, LockedBy
<1>3. Asked' = Asked /\ Left' = Left /\ Seen' = Seen /\ Told' = Told
  BY <1>1 DEF Asked, Left, Seen, Told
<1> QED
  BY <1>1, <1>2, <1>3 DEF StoreStep, Store!vars

LEMMA NextStep ==
    ASSUME Inv, [Next]_vars
    PROVE  Inv' /\ StoreStep
<1>1. ASSUME NEW c \in Conns, Begin(c) PROVE Inv' /\ StoreStep
  <2>1. PICK j \in Offered : Accept(c, j)
    BY <1>1 DEF Begin, AdminGetHints, AdminReplaceHints, AdminUpdateUser, Seed
  <2> QED
    BY <2>1, AcceptStep
<1>2. ASSUME NEW c \in Conns, Continue(c) PROVE Inv' /\ StoreStep
  BY <1>2, SetUserRoleStep, CheckStep, ClearStep, RefuseStep, ReplaceHintsStep,
     SetUserProgressToLevelStep, WipeTablesStep, LoadLevelStep, LoadToolStep, CommitStep,
     ReportStep, AdminUserByIDStep, HintsForLevelStep, NextRowStep, TimeOutStep,
     DeliverStep, Zenon DEF Continue
<1>3. CASE Crash
  <2>1. PICK C \in SUBSET Conns : Die(C)
    <3>1. CASE Die({c \in Conns : req[c].phase # "idle" /\ ~Seeding(c)})
      BY <3>1
    <3>2. CASE \E c \in Conns : Die({c})
      BY <3>2
    <3> QED
      BY <1>3, <3>1, <3>2 DEF Crash
  <2> QED
    BY <2>1, DieStep
<1> QED
  BY <1>1, <1>2, <1>3, AbortStep, OtherStatementStep, StutterStep DEF Next

LEMMA InitInv == ASSUME Init PROVE Inv /\ Store!Init
<1>1. /\ db = Fresh /\ tx = [c \in Conns |-> NoTx] /\ req = [c \in Conns |-> Idle]
  BY DEF Init
<1>2. \A c \in Conns : req[c] = Idle /\ tx[c] = NoTx
  BY <1>1
<1>3. \A c \in Conns : Fits(req[c], tx[c], db)
  BY <1>2, IdleFits
<1>4. tx \in [Conns -> TxType] /\ req \in [Conns -> RequestState]
  BY <1>1, NoTxType, IdleType
<1>5. OneWriter
  <2>1. NoTx.mode # "write"
    BY DEF NoTx
  <2> QED
    BY <1>2, <2>1 DEF OneWriter, LockedBy
<1>6. Inv
  BY <1>1, <1>3, <1>4, <1>5, FreshType DEF Inv
<1>7. ToDo(Idle) = {} /\ HasRead(Idle, NoTx) = Unread /\ Reported(Idle) = "" /\ Idle.job = NoJob
  BY IdleFields, ToDoOf DEF HasRead, Reported
<1>8. /\ Asked = [c \in Conns |-> NoJob] /\ Left = [c \in Conns |-> {}]
      /\ Seen = [c \in Conns |-> Unread] /\ Told = [c \in Conns |-> ""]
  BY <1>2, <1>7 DEF Asked, Left, Seen, Told
<1>9. Store!Init
  BY <1>1, <1>8, SameTables DEF Store!Init
<1> QED
  BY <1>6, <1>9

THEOREM Invariance == Safe => []Inv
<1>1. Init => Inv
  BY InitInv
<1>2. Inv /\ [Next]_vars => Inv'
  BY NextStep
<1> QED
  BY <1>1, <1>2, PTL DEF Safe

\* Every table, transaction and handler holds values of its type, and one
\* connection at most has the write lock, whatever statements, refusals,
\* failures and deaths interleave.
THEOREM TypeCorrect == Safe => []TypeOK
<1>1. Inv => TypeOK
  BY DEF Inv, OneWriter, TypeOK
<1> QED
  BY <1>1, Invariance, PTL

\* A request that has answered, failed or died has given back its snapshot and
\* its lock: defer tx.Rollback() and defer rows.Close() cover every path.
THEOREM ConnectionsComeBack == Safe => []NothingLeftOpen
<1>1. Inv => NothingLeftOpen
  BY DEF Inv, Fits, LocalsFit, NothingLeftOpen, Running, WithoutTx, Resting
<1> QED
  BY <1>1, Invariance, PTL

\* What a transaction's SELECT 1 found is there when it writes and commits,
\* though it took no lock: a writer in between makes the snapshot stale, and
\* the upgrade is refused.
THEOREM ChecksHold == Safe => []CheckedRowStays
<1>1. Inv => CheckedRowStays
  <2> SUFFICES ASSUME Inv, NEW c \in Conns, req[c].phase \in {"fill", "commit"},
                      req[c].job.kind # "load"
               PROVE  Found(c)
    BY DEF CheckedRowStays
  <2>1. KindFits(req[c]) /\ Fits(req[c], tx[c], db)
    BY DEF Inv, Fits
  <2>2. req[c].job.kind \in {"replace", "put"}
    BY <2>1 DEF KindFits
  <2>3. Here(req[c].job, db)
    BY <2>1, <2>2 DEF Fits, HintsFit, ProgressFits
  <2> QED
    BY <2>2, <2>3 DEF Here, Found
<1> QED
  BY <1>1, Invariance, PTL

\* ReplaceHints, SetUserProgressToLevel, HintsForLevel and the seed, statement
\* by statement on snapshots and one write lock, implement changes and reads
\* that happen at one moment each.
THEOREM Refinement == Safe => ImplementsAtomicStore
<1>1. Init => Store!Init
  BY InitInv
<1>2. Inv /\ [Next]_vars => [Store!Next]_(Store!vars)
  BY NextStep DEF StoreStep
<1> QED
  BY <1>1, <1>2, Invariance, PTL DEF Safe, ImplementsAtomicStore, Store!Spec

-----------------------------------------------------------------------------
(* Why nobody waits for ever: the writer waits for nobody, and every request   *)
(* has finitely many statements left.                                          *)

\* The holder of the write lock is past its last wait: reads and scans hold
\* none, and a phase that may wait for the lock has no transaction.
THEOREM WriterWaitsForNobody == Safe => []WriterNeverWaits
<1>1. Inv => WriterNeverWaits
  <2> SUFFICES ASSUME Inv, NEW c \in Conns, LockedBy(c)
               PROVE  req[c].phase \in {"fill", "levels", "tools", "commit"}
    BY DEF WriterNeverWaits
  <2>1. /\ tx[c].mode = "write" /\ req[c].phase \in Phases
        /\ LocalsFit(req[c], tx[c]) /\ CheckedFits(req[c], tx[c], db) /\ RowsFit(req[c], tx[c])
    BY DEF LockedBy, Inv, Fits, RequestState
  <2>2. NoTx.mode = "none"
    BY DEF NoTx
  <2>3. req[c].phase \notin WithoutTx
    BY <2>1, <2>2 DEF LocalsFit
  <2>4. req[c].phase # "clear" /\ req[c].phase # "rows"
    BY <2>1 DEF CheckedFits, RowsFit
  <2> QED
    BY <2>1, <2>3, <2>4 DEF Phases, WithoutTx, Resting
<1> QED
  BY <1>1, Invariance, PTL

\* From (q, t) to (q2, t2) a request comes nearer to its answer.
Nearer(q, t, q2, t2) ==
    \/ Distance(q2) < Distance(q)
    \/ /\ Distance(q2) = Distance(q)
       /\ ItemsLeft(q2, t2) \in 0 .. ItemsLeft(q, t) - 1

LEMMA DistanceOf ==
    ASSUME NEW q
    PROVE  /\ q.phase = "role" => Distance(q) = 8
           /\ q.phase = "check" => Distance(q) = 7
           /\ q.phase \in {"clear", "wipe"} => Distance(q) = 6
           /\ q.phase \in {"fill", "levels"} => Distance(q) = 5
           /\ q.phase = "tools" => Distance(q) = 4
           /\ q.phase = "commit" => Distance(q) = 3
           /\ q.phase \in {"open", "reload", "seeded"} => Distance(q) = 2
           /\ q.phase = "rows" => Distance(q) = 1
           /\ q.phase \in Resting => Distance(q) = 0
BY DEF Distance, Resting

\* A handler that runs has somewhere to go, and an answer is the nearest.
LEMMA AnswerIsNearer ==
    ASSUME NEW q \in RequestState, NEW t, NEW q2, NEW t2,
           q.phase \notin Resting, q2.phase \in Resting
    PROVE  Nearer(q, t, q2, t2)
<1>1. Distance(q) \in 1 .. 8
  <2>1. q.phase \in Phases
    BY DEF RequestState
  <2> QED
    BY <2>1, DistanceOf DEF Phases, Resting
<1>2. Distance(q2) = 0
  BY DistanceOf
<1> QED
  BY <1>1, <1>2 DEF Nearer

\* The steps of c's own goroutine that go to another statement.
LEMMA AnswerStep ==
    ASSUME Inv, NEW c \in Conns, Running(c), NEW s \in Answers, Answer(c, s)
    PROVE  Nearer(req[c], tx[c], req'[c], tx'[c])
<1>1. req'[c].phase = "answered" /\ req[c] \in RequestState
  BY EndedFields DEF Answer, Inv, HintLists
<1> QED
  BY <1>1, AnswerIsNearer DEF Running, Resting

LEMMA GoStep ==
    ASSUME Inv, NEW c \in Conns, NEW p \in Phases, Go(c, p),
           \/ req[c].phase = "role" /\ p \in {"check", "reload"}
           \/ req[c].phase = "check" /\ p \in {"open", "clear"}
           \/ req[c].phase = "clear" /\ p \in {"commit", "fill"}
           \/ req[c].phase \in {"fill", "tools"} /\ p = "commit"
           \/ req[c].phase = "wipe" /\ p = "levels"
           \/ req[c].phase = "commit" /\ p = "reload"
    PROVE  Nearer(req[c], tx[c], req'[c], tx'[c])
<1>1. req'[c].phase = p
  BY Rephased DEF Go, Inv
<1> QED
  BY <1>1, DistanceOf DEF Nearer

\* One hint, level or tool more.
LEMMA AdvanceStep ==
    ASSUME Inv, NEW c \in Conns, req' = [req EXCEPT ![c].pos = @ + 1], NEW n \in Nat,
           \/ req[c].phase = "fill" /\ req[c].job.kind = "replace" /\ n = Len(req[c].job.list)
           \/ req[c].phase = "levels" /\ n = Len(req[c].job.file.levels)
           \/ req[c].phase = "tools" /\ n = Len(req[c].job.file.tools),
           req[c].pos < n
    PROVE  Nearer(req[c], tx[c], req'[c], tx'[c])
<1>1. /\ req'[c].phase = req[c].phase /\ req'[c].job = req[c].job
      /\ req'[c].pos = req[c].pos + 1 /\ req[c].pos \in Nat
  BY Advanced DEF Inv, RequestState
<1>2. /\ ItemsLeft(req[c], tx[c]) = n - req[c].pos
      /\ ItemsLeft(req'[c], tx'[c]) = n - (req[c].pos + 1)
  BY <1>1 DEF ItemsLeft
<1>3. Distance(req'[c]) = Distance(req[c])
  BY <1>1, DistanceOf
<1> QED
  BY <1>1, <1>2, <1>3 DEF Nearer

LEMMA OneFewer ==
    ASSUME NEW n \in Nat, NEW m \in Nat, m < n
    PROVE  n - (m + 1) \in 0 .. (n - m) - 1
OBVIOUS

LEMMA RowIsNearer ==
    ASSUME Inv, NEW c \in Conns, NextRow(c)
    PROVE  Nearer(req[c], tx[c], req'[c], tx'[c])
<1> DEFINE all == tx[c].image.hints[req[c].job.level]
           rows == req[c].rows
<1>1. /\ req[c].phase = "rows" /\ req[c] \in RequestState
      /\ Begins(rows, all, Texts)
  BY DEF NextRow, Inv, Fits, RowsFit
<1>2. CASE Len(rows) < Len(all)
  <2>1. /\ req' = [req EXCEPT ![c].rows = Append(rows, all[Len(rows) + 1])] /\ tx' = tx
    BY <1>2 DEF NextRow
  <2>2. /\ req'[c].phase = "rows" /\ req'[c].job = req[c].job
        /\ req'[c].rows = Append(rows, all[Len(rows) + 1])
    BY <1>1, <2>1 DEF Inv, RequestState
  <2>3. Len(rows) \in Nat /\ Len(req'[c].rows) = Len(rows) + 1 /\ Len(all) \in Nat
    <3>1. rows \in Seq(Texts)
      BY <1>1 DEF Begins
    <3>2. all \in Seq(Texts)
      <4>1. LocalsFit(req[c], tx[c]) /\ KindFits(req[c])
        BY DEF Inv, Fits
      <4>2. tx[c].image \in Databases /\ req[c].job \in Jobs
            /\ req[c].job.kind \in {"replace", "read"}
        BY <1>1, <4>1 DEF LocalsFit, KindFits, WithoutTx, Resting
      <4> QED
        BY <4>2, JobFields DEF Databases
    <3> QED
      BY <2>2, <3>1, <3>2, LenProperties, AppendProperties
  <2>4. /\ ItemsLeft(req[c], tx[c]) = Len(all) - Len(rows)
        /\ ItemsLeft(req'[c], tx'[c]) = Len(all) - (Len(rows) + 1)
    BY <1>1, <2>1, <2>2, <2>3 DEF ItemsLeft
  <2>5. Distance(req[c]) = 1 /\ Distance(req'[c]) = 1
    BY <1>1, <2>2, DistanceOf
  <2>6. Len(all) - (Len(rows) + 1) \in 0 .. (Len(all) - Len(rows)) - 1
    <3> HIDE DEF all, rows
    <3> QED
      BY <1>2, <2>3, OneFewer
  <2> QED
    BY <2>4, <2>5, <2>6 DEF Nearer
<1>3. CASE ~(Len(rows) < Len(all))
  <2>1. req'[c] = Ended("ok", rows) /\ rows \in HintLists
    BY <1>1, <1>3 DEF NextRow, Inv, Begins, HintLists
  <2>2. req'[c].phase = "answered"
    <3>1. "ok" \in Answers
      BY DEF Answers
    <3>2. Ended("ok", rows).phase = "answered"
      <4> HIDE DEF rows
      <4> QED
        BY <2>1, <3>1, EndedFields
    <3> QED
      BY <2>1, <3>2
  <2> QED
    BY <1>1, <2>2, AnswerIsNearer DEF Resting
<1> QED
  BY <1>2, <1>3

LEMMA CommitIsNearer ==
    ASSUME Inv, NEW c \in Conns, Commit(c)
    PROVE  Nearer(req[c], tx[c], req'[c], tx'[c])
<1>1. req[c].phase = "commit" /\ req[c] \in RequestState /\ KindFits(req[c])
  BY DEF Commit, Inv, Fits
<1>2. req[c].job.kind \in {"replace", "put", "load"}
  BY <1>1 DEF KindFits
<1>3. req'[c].phase \in {"open", "reload", "seeded"}
  <2>0. req \in [Conns -> RequestState]
    BY DEF Inv
  <2>1. CASE req[c].job.kind = "replace"
    BY <1>1, <2>0, <2>1 DEF Commit, RequestState
  <2>2. CASE req[c].job.kind = "put"
    BY <1>1, <2>0, <2>2 DEF Commit, Go, RequestState
  <2>3. CASE req[c].job.kind = "load"
    BY <1>1, <2>0, <2>3 DEF Commit, RequestState
  <2> QED
    BY <1>2, <2>1, <2>2, <2>3
<1> QED
  BY <1>1, <1>3, DistanceOf DEF Nearer

LEMMA LoadIsNearer ==
    ASSUME Inv, NEW c \in Conns, LoadLevel(c) \/ LoadTool(c)
    PROVE  Nearer(req[c], tx[c], req'[c], tx'[c])
<1> DEFINE q == req[c]
           f == q.job.file
<1>1. q.phase \in {"levels", "tools"} /\ Running(c) /\ q \in RequestState
  BY DEF LoadLevel, LoadTool, Running, Inv
<1>2. q.pos \in Nat /\ f \in Files
  <2>1. LocalsFit(q, tx[c]) /\ KindFits(q)
    BY DEF Inv, Fits
  <2>2. q.job \in Jobs /\ q.job.kind = "load"
    BY <1>1, <2>1 DEF LocalsFit, KindFits, Resting
  <2> QED
    BY <1>1, <2>2, JobFields DEF RequestState
<1>3. Len(f.levels) \in Nat /\ Len(f.tools) \in Nat
  BY <1>2, FileFields, Bounds
<1>4. CASE LoadLevel(c)
  <2>1. q.phase = "levels" /\ q.pos \in 0 .. Len(f.levels)
    BY <1>4 DEF LoadLevel, Inv, Fits, LevelsFit
  <2>2. CASE q.pos = Len(f.levels)
    <3>1. req'[c].phase = "tools"
      <4>1. req' = [req EXCEPT ![c].phase = "tools", ![c].pos = 0]
        BY <1>4, <2>2 DEF LoadLevel
      <4>2. req \in [Conns -> RequestState]
        BY DEF Inv
      <4> QED
        BY <4>1, <4>2 DEF RequestState
    <3> QED
      BY <2>1, <3>1, DistanceOf DEF Nearer
  <2>3. CASE q.pos # Len(f.levels) /\ GoodLevel(q, tx[c].image)
    <3>1. req' = [req EXCEPT ![c].pos = @ + 1] /\ q.pos < Len(f.levels)
      BY <1>3, <1>4, <2>1, <2>3 DEF LoadLevel
    <3> QED
      BY <1>3, <2>1, <3>1, AdvanceStep
  <2>4. CASE q.pos # Len(f.levels) /\ ~GoodLevel(q, tx[c].image)
    BY <1>1, <1>4, <2>4, AnswerStep DEF LoadLevel, Answers
  <2> QED
    BY <2>2, <2>3, <2>4
<1>5. CASE LoadTool(c)
  <2>1. q.phase = "tools" /\ q.pos \in 0 .. Len(f.tools)
    <3>1. q.phase = "tools" /\ KindFits(q) /\ ToolsFit(q, tx[c], db)
      BY <1>5 DEF LoadTool, Inv, Fits
    <3> QED
      BY <3>1 DEF KindFits, ToolsFit
  <2>2. CASE q.pos = Len(f.tools)
    <3>1. Go(c, "commit") /\ "commit" \in Phases
      BY <1>5, <2>2 DEF LoadTool, Phases
    <3> QED
      BY <2>1, <3>1, GoStep
  <2>3. CASE q.pos # Len(f.tools) /\ KnownKey(f, f.tools[q.pos + 1])
    <3>1. req' = [req EXCEPT ![c].pos = @ + 1]
      BY <1>5, <2>3 DEF LoadTool
    <3>2. q.pos < Len(f.tools)
      BY <1>3, <2>1, <2>3
    <3> QED
      BY <1>3, <2>1, <3>1, <3>2, AdvanceStep
  <2>4. CASE q.pos # Len(f.tools) /\ ~KnownKey(f, f.tools[q.pos + 1])
    BY <1>1, <1>5, <2>4, AnswerStep DEF LoadTool, Answers
  <2> QED
    BY <2>2, <2>3, <2>4
<1> QED
  BY <1>4, <1>5

LEMMA ReplaceIsNearer ==
    ASSUME Inv, NEW c \in Conns, ReplaceHints(c)
    PROVE  Nearer(req[c], tx[c], req'[c], tx'[c])
<1> DEFINE q == req[c]
<1>1. q.phase = "fill" /\ q.job.kind = "replace"
  BY DEF ReplaceHints, At
<1>2. q.pos \in 0 .. Len(q.job.list) /\ Len(q.job.list) \in Nat
  <2>1. LocalsFit(q, tx[c]) /\ HintsFit(q, tx[c], db)
    BY DEF Inv, Fits
  <2>2. q.job \in Jobs
    BY <1>1, <2>1 DEF LocalsFit, Resting
  <2>3. q.job.list \in Seq(Texts)
    BY <1>1, <2>2, JobFields
  <2> QED
    BY <1>1, <2>1, <2>3, LenProperties DEF HintsFit
<1>3. CASE q.pos < Len(q.job.list)
  <2>1. req' = [req EXCEPT ![c].pos = @ + 1]
    BY <1>3 DEF ReplaceHints
  <2> QED
    BY <1>1, <1>2, <1>3, <2>1, AdvanceStep
<1>4. CASE ~(q.pos < Len(q.job.list))
  <2>1. Go(c, "commit") /\ "commit" \in Phases
    BY <1>4 DEF ReplaceHints, Phases
  <2> QED
    BY <1>1, <2>1, GoStep
<1> QED
  BY <1>3, <1>4

\* Whatever c's goroutine does, unless it only delivers the answer.
LEMMA ContinueIsNearer ==
    ASSUME Inv, NEW c \in Conns, Running(c), Continue(c)
    PROVE  Nearer(req[c], tx[c], req'[c], tx'[c])
<1> USE DEF Answers, Phases
<1>1. CASE SetUserRole(c)
  <2>1. req[c].phase = "role"
    BY <1>1 DEF SetUserRole, At
  <2>2. CASE req[c].job.user \in UsersOf(db)
    <3>1. PICK p \in {"check", "reload"} : Go(c, p)
      BY <1>1, <2>2 DEF SetUserRole
    <3> QED
      BY <2>1, <3>1, GoStep
  <2>3. CASE req[c].job.user \notin UsersOf(db)
    BY <1>1, <2>3, AnswerStep DEF SetUserRole
  <2> QED
    BY <2>2, <2>3
<1>2. CASE Check(c)
  <2>1. CASE Answer(c, "not found")
    BY <2>1, AnswerStep
  <2>2. CASE ~Answer(c, "not found")
    <3>1. PICK p \in {"open", "clear"} : Go(c, p)
      BY <1>2, <2>2 DEF Check
    <3> QED
      BY <1>2, <3>1, GoStep DEF Check
  <2> QED
    BY <2>1, <2>2
<1>3. CASE Clear(c)
  <2>1. PICK p \in {"commit", "fill"} : Go(c, p)
    BY <1>3 DEF Clear
  <2> QED
    BY <1>3, <2>1, GoStep DEF Clear
<1>4. CASE Refuse(c)
  BY <1>4, AnswerStep DEF Refuse
<1>5. CASE SetUserProgressToLevel(c)
  BY <1>5, GoStep DEF SetUserProgressToLevel, At
<1>6. CASE WipeTables(c)
  BY <1>6, GoStep DEF WipeTables, At
<1>7. CASE Report(c)
  BY <1>7, AnswerStep DEF Report
<1>8. CASE AdminUserByID(c)
  <2>1. PICK s \in {"ok", "not found"} : Answer(c, s)
    BY <1>8 DEF AdminUserByID
  <2> QED
    BY <2>1, AnswerStep
<1>9. CASE HintsForLevel(c)
  <2>1. req[c].phase = "open" /\ req'[c].phase = "rows"
    BY <1>9 DEF HintsForLevel, Inv, RequestState
  <2> QED
    BY <2>1, DistanceOf DEF Nearer
<1>10. CASE TimeOut(c)
  BY <1>10, AnswerStep DEF TimeOut
<1>11. ~Deliver(c)
  BY DEF Deliver, Running
<1> QED
  BY <1>1, <1>2, <1>3, <1>4, <1>5, <1>6, <1>7, <1>8, <1>9, <1>10, <1>11,
     ReplaceIsNearer, LoadIsNearer, CommitIsNearer, RowIsNearer DEF Continue

\* A step of somebody else leaves c's locals alone, unless c's process dies.
LEMMA OthersStep ==
    ASSUME Inv, [Next]_vars, NEW c \in Conns, ~Continue(c), Running(c), req'[c] # req[c]
    PROVE  req'[c].phase \in Resting
<1>1. ASSUME NEW k \in Conns, Begin(k) PROVE req'[c] = req[c]
  <2>1. PICK j \in Offered : Accept(k, j)
    BY <1>1 DEF Begin, AdminGetHints, AdminReplaceHints, AdminUpdateUser, Seed
  <2>2. req[k].phase = "idle"
    BY <2>1 DEF Accept
  <2> QED
    BY <2>1, <2>2 DEF Accept, Running, Inv
<1>2. ASSUME NEW k \in Conns, Continue(k) PROVE req'[c] = req[c]
  <2>1. k # c /\ req \in [Conns -> RequestState]
    BY <1>2 DEF Inv
  <2>2. CASE SetUserRole(k) \/ Check(k) \/ Clear(k)
    BY <2>1, <2>2 DEF SetUserRole, Check, Clear, Go, Answer
  <2>3. CASE Refuse(k) \/ Report(k) \/ AdminUserByID(k) \/ TimeOut(k) \/ Deliver(k)
    BY <2>1, <2>3 DEF Refuse, Report, AdminUserByID, TimeOut, Deliver, Answer
  <2>4. CASE ReplaceHints(k) \/ SetUserProgressToLevel(k) \/ WipeTables(k)
    BY <2>1, <2>4 DEF ReplaceHints, SetUserProgressToLevel, WipeTables, Go
  <2>5. CASE LoadLevel(k)
    BY <2>1, <2>5 DEF LoadLevel, Answer
  <2>6. CASE LoadTool(k)
    BY <2>1, <2>6 DEF LoadTool, Go, Answer
  <2>7. CASE Commit(k)
    <3>1. KindFits(req[k]) /\ req[k].phase = "commit"
      BY <2>7 DEF Inv, Fits, Commit
    <3>2. req[k].job.kind \in {"replace", "put", "load"}
      BY <3>1 DEF KindFits
    <3> QED
      BY <2>1, <2>7, <3>2 DEF Commit, Go
  <2>8. CASE HintsForLevel(k) \/ NextRow(k)
    BY <2>1, <2>8 DEF HintsForLevel, NextRow
  <2> QED
    BY <1>2, <2>2, <2>3, <2>4, <2>5, <2>6, <2>7, <2>8 DEF Continue
<1>3. ASSUME NEW k \in Conns, Abort(k) PROVE req'[c] = req[c] \/ req'[c].phase = "answered"
  <2>1. req' = [req EXCEPT ![k] = Ended("failed", Unread)] /\ req \in [Conns -> RequestState]
    BY <1>3 DEF Abort, Answer, Inv
  <2>2. Ended("failed", Unread).phase = "answered"
    BY EndedFields DEF Answers, HintLists
  <2> QED
    BY <2>1, <2>2
<1>4. CASE Crash
  <2>1. req'[c] = req[c] \/ req'[c] = Idle
    BY <1>4 DEF Crash, Die
  <2> QED
    BY <2>1, IdleFields DEF Resting
<1>5. CASE OtherStatement \/ UNCHANGED vars
  BY <1>5 DEF OtherStatement, vars
<1> QED
  BY <1>1, <1>2, <1>3, <1>4, <1>5 DEF Next, Resting

\* Every statement brings its request nearer to the answer, whatever others
\* commit between two of them: no statement is run again, and the items a loop
\* has left become fewer.
THEOREM RequestsAdvance == Safe => NoRequestGoesBack
<1>1. ASSUME Inv, [Next]_vars, NEW c \in Conns, Running(c), req'[c] # req[c]
      PROVE  Nearer(req[c], tx[c], req'[c], tx'[c])
  <2>1. CASE Continue(c)
    BY <1>1, <2>1, ContinueIsNearer
  <2>2. CASE ~Continue(c)
    BY <1>1, <2>2, OthersStep, AnswerIsNearer DEF Inv, Running, Resting
  <2> QED
    BY <2>1, <2>2
<1>2. Inv /\ [Next]_vars =>
        [\A c \in Conns : Running(c) /\ req'[c] # req[c] =>
           \/ Distance(req'[c]) < Distance(req[c])
           \/ /\ Distance(req'[c]) = Distance(req[c])
              /\ ItemsLeft(req[c], tx[c])' \in 0 .. ItemsLeft(req[c], tx[c]) - 1]_vars
  BY <1>1 DEF Nearer
<1> QED
  BY <1>2, Invariance, PTL DEF Safe, NoRequestGoesBack
=============================================================================
