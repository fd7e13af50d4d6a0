------------------------------ MODULE SchemaProofs ------------------------------
(* The schema's constraints hold of every committed database, for any number   *)
(* of connections, any requests and any seed files.                            *)
EXTENDS TransactionsProofs

-----------------------------------------------------------------------------
(* What each change makes of a database that keeps the constraints. *)

\* The columns that decide which rows there are, and what a tie may be.
LEMMA SameRows ==
    ASSUME NEW d, NEW e, e.order = d.order, e.role = d.role, e.ties = d.ties
    PROVE  /\ LevelsOf(e) = LevelsOf(d) /\ UsersOf(e) = UsersOf(d)
           /\ ToolsOf(e) = ToolsOf(d) /\ MayTie(e) = MayTie(d)
BY DEF LevelsOf, UsersOf, ToolsOf, MayTie

LEMMA FreshIntegrity == Integrity(Fresh)
<1>1. /\ \A l \in LevelIds : Fresh.order[l] = 0 /\ Fresh.hints[l] = <<>>
      /\ Fresh.ties = <<>> /\ \A u \in Users : Fresh.solved[u] = {}
  BY DEF Fresh
<1>2. LevelsOf(Fresh) = {} /\ ToolsOf(Fresh) = {}
  BY <1>1 DEF LevelsOf, ToolsOf
<1> QED
  BY <1>1, <1>2 DEF Integrity

\* The levels stay, and their hints change.
LEMMA HintsKeep ==
    ASSUME NEW d \in Databases, Integrity(d), NEW l \in LevelsOf(d), NEW list,
           NEW e, OnlyHints(e, d, [d.hints EXCEPT ![l] = list])
    PROVE  Integrity(e)
<1>1. /\ LevelsOf(e) = LevelsOf(d) /\ UsersOf(e) = UsersOf(d)
      /\ ToolsOf(e) = ToolsOf(d) /\ MayTie(e) = MayTie(d)
  BY SameRows DEF OnlyHints
<1>2. ASSUME NEW k \in LevelIds, k \notin LevelsOf(d) PROVE e.hints[k] = <<>>
  BY <1>2 DEF OnlyHints, Integrity, Databases
<1> QED
  BY <1>1, <1>2 DEF OnlyHints, Integrity

\* An account there is solves levels there are.
LEMMA ProgressKeeps ==
    ASSUME NEW d \in Databases, Integrity(d), NEW u \in UsersOf(d),
           NEW S \in SUBSET LevelsOf(d),
           NEW e, OnlyProgress(e, d, [d.solved EXCEPT ![u] = S])
    PROVE  Integrity(e)
<1>1. /\ LevelsOf(e) = LevelsOf(d) /\ UsersOf(e) = UsersOf(d)
      /\ ToolsOf(e) = ToolsOf(d) /\ MayTie(e) = MayTie(d)
  BY SameRows DEF OnlyProgress
<1>2. /\ \A v \in Users : e.solved[v] = IF v = u THEN S ELSE d.solved[v]
      /\ e.hints = d.hints /\ e.ties = d.ties /\ e.order = d.order /\ e.seq = d.seq
  BY DEF OnlyProgress, Databases
<1>3. \A v \in Users : e.solved[v] \subseteq LevelsOf(d)
  BY <1>2 DEF Integrity
<1>4. \A v \in Users : v \notin UsersOf(d) => e.solved[v] = {}
  BY <1>2 DEF Integrity
<1> QED
  BY <1>1, <1>2, <1>3, <1>4 DEF Integrity

\* An account there is gets a role.
LEMMA RoleKeeps ==
    ASSUME NEW d \in Databases, Integrity(d), NEW u \in UsersOf(d), NEW r \in Roles
    PROVE  Integrity(UpdateRole(d, u, r))
<1> DEFINE e == UpdateRole(d, u, r)
<1>1. u \in Users /\ r \in Roles
  BY DEF UsersOf
<1>2. /\ e.order = d.order /\ e.seq = d.seq /\ e.ties = d.ties
      /\ e.hints = d.hints /\ e.solved = d.solved
      /\ \A v \in Users : e.role[v] = IF v = u THEN r ELSE d.role[v]
  BY <1>1 DEF UpdateRole, Databases
<1> HIDE DEF e
<1>3. /\ LevelsOf(e) = LevelsOf(d) /\ UsersOf(e) = UsersOf(d)
      /\ ToolsOf(e) = ToolsOf(d) /\ MayTie(e) = MayTie(d)
  BY <1>1, <1>2 DEF LevelsOf, UsersOf, ToolsOf, MayTie
<1>4. Integrity(e)
  BY <1>2, <1>3 DEF Integrity
<1> QED
  BY <1>4 DEF e

LEMMA DeleteUserKeeps ==
    ASSUME NEW d \in Databases, Integrity(d), NEW u \in UsersOf(d)
    PROVE  Integrity(DeleteUser(d, u))
<1> DEFINE e == DeleteUser(d, u)
<1>1. u \in Users /\ LevelsOf(d) \subseteq LevelIds
  BY DEF UsersOf, LevelsOf
<1>2. /\ e.order = d.order /\ e.seq = d.seq /\ e.ties = d.ties /\ e.hints = d.hints
      /\ \A v \in Users : e.role[v] = IF v = u THEN Gone ELSE d.role[v]
      /\ \A v \in Users : e.solved[v] = IF v = u THEN {} ELSE d.solved[v]
  BY <1>1 DEF DeleteUser, Databases
<1> HIDE DEF e
<1>3. /\ LevelsOf(e) = LevelsOf(d) /\ ToolsOf(e) = ToolsOf(d) /\ MayTie(e) = MayTie(d)
      /\ \A v \in Users : v \notin UsersOf(e) => v = u \/ v \notin UsersOf(d)
  BY <1>1, <1>2 DEF LevelsOf, UsersOf, ToolsOf, MayTie
<1>4. Integrity(e)
  BY <1>2, <1>3 DEF Integrity
<1> QED
  BY <1>4 DEF e

LEMMA SolveKeeps ==
    ASSUME NEW d \in Databases, Integrity(d), NEW u \in UsersOf(d), NEW l \in LevelsOf(d)
    PROVE  Integrity(RecordSolved(d, u, l))
<1> DEFINE S == d.solved[u] \cup {l}
<1>1. u \in Users /\ l \in LevelIds
  BY DEF UsersOf, LevelsOf
<1>2. S \in SUBSET LevelsOf(d)
  BY <1>1 DEF Integrity
<1>3. RecordSolved(d, u, l) \in Databases
  BY <1>1, RecordSolvedType
<1>4. OnlyProgress(RecordSolved(d, u, l), d, [d.solved EXCEPT ![u] = S])
  BY <1>3 DEF RecordSolved, OnlyProgress, Databases
<1> QED
  BY <1>2, <1>4, ProgressKeeps

\* A new level has an id that was never used and a place of its own.
LEMMA InsertKeeps ==
    ASSUME NEW d \in Databases, Integrity(d), d.seq < MaxLevelId, NEW o \in FreeOrders(d)
    PROVE  Integrity(InsertLevel(d, o))
<1> DEFINE e == InsertLevel(d, o)
           n == d.seq + 1
<1>1. d.seq \in Nat /\ n \in LevelIds /\ o \in Orders /\ o # 0 /\ n > d.seq
  BY Bounds DEF Databases, LevelIds, FreeOrders, Orders
<1>2. /\ e.seq = n /\ e.ties = d.ties /\ e.hints = d.hints
      /\ e.role = d.role /\ e.solved = d.solved
      /\ \A l \in LevelIds : e.order[l] = IF l = n THEN o ELSE d.order[l]
  BY <1>1 DEF InsertLevel, Databases
<1> HIDE DEF e
<1>3. n \notin LevelsOf(d) /\ \A l \in LevelsOf(d) : l <= n
  <2>1. \A l \in LevelsOf(d) : l <= d.seq /\ l \in Nat
    BY DEF Integrity, LevelsOf, LevelIds
  <2> QED
    BY <1>1, <2>1
<1>4. /\ LevelsOf(e) = LevelsOf(d) \cup {n} /\ UsersOf(e) = UsersOf(d)
      /\ ToolsOf(e) = ToolsOf(d) /\ MayTie(d) \subseteq MayTie(e)
  BY <1>1, <1>2 DEF LevelsOf, UsersOf, ToolsOf, MayTie
<1>5. \A k, l \in LevelsOf(e) : e.order[k] = e.order[l] => k = l
  <2>1. \A k \in LevelsOf(d) : e.order[k] = d.order[k] /\ d.order[k] # o
    BY <1>2, <1>3 DEF LevelsOf, FreeOrders
  <2>2. e.order[n] = o
    BY <1>1, <1>2
  <2> QED
    BY <1>4, <2>1, <2>2 DEF Integrity
<1>6. Integrity(e)
  BY <1>1, <1>2, <1>3, <1>4, <1>5 DEF Integrity
<1> QED
  BY <1>6 DEF e

LEMMA UpdateKeeps ==
    ASSUME NEW d \in Databases, Integrity(d), NEW n \in LevelsOf(d), NEW o \in FreeOrders(d)
    PROVE  Integrity(UpdateLevel(d, n, o))
<1> DEFINE e == UpdateLevel(d, n, o)
<1>1. n \in LevelIds /\ o # 0
  BY Bounds DEF LevelsOf, FreeOrders, Orders
<1>2. /\ e.seq = d.seq /\ e.ties = d.ties /\ e.hints = d.hints
      /\ e.role = d.role /\ e.solved = d.solved
      /\ \A l \in LevelIds : e.order[l] = IF l = n THEN o ELSE d.order[l]
  BY <1>1 DEF UpdateLevel, Databases
<1> HIDE DEF e
<1>3. /\ LevelsOf(e) = LevelsOf(d) /\ UsersOf(e) = UsersOf(d)
      /\ ToolsOf(e) = ToolsOf(d) /\ MayTie(e) = MayTie(d)
  BY <1>1, <1>2 DEF LevelsOf, UsersOf, ToolsOf, MayTie
<1>4. \A k, l \in LevelsOf(e) : e.order[k] = e.order[l] => k = l
  BY <1>2, <1>3 DEF Integrity, LevelsOf, FreeOrders
<1>5. Integrity(e)
  BY <1>2, <1>3, <1>4 DEF Integrity
<1> QED
  BY <1>5 DEF e

\* The foreign keys of hints, tools and user_progress clear up after a level.
LEMMA DeleteKeeps ==
    ASSUME NEW d \in Databases, Integrity(d), NEW n \in LevelsOf(d)
    PROVE  Integrity(DeleteLevel(d, n))
<1> DEFINE e == DeleteLevel(d, n)
<1>1. n \in LevelIds
  BY DEF LevelsOf
<1>2. /\ e.seq = d.seq /\ e.role = d.role /\ DOMAIN e.ties = DOMAIN d.ties
      /\ \A l \in LevelIds : e.order[l] = IF l = n THEN 0 ELSE d.order[l]
      /\ \A l \in LevelIds : e.hints[l] = IF l = n THEN <<>> ELSE d.hints[l]
      /\ \A t \in DOMAIN d.ties : e.ties[t] = IF d.ties[t] = n THEN Untied ELSE d.ties[t]
      /\ \A u \in Users : e.solved[u] = d.solved[u] \ {n}
  BY <1>1 DEF DeleteLevel, Databases
<1> HIDE DEF e
<1>3. LevelsOf(e) = LevelsOf(d) \ {n} /\ UsersOf(e) = UsersOf(d)
  BY <1>1, <1>2 DEF LevelsOf, UsersOf
<1>4. \A l \in LevelIds : l \notin LevelsOf(e) => e.hints[l] = <<>>
  BY <1>2, <1>3 DEF Integrity
<1>5. ASSUME NEW t \in ToolsOf(e) PROVE e.ties[t] \in MayTie(e)
  <2>1. t \in ToolsOf(d)
    BY <1>1, <1>2 DEF ToolsOf, LevelIds, NoTool
  <2> QED
    BY <1>2, <1>3, <2>1 DEF Integrity, MayTie, ToolsOf
<1>6. \A u \in Users : e.solved[u] \subseteq LevelsOf(e)
  BY <1>2, <1>3 DEF Integrity
<1>7. \A u \in Users : u \notin UsersOf(e) => e.solved[u] = {}
  BY <1>2, <1>3 DEF Integrity
<1>8. \A k, l \in LevelsOf(e) : e.order[k] = e.order[l] => k = l
  BY <1>2, <1>3 DEF Integrity, LevelsOf
<1>9. \A l \in LevelsOf(e) : l <= e.seq
  BY <1>2, <1>3 DEF Integrity
<1> QED
  BY <1>4, <1>5, <1>6, <1>7, <1>8, <1>9 DEF Integrity, e

\* A write to the tools: e differs from d in one tie, which is a level there is,
\* NULL, or the tie of a row that goes.
LEMMA TiesKeep ==
    ASSUME NEW d \in Databases, Integrity(d), NEW e, NEW t,
           e.order = d.order, e.seq = d.seq, e.hints = d.hints, e.role = d.role,
           e.solved = d.solved,
           \A s \in ToolsOf(e) : IF s = t THEN e.ties[s] \in MayTie(d)
                                 ELSE s \in ToolsOf(d) /\ e.ties[s] = d.ties[s]
    PROVE  Integrity(e)
<1>1. LevelsOf(e) = LevelsOf(d) /\ UsersOf(e) = UsersOf(d) /\ MayTie(e) = MayTie(d)
  BY DEF LevelsOf, UsersOf, MayTie
<1>2. \A s \in ToolsOf(e) : e.ties[s] \in MayTie(e)
  BY <1>1 DEF Integrity
<1> QED
  BY <1>1, <1>2 DEF Integrity

LEMMA InsertToolKeeps ==
    ASSUME NEW d \in Databases, Integrity(d), NEW l \in MayTie(d)
    PROVE  Integrity(InsertTool(d, l))
<1> DEFINE e == InsertTool(d, l)
           t == Len(d.ties) + 1
<1>1. /\ e.order = d.order /\ e.seq = d.seq /\ e.hints = d.hints /\ e.role = d.role
      /\ e.solved = d.solved /\ e.ties = Append(d.ties, l)
  BY DEF InsertTool, Databases
<1>2. d.ties \in Seq(NoTool .. MaxLevelId)
  BY DEF Databases
<1> HIDE DEF e
<1>3. /\ DOMAIN e.ties = 1 .. t /\ DOMAIN d.ties = 1 .. Len(d.ties) /\ e.ties[t] = l
      /\ \A s \in 1 .. t : s # t => s \in 1 .. Len(d.ties) /\ e.ties[s] = d.ties[s]
  <2>1. l \in NoTool .. MaxLevelId
    BY MayTieType
  <2> QED
    BY <1>1, <1>2, <2>1
<1>4. \A s \in ToolsOf(e) : IF s = t THEN e.ties[s] \in MayTie(d)
                            ELSE s \in ToolsOf(d) /\ e.ties[s] = d.ties[s]
  BY <1>3 DEF ToolsOf
<1>5. Integrity(e)
  <2> HIDE DEF t
  <2> QED
    BY <1>1, <1>4, TiesKeep
<1> QED
  BY <1>5 DEF e

LEMMA UpdateToolKeeps ==
    ASSUME NEW d \in Databases, Integrity(d), NEW t \in ToolsOf(d), NEW l \in MayTie(d)
    PROVE  Integrity(UpdateTool(d, t, l))
<1> DEFINE e == UpdateTool(d, t, l)
<1>1. /\ e.order = d.order /\ e.seq = d.seq /\ e.hints = d.hints /\ e.role = d.role
      /\ e.solved = d.solved /\ e.ties = [d.ties EXCEPT ![t] = l]
  BY DEF UpdateTool, Databases
<1> HIDE DEF e
<1>2. \A s \in ToolsOf(e) : IF s = t THEN e.ties[s] \in MayTie(d)
                            ELSE s \in ToolsOf(d) /\ e.ties[s] = d.ties[s]
  <2>1. DOMAIN e.ties = DOMAIN d.ties /\ t \in DOMAIN d.ties
    BY <1>1 DEF ToolsOf
  <2>2. \A s \in DOMAIN d.ties : e.ties[s] = IF s = t THEN l ELSE d.ties[s]
    BY <1>1
  <2> QED
    BY <2>1, <2>2 DEF ToolsOf
<1>3. /\ e.order = d.order /\ e.seq = d.seq /\ e.hints = d.hints /\ e.role = d.role
      /\ e.solved = d.solved
  BY <1>1
<1>4. Integrity(e)
  BY <1>2, <1>3, TiesKeep
<1> QED
  BY <1>4 DEF e

LEMMA DeleteToolKeeps ==
    ASSUME NEW d \in Databases, Integrity(d), NEW t \in ToolsOf(d)
    PROVE  Integrity(DeleteTool(d, t))
<1> DEFINE e == DeleteTool(d, t)
<1>1. /\ e.order = d.order /\ e.seq = d.seq /\ e.hints = d.hints /\ e.role = d.role
      /\ e.solved = d.solved
  BY DEF DeleteTool, Databases
<1>2. e.ties = [d.ties EXCEPT ![t] = NoTool]
  BY DEF DeleteTool, Databases
<1> HIDE DEF e
<1>3. \A s \in ToolsOf(e) : s # t /\ s \in ToolsOf(d) /\ e.ties[s] = d.ties[s]
  BY <1>2 DEF ToolsOf, Databases
<1>4. Integrity(e)
  <2>1. \A s \in ToolsOf(e) : IF s = t THEN e.ties[s] \in MayTie(d)
                              ELSE s \in ToolsOf(d) /\ e.ties[s] = d.ties[s]
    BY <1>3, Zenon
  <2> QED
    BY <1>1, <2>1, TiesKeep
<1> QED
  BY <1>4 DEF e

\* An account that registers has solved nothing.
LEMMA InsertUserKeeps ==
    ASSUME NEW d \in Databases, Integrity(d), NEW u \in Newcomers(d), NEW r \in Roles
    PROVE  Integrity(InsertUser(d, u, r))
<1> DEFINE e == InsertUser(d, u, r)
<1>1. u \in Users
  BY DEF Newcomers
<1>2. /\ e.order = d.order /\ e.seq = d.seq /\ e.ties = d.ties
      /\ e.hints = d.hints /\ e.solved = d.solved
      /\ \A v \in Users : e.role[v] = IF v = u THEN r ELSE d.role[v]
  BY <1>1 DEF InsertUser, Databases
<1> HIDE DEF e
<1>3. /\ LevelsOf(e) = LevelsOf(d) /\ UsersOf(d) \subseteq UsersOf(e)
      /\ ToolsOf(e) = ToolsOf(d) /\ MayTie(e) = MayTie(d)
  BY <1>1, <1>2 DEF LevelsOf, UsersOf, ToolsOf, MayTie
<1>4. Integrity(e)
  BY <1>2, <1>3 DEF Integrity
<1> QED
  BY <1>4 DEF e

\* A file whose levels and ties are good, loaded whole.
LEMMA LoadKeeps ==
    ASSUME NEW d \in Databases, NEW f \in Files, NEW e,
           Good(f, Len(f.levels)), \A i \in 1 .. Len(f.tools) : KnownKey(f, f.tools[i]),
           LevelsIn(e, d, f, Len(f.levels)), e.ties = Ties(f)
    PROVE  Integrity(e)
<1> DEFINE n == Len(f.levels)
<1>1. /\ n \in Nat /\ n <= MaxLevelId /\ Len(f.tools) \in Nat
      /\ \A i \in 1 .. n : f.levels[i].order # 0
  BY FileFields, Bounds DEF Orders
<1>2. /\ e.seq = n
      /\ \A l \in LevelIds : e.order[l] = IF l <= n THEN f.levels[l].order ELSE 0
      /\ \A l \in LevelIds : e.hints[l] = IF l <= n THEN f.levels[l].hints ELSE <<>>
      /\ \A u \in Users : e.solved[u] = {}
  BY DEF LevelsIn
<1>3. LevelsOf(e) = 1 .. n
  BY <1>1, <1>2, Bounds DEF LevelsOf, LevelIds
<1>4. \A l \in LevelIds : l \notin LevelsOf(e) => e.hints[l] = <<>>
  BY <1>1, <1>2, <1>3 DEF LevelIds
<1>5. ASSUME NEW t \in 1 .. Len(f.tools) PROVE e.ties[t] \in LevelsOf(e) \cup {Untied}
  <2> DEFINE k == f.tools[t]
  <2>1. e.ties[t] = IdOf(f, k) /\ KnownKey(f, k)
    BY DEF Ties
  <2>2. CASE k = NoKey
    BY <2>1, <2>2 DEF IdOf
  <2>3. CASE k # NoKey
    <3>1. \E i \in 1 .. n : f.levels[i].key = k
      BY <2>1, <2>3 DEF KnownKey
    <3>2. (CHOOSE l \in 1 .. n : f.levels[l].key = k) \in 1 .. n
      BY <3>1
    <3> QED
      BY <1>3, <2>1, <2>3, <3>2 DEF IdOf
  <2> QED
    BY <2>2, <2>3
<1>6. \A t \in ToolsOf(e) : e.ties[t] \in MayTie(e)
  BY <1>5 DEF Ties, ToolsOf, MayTie
<1>7. \A k, l \in LevelsOf(e) : e.order[k] = e.order[l] => k = l
  <2> SUFFICES ASSUME NEW k \in 1 .. n, NEW l \in 1 .. n, e.order[k] = e.order[l]
               PROVE  k = l
    BY <1>3
  <2>1. f.levels[k].order = f.levels[l].order
    BY <1>1, <1>2, Bounds DEF LevelIds
  <2> QED
    BY <2>1 DEF Good
<1>8. \A l \in LevelsOf(e) : l <= e.seq
  BY <1>2, <1>3
<1> QED
  BY <1>2, <1>4, <1>6, <1>7, <1>8 DEF Integrity

-----------------------------------------------------------------------------
(* Every step. *)

LEMMA EditKeeps ==
    ASSUME NEW d \in Databases, Integrity(d), NEW e \in Edits(d)
    PROVE  Integrity(e)
<1>1. e \in {d} \cup Created(d) \cup Updated(d) \cup WithoutLevel(d)
              \cup ToolCreated(d) \cup ToolUpdated(d) \cup WithoutTool(d)
              \cup UserCreated(d) \cup WithoutUser(d) \cup Solved(d)
  BY WhenSubset DEF Edits
<1>2. \/ e = d
      \/ d.seq < MaxLevelId /\ \E o \in FreeOrders(d) : e = InsertLevel(d, o)
      \/ \E l \in LevelsOf(d), o \in FreeOrders(d) : e = UpdateLevel(d, l, o)
      \/ \E l \in LevelsOf(d) : e = DeleteLevel(d, l)
      \/ \E l \in MayTie(d) : e = InsertTool(d, l)
      \/ \E t \in ToolsOf(d), l \in MayTie(d) : e = UpdateTool(d, t, l)
      \/ \E t \in ToolsOf(d) : e = DeleteTool(d, t)
      \/ \E u \in Newcomers(d), r \in Roles : e = InsertUser(d, u, r)
      \/ \E u \in UsersOf(d) : e = DeleteUser(d, u)
      \/ \E u \in UsersOf(d), l \in LevelsOf(d) : e = RecordSolved(d, u, l)
  BY <1>1 DEF Created, Updated, WithoutLevel, ToolCreated, ToolUpdated, WithoutTool,
              UserCreated, FirstRoles, WithoutUser, Solved
<1> QED
  BY <1>2, InsertKeeps, UpdateKeeps, DeleteKeeps, InsertToolKeeps, UpdateToolKeeps,
     DeleteToolKeeps, InsertUserKeeps, DeleteUserKeeps, SolveKeeps

LEMMA SetRoleKeeps ==
    ASSUME Inv, Integrity(db), NEW c \in Conns, SetUserRole(c)
    PROVE  Integrity(db)'
<1> DEFINE j == req[c].job
<1>1. At(c, "put", "role") /\ req[c].phase = "role" /\ j.kind = "put" /\ Running(c)
  BY DEF SetUserRole, At, Running
<1>2. j \in Jobs /\ j.role # Gone
  <2>1. LocalsFit(req[c], tx[c]) /\ KindFits(req[c])
    BY DEF Inv, Fits
  <2> QED
    BY <1>1, <2>1 DEF LocalsFit, KindFits, Resting
<1>3. j.role \in Roles
  BY <1>1, <1>2, JobFields
<1>4. CASE j.user \in UsersOf(db)
  <2>1. db' = UpdateRole(db, j.user, j.role)
    BY <1>4 DEF SetUserRole, Autocommit
  <2>2. Integrity(UpdateRole(db, j.user, j.role))
    BY <1>3, <1>4, RoleKeeps DEF Inv
  <2> QED
    BY <2>1, <2>2
<1>5. CASE j.user \notin UsersOf(db)
  <2>1. db' = db
    BY <1>5 DEF SetUserRole
  <2> QED
    BY <2>1
<1> QED
  BY <1>4, <1>5

LEMMA CommitKeeps ==
    ASSUME Inv, Integrity(db), NEW c \in Conns, Commit(c)
    PROVE  Integrity(db)'
<1> DEFINE q == req[c]
           j == q.job
           e == tx[c].image
<1>1. q.phase = "commit" /\ db' = e /\ db \in Databases
  BY DEF Commit, Publish, Inv
<1>2. /\ Fits(q, tx[c], db) /\ LocalsFit(q, tx[c]) /\ KindFits(q)
  BY DEF Inv, Fits
<1>3. j \in Jobs /\ e \in Databases /\ j.kind \in {"replace", "put", "load"}
  BY <1>1, <1>2 DEF LocalsFit, KindFits, WithoutTx, Resting
<1>4. CASE j.kind = "replace"
  <2>1. OnlyHints(e, db, [db.hints EXCEPT ![j.level] = Upto(j.list, q.pos)]) /\ Here(j, db)
    BY <1>1, <1>2, <1>3, <1>4 DEF Fits, HintsFit, OnlyHints
  <2>2. Integrity(e)
    BY <1>1, <1>4, <2>1, HintsKeep DEF Here
  <2> QED
    BY <1>1, <2>2
<1>5. CASE j.kind = "put"
  <2>1. OnlyProgress(e, db, [db.solved EXCEPT ![j.user] = First(db, j.goal - 1)]) /\ Here(j, db)
    BY <1>1, <1>2, <1>3, <1>5 DEF Fits, ProgressFits, OnlyProgress
  <2>2. First(db, j.goal - 1) \in SUBSET LevelsOf(db)
    BY DEF First
  <2>3. Integrity(e)
    BY <1>1, <1>5, <2>1, <2>2, ProgressKeeps DEF Here
  <2> QED
    BY <1>1, <2>3
<1>6. CASE j.kind = "load"
  <2>1. j.file \in Files
    BY <1>3, <1>6, JobFields
  <2>2. /\ Good(j.file, Len(j.file.levels))
        /\ \A i \in 1 .. Len(j.file.tools) : KnownKey(j.file, j.file.tools[i])
        /\ LevelsIn(e, db, j.file, Len(j.file.levels))
        /\ e.ties = Upto(Ties(j.file), Len(j.file.tools))
    BY <1>1, <1>2, <1>6 DEF Fits, ToolsFit
  <2>3. e.ties = Ties(j.file)
    BY <2>2 DEF Upto, Ties
  <2>4. Integrity(e)
    BY <1>1, <2>1, <2>2, <2>3, LoadKeeps
  <2> QED
    BY <1>1, <2>4
<1> QED
  BY <1>3, <1>4, <1>5, <1>6

LEMMA IntegrityStep ==
    ASSUME Inv, Integrity(db), [Next]_vars
    PROVE  Integrity(db)'
<1>1. ASSUME db' = db PROVE Integrity(db)'
  BY <1>1
<1>2. ASSUME NEW c \in Conns, Begin(c) \/ Abort(c) PROVE db' = db
  BY <1>2 DEF Begin, AdminGetHints, AdminReplaceHints, AdminUpdateUser, Seed, Accept, Abort
<1>3. ASSUME NEW c \in Conns, Continue(c) PROVE Integrity(db)'
  <2>1. ASSUME ~SetUserRole(c), ~Commit(c) PROVE db' = db
    BY <1>3, <2>1 DEF Continue, Check, Clear, Refuse, ReplaceHints, SetUserProgressToLevel,
       WipeTables, LoadLevel, LoadTool, Report, AdminUserByID, HintsForLevel, NextRow,
       TimeOut, Deliver
  <2> QED
    BY <1>1, <2>1, SetRoleKeeps, CommitKeeps
<1>4. CASE Crash
  BY <1>1, <1>4 DEF Crash, Die
<1>5. CASE OtherStatement
  <2>1. db' \in Edits(db) /\ db \in Databases
    BY <1>5 DEF OtherStatement, Inv
  <2> QED
    BY <2>1, EditKeeps
<1>6. CASE UNCHANGED vars
  BY <1>1, <1>6 DEF vars
<1> QED
  BY <1>1, <1>2, <1>3, <1>4, <1>5, <1>6 DEF Next

\* The constraints of the schema hold after every commit, of single statements
\* and of transactions whose statements were checked against a snapshot, the
\* seed's among them.
THEOREM SchemaIsKept == Safe => []SchemaHolds
<1>1. Init => SchemaHolds
  BY FreshIntegrity DEF Init, SchemaHolds
<1>2. Inv /\ SchemaHolds /\ [Next]_vars => SchemaHolds'
  BY IntegrityStep DEF SchemaHolds
<1> QED
  BY <1>1, <1>2, Invariance, PTL DEF Safe
=============================================================================
