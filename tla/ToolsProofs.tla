------------------------------ MODULE ToolsProofs ------------------------------
(* Proofs about the toolkit, on top of those about levels and progress.        *)
EXTENDS Tools, ProgressProofs, SequenceTheorems

\* A step of the toolkit leaves levels and progress alone, so that everything
\* proved of Progress holds of the two together.
THEOREM ProgressGoesOn == ToolsSpec => Spec
<1>1. ToolsInit => Init
  BY DEF ToolsInit
<1>2. [ToolsNext]_allVars => [Next]_vars
  BY DEF ToolsNext, LevelStep, ToolStep, CreateTool, UpdateTool, DeleteTool, allVars
<1> QED
  BY <1>1, <1>2, PTL DEF ToolsSpec, Spec

-----------------------------------------------------------------------------
(* Types and ties. *)

ToolsInv == ToolsTypeOK /\ NoDanglingTie

LEMMA LevelStepKeepsTools ==
    ToolsInv /\ LevelStep => ToolsInv'
<1> SUFFICES ASSUME ToolsInv, LevelStep
             PROVE  ToolsInv'
  OBVIOUS
<1>1. path' = path /\ toolSeq' = toolSeq /\ ToolRows' = ToolRows
  BY DEF LevelStep, ToolRows
<1>2. unlocksAt' \in [ToolIds -> 0 .. MaxLevelId]
  BY BoundsAssumption DEF LevelStep, SetNull, Untied, ToolsInv, ToolsTypeOK
<1>3. \A t \in ToolIds : unlocksAt'[t] \in Levels' \cup {Untied}
  BY DEF LevelStep, SetNull
<1> QED
  BY <1>1, <1>2, <1>3 DEF ToolsInv, ToolsTypeOK, NoDanglingTie

LEMMA ToolStepKeepsTools ==
    ToolsInv /\ ToolStep => ToolsInv'
<1> SUFFICES ASSUME ToolsInv, ToolStep
             PROVE  ToolsInv'
  OBVIOUS
<1> USE DEF ToolsInv, ToolsTypeOK, NoDanglingTie
<1>1. Levels' = Levels
  BY DEF ToolStep, CreateTool, UpdateTool, DeleteTool, vars, Levels
<1>2. ASSUME NEW p \in Paths, NEW l \in 0 .. MaxLevelId, CreateTool(p, l)
      PROVE  ToolsInv'
  <2>1. toolSeq + 1 \in ToolIds /\ toolSeq' = toolSeq + 1
    BY <1>2, ToolAssumption DEF CreateTool, ToolIds
  <2>2. \A t \in ToolRows' : t <= toolSeq'
    BY <1>2, <2>1 DEF CreateTool, ToolRows, ToolIds
  <2> QED
    BY <1>1, <1>2, <2>1, <2>2, ToolAssumption DEF CreateTool, ToolIds
<1>3. ASSUME NEW t \in ToolIds, NEW p \in Paths, NEW l \in 0 .. MaxLevelId,
             UpdateTool(t, p, l)
      PROVE  ToolsInv'
  BY <1>1, <1>3 DEF UpdateTool, ToolRows
<1>4. ASSUME NEW t \in ToolIds, DeleteTool(t)
      PROVE  ToolsInv'
  BY <1>1, <1>4, BoundsAssumption DEF DeleteTool, ToolRows, Untied
<1> QED
  BY <1>2, <1>3, <1>4 DEF ToolStep

LEMMA ToolsInvariant == ToolsSpec => []ToolsInv
<1>1. ToolsInit => ToolsInv
  BY BoundsAssumption, ToolAssumption
     DEF ToolsInit, ToolsInv, ToolsTypeOK, NoDanglingTie, ToolRows, Untied
<1>2. ToolsInv /\ [ToolsNext]_allVars => ToolsInv'
  <2>1. ToolsInv /\ UNCHANGED allVars => ToolsInv'
    BY DEF ToolsInv, ToolsTypeOK, NoDanglingTie, ToolRows, Levels, allVars, vars,
           toolTable
  <2> QED
    BY <2>1, LevelStepKeepsTools, ToolStepKeepsTools DEF ToolsNext
<1> QED
  BY <1>1, <1>2, PTL DEF ToolsSpec

\* The columns of table tools keep their types, and ids stay behind the
\* sequence, under all interleavings of tool writes with everything else.
THEOREM ToolsTypeCorrect == ToolsSpec => []ToolsTypeOK
BY ToolsInvariant, PTL DEF ToolsInv

\* No tool is ever tied to a level that does not exist: the check on insert and
\* update together with ON DELETE SET NULL.
THEOREM TiesPointAtLevels == ToolsSpec => []NoDanglingTie
BY ToolsInvariant, PTL DEF ToolsInv

-----------------------------------------------------------------------------
(* What opens a tool, and what closes a file. *)

LEMMA LevelStepOpens ==
    ASSUME LevelStep, NEW u \in Users, NEW t \in ToolIds, Opening(u, t)
    PROVE  \/ Edited(t)
           \/ unlocksAt[t] \in solved'[u] \ solved[u]
           \/ unlocksAt[t] \notin Levels'
<1>1. t \in ToolRows /\ ToolRows' = ToolRows
  BY DEF LevelStep, ToolRows, Opening, UnlockedTools
<1>2. unlocksAt[t] # Untied /\ unlocksAt[t] \notin solved[u]
  BY <1>1 DEF Opening, UnlockedTools
<1>3. unlocksAt[t] \in Levels' => unlocksAt'[t] = unlocksAt[t]
  BY DEF LevelStep, SetNull
<1> QED
  BY <1>1, <1>2, <1>3 DEF Opening, UnlockedTools

LEMMA ToolStepOpens ==
    ASSUME ToolsTypeOK, ToolStep, NEW u \in Users, NEW t \in ToolIds, Opening(u, t)
    PROVE  Edited(t)
<1> SUFFICES ASSUME t \in ToolRows
             PROVE  Rewritten(t)
  BY DEF Edited
<1>1. solved' = solved
  BY DEF ToolStep, CreateTool, UpdateTool, DeleteTool, vars
<1>2. unlocksAt'[t] # unlocksAt[t] /\ t \in ToolRows'
  BY <1>1 DEF Opening, UnlockedTools
<1>3. ASSUME NEW p \in Paths, NEW l \in 0 .. MaxLevelId, CreateTool(p, l)
      PROVE  FALSE
  BY <1>2, <1>3 DEF CreateTool, ToolsTypeOK, ToolIds
<1>4. ASSUME NEW s \in ToolIds, DeleteTool(s)
      PROVE  FALSE
  BY <1>2, <1>4 DEF DeleteTool, ToolsTypeOK, ToolRows
<1>5. ASSUME NEW s \in ToolIds, NEW p \in Paths, NEW l \in 0 .. MaxLevelId,
             UpdateTool(s, p, l)
      PROVE  Rewritten(t)
  <2>1. s = t
    BY <1>2, <1>5 DEF UpdateTool, ToolsTypeOK
  <2> QED
    BY <1>5, <2>1 DEF Rewritten
<1> QED
  BY <1>3, <1>4, <1>5 DEF ToolStep

\* A tool opens to a player only by a solve that is earned or that an admin's
\* rewrite of the progress put there (SolvesAreEarned), by an edit of that tool, or
\* with the deletion of the level it was tied to.
THEOREM ToolsAreEarned == ToolsSpec => ToolsEarned
<1> DEFINE Solves == \A u \in Users : \A l \in solved'[u] \ solved[u] : SolvedBy(u, l)
           Opens == \A u \in Users, t \in ToolIds : Opening(u, t) =>
                      \/ Edited(t)
                      \/ unlocksAt[t] \in solved'[u] /\ SolvedBy(u, unlocksAt[t])
                      \/ unlocksAt[t] \notin Levels'
<1>1. ToolsTypeOK /\ [Solves]_vars /\ [ToolsNext]_allVars => [Opens]_allVars
  <2> SUFFICES ASSUME ToolsTypeOK, [Solves]_vars, ToolsNext,
                      NEW u \in Users, NEW t \in ToolIds, Opening(u, t)
               PROVE  \/ Edited(t)
                      \/ unlocksAt[t] \in solved'[u] /\ SolvedBy(u, unlocksAt[t])
                      \/ unlocksAt[t] \notin Levels'
    OBVIOUS
  <2>1. CASE LevelStep
    <3>1. CASE unlocksAt[t] \in solved'[u] \ solved[u]
      BY <3>1 DEF vars
    <3> QED
      BY <2>1, <3>1, LevelStepOpens
  <2>2. CASE ToolStep
    BY <2>2, ToolStepOpens
  <2> QED
    BY <2>1, <2>2 DEF ToolsNext
<1>2. ToolsSpec => [][Solves]_vars
  BY ProgressGoesOn, SolvesAreEarned, PTL DEF EarnedSolve
<1> QED
  BY <1>1, <1>2, ToolsTypeCorrect, PTL DEF ToolsSpec, ToolsEarned

\* A solve of a level that remains is undone only by the panel.
LEMMA SolvesRemain ==
    ASSUME TypeOK, Next, NEW u \in Users, NEW l \in solved[u] \ solved'[u], l \in Levels'
    PROVE  \/ \E n \in 1 .. MaxLevelId + 1 : SetUserProgressToLevel(u, n)
           \/ DeleteUser(u)
<1>1. CASE PlayerStep
  BY <1>1 DEF PlayerStep, SubmitFlag, ViewLevel, ListLevels, ReadCurrent, Gate, Judge,
              RecordSolved, ReadList, Respond, Abort, TypeOK
<1>2. ASSUME NEW k \in LevelIds, DeleteLevel(k)
      PROVE  FALSE
  <2>1. k = l
    BY <1>2 DEF DeleteLevel
  <2>2. order'[l] = 0
    BY <1>2, <2>1 DEF DeleteLevel, TypeOK
  <2> QED
    BY <2>2 DEF Levels
<1>3. ASSUME NEW v \in Users, DeleteUser(v)
      PROVE  DeleteUser(u)
  <2>1. v = u
    BY <1>3 DEF DeleteUser, TypeOK
  <2> QED
    BY <1>3, <2>1
<1>4. CASE ProgressEdit
  <2>1. PICK v \in Users, n \in 1 .. MaxLevelId + 1 : SetUserProgressToLevel(v, n)
    BY <1>4 DEF ProgressEdit
  <2>2. v = u
    BY <2>1 DEF SetUserProgressToLevel, TypeOK
  <2> QED
    BY <2>1, <2>2
<1>5. CASE solved' = solved
  BY <1>5
<1> QED
  BY <1>1, <1>2, <1>3, <1>4, <1>5 DEF Next, AnyEdit, CreateLevel, UpdateLevel

LEMMA LevelStepKeepsFiles ==
    ASSUME TypeOK, LevelStep, NEW u \in Users, NEW p \in Paths,
           IsToolFileUnlocked(u, p), ~IsToolFileUnlocked(u, p)'
    PROVE  \/ \E n \in 1 .. MaxLevelId + 1 : SetUserProgressToLevel(u, n)
           \/ DeleteUser(u)
<1>1. path' = path /\ ToolRows' = ToolRows
  BY DEF LevelStep, ToolRows
<1>2. PICK t \in ToolRows :
        path[t] = p /\ (unlocksAt[t] = Untied \/ unlocksAt[t] \in solved[u])
  BY DEF IsToolFileUnlocked
<1>3. unlocksAt'[t] # Untied /\ unlocksAt'[t] \notin solved'[u]
  BY <1>1, <1>2 DEF IsToolFileUnlocked
<1>4. unlocksAt[t] \in Levels' /\ unlocksAt'[t] = unlocksAt[t]
  BY <1>2, <1>3 DEF LevelStep, SetNull, ToolRows
<1> QED
  BY <1>2, <1>3, <1>4, SolvesRemain DEF LevelStep

LEMMA ToolStepKeepsFiles ==
    ASSUME ToolsTypeOK, ToolStep, NEW u \in Users, NEW p \in Paths,
           IsToolFileUnlocked(u, p), ~IsToolFileUnlocked(u, p)'
    PROVE  \E t \in ToolRows : path[t] = p /\ (DeleteTool(t) \/ Rewritten(t))
<1>1. solved' = solved
  BY DEF ToolStep, CreateTool, UpdateTool, DeleteTool, vars
<1>2. PICK t \in ToolRows :
        path[t] = p /\ (unlocksAt[t] = Untied \/ unlocksAt[t] \in solved[u])
  BY DEF IsToolFileUnlocked
<1>3. path'[t] # path[t] \/ unlocksAt'[t] # unlocksAt[t]
  BY <1>1, <1>2 DEF IsToolFileUnlocked, ToolRows
<1>4. ASSUME NEW q \in Paths, NEW l \in 0 .. MaxLevelId, CreateTool(q, l)
      PROVE  FALSE
  BY <1>2, <1>3, <1>4 DEF CreateTool, ToolsTypeOK, ToolRows, ToolIds
<1>5. ASSUME NEW s \in ToolIds, DeleteTool(s)
      PROVE  DeleteTool(t)
  <2>1. s = t
    BY <1>3, <1>5 DEF DeleteTool, ToolsTypeOK, ToolRows
  <2> QED
    BY <1>5, <2>1
<1>6. ASSUME NEW s \in ToolIds, NEW q \in Paths, NEW l \in 0 .. MaxLevelId,
             UpdateTool(s, q, l)
      PROVE  Rewritten(t)
  <2>1. s = t
    BY <1>3, <1>6 DEF UpdateTool, ToolsTypeOK, ToolRows
  <2> QED
    BY <1>6, <2>1 DEF Rewritten
<1> QED
  BY <1>2, <1>4, <1>5, <1>6 DEF ToolStep

\* A file once open to a player is closed only by an edit of its tool, a rewrite
\* of their progress or the end of their account, never by editing levels.
THEOREM FilesAreKept == ToolsSpec => FilesKept
<1> DEFINE Kept ==
      \A u \in Users, p \in Paths :
         IsToolFileUnlocked(u, p) /\ ~IsToolFileUnlocked(u, p)' =>
           \/ \E t \in ToolRows : path[t] = p /\ (DeleteTool(t) \/ Rewritten(t))
           \/ \E n \in 1 .. MaxLevelId + 1 : SetUserProgressToLevel(u, n)
           \/ DeleteUser(u)
<1>1. TypeOK /\ ToolsTypeOK /\ [ToolsNext]_allVars => [Kept]_allVars
  <2> SUFFICES ASSUME TypeOK, ToolsTypeOK, ToolsNext
               PROVE  Kept
    OBVIOUS
  <2> QED
    BY LevelStepKeepsFiles, ToolStepKeepsFiles DEF ToolsNext
<1>2. ToolsSpec => []TypeOK
  BY ProgressGoesOn, TypeCorrect, PTL
<1> QED
  BY <1>1, <1>2, ToolsTypeCorrect, PTL DEF ToolsSpec, FilesKept

-----------------------------------------------------------------------------
(* One database: the steps of Progress and Tools are statements of Tables.     *)

LEMMA RowsOfTables ==
    /\ Db!LevelIds = LevelIds /\ Db!Orders = Orders
    /\ Db!LevelsOf(Rows) = Levels
    /\ Db!FreeOrders(Rows) = {o \in Orders : \A k \in Levels : order[k] # o}
    /\ users \subseteq Users => Db!UsersOf(Rows) = users
<1>1. Db!LevelIds = LevelIds /\ Db!Orders = Orders
  BY DEF Db!LevelIds, LevelIds, Db!Orders, Orders
<1>2. Db!LevelsOf(Rows) = Levels
  BY <1>1 DEF Db!LevelsOf, Rows, Levels
<1>3. Db!FreeOrders(Rows) = {o \in Orders : \A k \in Levels : order[k] # o}
  BY <1>1, <1>2 DEF Db!FreeOrders, Rows
<1>4. users \subseteq Users => Db!UsersOf(Rows) = users
  BY DEF Db!UsersOf, Rows, Db!Roles
<1> QED
  BY <1>1, <1>2, <1>3, <1>4

\* The rows, table by table.
NoHint == [l \in LevelIds |-> <<>>]
RolesOf(us) == [u \in Users |-> IF u \in us THEN "player" ELSE "gone"]
Row(o, s, h, t, r, so) ==
    [order |-> o, seq |-> s, hints |-> h, ties |-> t, role |-> r, solved |-> so]

Ties == [t \in 1 .. toolSeq |-> IF t \in ToolRows THEN unlocksAt[t] ELSE -1]

LEMMA RowsAre ==
    /\ Rows = Row(order, seq, NoHint, Ties, RolesOf(users), solved)
    /\ Rows' = Row(order', seq', NoHint, Ties', RolesOf(users'), solved')
BY DEF Rows, Row, NoHint, RolesOf, Ties

LEMMA RowOnly ==
    \A x : [Rows EXCEPT !.ties = x] = Row(order, seq, NoHint, x, RolesOf(users), solved)
BY RowsAre DEF Row

LEMMA SameTies ==
    ASSUME UNCHANGED <<path, toolSeq>>, unlocksAt' = unlocksAt
    PROVE  Ties' = Ties
BY DEF Ties, ToolRows

LEMMA RowSolved ==
    ASSUME NEW u, NEW l
    PROVE  Db!RecordSolved(Rows, u, l)
             = Row(order, seq, NoHint, Ties, RolesOf(users), [solved EXCEPT ![u] = @ \cup {l}])
<1>1. Rows.solved = solved
  BY RowsAre DEF Row
<1>2. Db!RecordSolved(Rows, u, l)
        = [Rows EXCEPT !.solved = [solved EXCEPT ![u] = solved[u] \cup {l}]]
  BY <1>1 DEF Db!RecordSolved
<1> QED
  BY <1>2, RowsAre DEF Row

LEMMA RowUpdated ==
    ASSUME NEW l, NEW x
    PROVE  Db!UpdateLevel(Rows, l, x)
             = Row([order EXCEPT ![l] = x], seq, NoHint, Ties, RolesOf(users), solved)
<1>1. Rows.order = order
  BY RowsAre DEF Row
<1>2. Db!UpdateLevel(Rows, l, x) = [Rows EXCEPT !.order = [order EXCEPT ![l] = x]]
  BY <1>1 DEF Db!UpdateLevel
<1> QED
  BY <1>2, RowsAre DEF Row

LEMMA RowInserted ==
    ASSUME NEW x
    PROVE  Db!InsertLevel(Rows, x)
             = Row([order EXCEPT ![seq + 1] = x], seq + 1, NoHint, Ties, RolesOf(users), solved)
<1>1. Rows.seq = seq /\ Rows.order = order
  BY RowsAre DEF Row
<1>2. Db!InsertLevel(Rows, x)
        = [Rows EXCEPT !.seq = seq + 1, !.order = [order EXCEPT ![seq + 1] = x]]
  BY <1>1, Zenon DEF Db!InsertLevel
<1> QED
  BY <1>2, RowsAre DEF Row

LEMMA RowUserGone ==
    ASSUME NEW u
    PROVE  Db!DeleteUser(Rows, u)
             = Row(order, seq, NoHint, Ties, [RolesOf(users) EXCEPT ![u] = "gone"],
                   [solved EXCEPT ![u] = {}])
<1>1. Rows.role = RolesOf(users) /\ Rows.solved = solved
  BY RowsAre DEF Row
<1>2. Db!DeleteUser(Rows, u)
        = [Rows EXCEPT !.role = [RolesOf(users) EXCEPT ![u] = "gone"],
                       !.solved = [solved EXCEPT ![u] = {}]]
  BY <1>1, Zenon DEF Db!DeleteUser, Db!Gone
<1> QED
  BY <1>2, RowsAre DEF Row

\* Every statement of Tables may run.
LEMMA AllEdits ==
    \A d : Db!Edits(d) = {d} \cup Db!Created(d) \cup Db!Updated(d) \cup Db!WithoutLevel(d)
                             \cup Db!ToolCreated(d) \cup Db!ToolUpdated(d)
                             \cup Db!WithoutTool(d) \cup Db!UserCreated(d)
                             \cup Db!WithoutUser(d) \cup Db!Solved(d)
BY DEF Db!Edits, Db!When

\* SetUserProgressToLevel writes the levels of lowest rank, in both modules.
LEMMA LowestIsFirst ==
    ASSUME TypeOK, Integrity, NEW n \in Nat, NEW S \in SUBSET Levels, IsLowest(S, n)
    PROVE  S = Db!First(Rows, n)
<1>1. \A l \in Levels : l \in S <=> Rank(order[l]) <= n
  BY LowestByRank DEF Integrity
<1>2. \A T : Db!Cardinality(T) = Cardinality(T)
  BY Zenon DEF Cardinality, Db!Cardinality
<1>3. Db!First(Rows, n) = {l \in Levels : Rank(order[l]) <= n}
  <2>1. Db!First(Rows, n) =
          {l \in Levels : Cardinality({k \in Levels : order[k] <= order[l]}) <= n}
    BY <1>2, RowsOfTables DEF Db!First, Rows
  <2> QED
    BY <2>1 DEF Rank
<1> QED
  BY <1>1, <1>3

\* A step that deletes no level unties no tool.
LEMMA TiesStay ==
    ASSUME ToolsInv, SetNull, Levels \subseteq Levels'
    PROVE  unlocksAt' = unlocksAt
<1>1. \A t \in ToolIds : unlocksAt[t] \notin Levels' => unlocksAt[t] = Untied
  BY DEF ToolsInv, NoDanglingTie
<1> QED
  BY <1>1 DEF SetNull, ToolsInv, ToolsTypeOK

LEMMA PlayerStatement ==
    ASSUME TypeOK, ToolsInv, PlayerStep, SetNull, UNCHANGED <<path, toolSeq>>
    PROVE  Rows' \in Db!Edits(Rows)
<1>1. /\ users' = users /\ order' = order /\ seq' = seq /\ flag' = flag
      /\ \/ solved' = solved
         \/ \E u \in users, l \in Levels : solved' = [solved EXCEPT ![u] = @ \cup {l}]
  BY DEF PlayerStep, SubmitFlag, ViewLevel, ListLevels, ReadCurrent, Gate, Judge,
         RecordSolved, ReadList, Respond, Abort, content
<1>2. Ties' = Ties
  BY <1>1, TiesStay, SameTies DEF Levels
<1>3. CASE solved' = solved
  <2>1. Rows' = Rows
    BY <1>1, <1>2, <1>3, RowsAre
  <2> QED
    BY <2>1, AllEdits
<1>4. CASE solved' # solved
  <2>1. PICK u \in users, l \in Levels : solved' = [solved EXCEPT ![u] = @ \cup {l}]
    BY <1>1, <1>4
  <2>2. Rows' = Db!RecordSolved(Rows, u, l)
    BY <1>1, <1>2, <2>1, RowsAre, RowSolved
  <2>3. Rows' \in Db!Solved(Rows)
    BY <2>1, <2>2, RowsOfTables DEF Db!Solved, TypeOK
  <2> QED
    BY <2>3, AllEdits
<1> QED
  BY <1>3, <1>4

LEMMA EditStatement ==
    ASSUME TypeOK, ToolsInv, AnyEdit, SetNull, UNCHANGED <<path, toolSeq>>
    PROVE  Rows' \in Db!Edits(Rows)
<1>1. ASSUME NEW o \in Orders, NEW f \in Flags, CreateLevel(o, f)
      PROVE  Rows' \in Db!Edits(Rows)
  <2>1. Levels \subseteq Levels'
    <3>1. \A l \in Levels : order'[l] # 0
      BY <1>1, BoundsAssumption DEF CreateLevel, TypeOK, Levels, Orders
    <3> QED
      BY <3>1 DEF Levels
  <2>2. Ties' = Ties
    BY <2>1, TiesStay, SameTies
  <2>3. Rows' = Db!InsertLevel(Rows, o)
    BY <1>1, <2>2, RowsAre, RowInserted DEF CreateLevel
  <2>4. Rows' \in Db!Created(Rows)
    BY <1>1, <2>3, RowsOfTables DEF Db!Created, CreateLevel, Rows
  <2> QED
    BY <2>4, AllEdits
<1>2. ASSUME NEW l \in LevelIds, NEW o \in Orders, NEW f \in Flags, UpdateLevel(l, o, f)
      PROVE  Rows' \in Db!Edits(Rows)
  <2>1. Levels \subseteq Levels'
    <3>1. \A k \in Levels : order'[k] # 0
      BY <1>2, BoundsAssumption DEF UpdateLevel, TypeOK, Levels, Orders
    <3> QED
      BY <3>1 DEF Levels
  <2>2. Ties' = Ties
    BY <2>1, TiesStay, SameTies
  <2>3. CASE order[l] = o
    <3>1. order' = order
      BY <1>2, <2>3 DEF UpdateLevel, TypeOK
    <3>2. Rows' = Rows
      BY <1>2, <2>2, <3>1, RowsAre DEF UpdateLevel
    <3> QED
      BY <3>2, AllEdits
  <2>4. CASE order[l] # o
    <3>1. Rows' = Db!UpdateLevel(Rows, l, o)
      BY <1>2, <2>2, RowsAre, RowUpdated DEF UpdateLevel
    <3>2. Rows' \in Db!Updated(Rows)
      BY <1>2, <2>4, <3>1, RowsOfTables DEF Db!Updated, UpdateLevel
    <3> QED
      BY <3>2, AllEdits
  <2> QED
    BY <2>3, <2>4
<1>3. ASSUME NEW l \in LevelIds, DeleteLevel(l)
      PROVE  Rows' \in Db!Edits(Rows)
  <2>1. Levels' = Levels \ {l}
    BY <1>3 DEF DeleteLevel, TypeOK, Levels
  <2>2. \A t \in ToolIds :
          unlocksAt'[t] = IF unlocksAt[t] = l THEN Untied ELSE unlocksAt[t]
    BY <2>1 DEF SetNull, ToolsInv, NoDanglingTie
  <2>3. Ties' = [t \in DOMAIN Ties |-> IF Ties[t] = l THEN Db!Untied ELSE Ties[t]]
    <3>1. l # -1 /\ ToolRows' = ToolRows /\ ToolRows \subseteq ToolIds
      BY <1>3 DEF ToolRows, LevelIds
    <3>2. DOMAIN Ties = 1 .. toolSeq
      BY DEF Ties
    <3>3. \A t \in 1 .. toolSeq : Ties'[t] = IF Ties[t] = l THEN Untied ELSE Ties[t]
      BY <2>2, <3>1 DEF Ties
    <3>4. Ties' = [t \in 1 .. toolSeq |-> Ties'[t]]
      BY DEF Ties
    <3> QED
      BY <3>2, <3>3, <3>4 DEF Untied, Db!Untied
  <2>4. [k \in LevelIds |-> <<>>] = [[k \in LevelIds |-> <<>>] EXCEPT ![l] = <<>>]
    OBVIOUS
  <2>5. Rows' = Db!DeleteLevel(Rows, l)
    <3>1. /\ Rows.order = order /\ Rows.seq = seq /\ Rows.hints = NoHint /\ Rows.ties = Ties
          /\ Rows.role = RolesOf(users) /\ Rows.solved = solved
      BY RowsAre DEF Row
    <3> QED
      BY <1>3, <2>3, <2>4, <3>1, RowsAre DEF DeleteLevel, Db!DeleteLevel, Row, NoHint
  <2>6. Rows' \in Db!WithoutLevel(Rows)
    BY <1>3, <2>5, RowsOfTables DEF Db!WithoutLevel, DeleteLevel
  <2> QED
    BY <2>6, AllEdits
<1>4. ASSUME NEW u \in Users, DeleteUser(u)
      PROVE  Rows' \in Db!Edits(Rows)
  <2>1. Ties' = Ties
    BY <1>4, TiesStay, SameTies DEF DeleteUser, content, Levels
  <2>2. RolesOf(users') = [RolesOf(users) EXCEPT ![u] = "gone"]
    BY <1>4 DEF DeleteUser, RolesOf
  <2>3. Rows' = Db!DeleteUser(Rows, u)
    BY <1>4, <2>1, <2>2, RowsAre, RowUserGone DEF DeleteUser, content
  <2>4. Rows' \in Db!WithoutUser(Rows)
    BY <1>4, <2>3, RowsOfTables DEF Db!WithoutUser, DeleteUser, TypeOK
  <2> QED
    BY <2>4, AllEdits
<1> QED
  BY <1>1, <1>2, <1>3, <1>4 DEF AnyEdit

LEMMA RewriteStatement ==
    ASSUME TypeOK, Integrity, ToolsInv, ProgressEdit, SetNull, UNCHANGED <<path, toolSeq>>
    PROVE  \E u \in users, n \in 0 .. MaxLevelId :
             Rows' = Db!InsertProgress(Db!DeleteProgress(Rows, u), u, n)
<1>1. PICK u \in Users, m \in 1 .. MaxLevelId + 1 : SetUserProgressToLevel(u, m)
  BY DEF ProgressEdit
<1> DEFINE n == m - 1
           S == Db!First(Rows, n)
<1>2. n \in 0 .. MaxLevelId /\ n \in Nat /\ u \in users
  BY <1>1, BoundsAssumption DEF SetUserProgressToLevel
<1>3. solved' = [solved EXCEPT ![u] = S]
  <2>1. PICK T \in SUBSET Levels : IsLowest(T, n) /\ solved' = [solved EXCEPT ![u] = T]
    BY <1>1 DEF SetUserProgressToLevel
  <2> QED
    BY <1>2, <2>1, LowestIsFirst
<1>4. Ties' = Ties
  BY <1>1, TiesStay, SameTies DEF SetUserProgressToLevel, content, Levels
<1>5. Db!First(Db!DeleteProgress(Rows, u), n) = S
  BY Zenon DEF Db!First, Db!LevelsOf, Db!DeleteProgress, Rows
<1>6. Rows' = Db!InsertProgress(Db!DeleteProgress(Rows, u), u, n)
  <2>1. Rows' = [Rows EXCEPT !.solved = [solved EXCEPT ![u] = S]]
    <3>1. /\ order' = order /\ seq' = seq /\ users' = users
      BY <1>1 DEF SetUserProgressToLevel, content
    <3> QED
      BY <1>3, <1>4, <3>1, RowsAre DEF Row
  <2>2. Db!DeleteProgress(Rows, u) = [Rows EXCEPT !.solved = [solved EXCEPT ![u] = {}]]
    BY DEF Db!DeleteProgress, Rows
  <2>3. [[solved EXCEPT ![u] = {}] EXCEPT ![u] = S] = [solved EXCEPT ![u] = S]
    BY DEF TypeOK
  <2>4. Db!InsertProgress(Db!DeleteProgress(Rows, u), u, n)
          = [Rows EXCEPT !.solved = [[solved EXCEPT ![u] = {}] EXCEPT ![u] = S]]
    BY <1>5, <2>2 DEF Db!InsertProgress, Rows
  <2> QED
    BY <2>1, <2>3, <2>4
<1> QED
  BY <1>2, <1>6

\* The tools of the panel: their ids, their rows, and what they may be tied to.
LEMMA ToolStatement ==
    ASSUME TypeOK, ToolsInv, ToolStep
    PROVE  Rows' \in Db!Edits(Rows)
<1> USE DEF ToolsInv, ToolsTypeOK, NoDanglingTie
<1>1. order' = order /\ seq' = seq /\ users' = users /\ solved' = solved
  BY DEF ToolStep, CreateTool, UpdateTool, DeleteTool, vars, content
<1>2. \A x : Ties' = x => Rows' = [Rows EXCEPT !.ties = x]
  BY <1>1, RowsAre, RowOnly
<1>3. /\ toolSeq \in Nat /\ ToolRows \subseteq 1 .. toolSeq /\ ToolRows \subseteq ToolIds
      /\ \A t \in ToolRows : unlocksAt[t] # -1
  BY ToolAssumption DEF ToolRows, ToolIds
<1>4. Rows.ties = Ties /\ DOMAIN Ties = 1 .. toolSeq
  BY RowsAre DEF Row, Ties
<1>5. Db!ToolsOf(Rows) = ToolRows
  BY <1>3, <1>4 DEF Db!ToolsOf, Db!NoTool, Ties
<1>6. Db!MayTie(Rows) = Levels \cup {Untied}
  BY RowsOfTables DEF Db!MayTie, Db!Untied, Untied
<1>7. ASSUME NEW p \in Paths, NEW l \in 0 .. MaxLevelId, CreateTool(p, l)
      PROVE  Rows' \in Db!Edits(Rows)
  <2>1. Ties \in Seq(-1 .. MaxLevelId) /\ Len(Ties) = toolSeq
    <3>1. \A t \in 1 .. toolSeq : Ties[t] \in -1 .. MaxLevelId
      BY <1>3, BoundsAssumption DEF Ties
    <3>2. Ties = [t \in 1 .. toolSeq |-> Ties[t]]
      BY DEF Ties
    <3> HIDE DEF Ties
    <3>3. Ties \in [1 .. toolSeq -> -1 .. MaxLevelId]
      BY <3>1, <3>2
    <3>4. Ties \in Seq(-1 .. MaxLevelId)
      <4>1. Ties \in UNION {[1 .. n -> -1 .. MaxLevelId] : n \in Nat}
        BY <1>3, <3>3, Zenon
      <4> QED
        BY <4>1, SeqDef, Zenon
    <3>5. Len(Ties) \in Nat /\ 1 .. Len(Ties) = 1 .. toolSeq
      BY <1>4, <3>4, LenProperties
    <3> QED
      BY <1>3, <3>4, <3>5
  <2>2. /\ toolSeq + 1 \in ToolIds /\ toolSeq' = toolSeq + 1
        /\ ToolRows' = ToolRows \cup {toolSeq + 1}
    BY <1>3, <1>7, ToolAssumption DEF CreateTool, ToolRows, ToolIds
  <2>3. \A t \in 1 .. toolSeq + 1 : Ties'[t] = IF t = toolSeq + 1 THEN l ELSE Ties[t]
    BY <1>3, <1>7, <2>2 DEF CreateTool, Ties
  <2>4. Ties' = [t \in 1 .. toolSeq + 1 |-> Ties'[t]]
    BY <2>2 DEF Ties
  <2>5. Ties' = Append(Ties, l)
    <3> HIDE DEF Ties
    <3>1. Append(Ties, l) = [t \in 1 .. toolSeq + 1 |-> Append(Ties, l)[t]]
      <4>1. Append(Ties, l) \in Seq(-1 .. MaxLevelId) /\ Len(Append(Ties, l)) = toolSeq + 1
        BY <2>1, BoundsAssumption, AppendProperties
      <4>2. Append(Ties, l) \in [1 .. toolSeq + 1 -> -1 .. MaxLevelId]
        BY <4>1, LenProperties
      <4> QED
        BY <4>2, Zenon
    <3>2. \A t \in 1 .. toolSeq + 1 : Append(Ties, l)[t] = Ties'[t]
      BY <1>3, <2>1, <2>3, BoundsAssumption, AppendProperties
    <3> QED
      BY <2>4, <3>1, <3>2, Zenon
  <2>6. Rows' = Db!InsertTool(Rows, l)
    BY <1>2, <1>4, <2>5 DEF Db!InsertTool
  <2>7. Rows' \in Db!ToolCreated(Rows)
    BY <1>4, <1>6, <1>7, <2>1, <2>6 DEF Db!ToolCreated, CreateTool
  <2> QED
    BY <2>7, AllEdits
<1>8. ASSUME NEW t \in ToolRows, NEW x, toolSeq' = toolSeq,
             \A s \in 1 .. toolSeq : Ties'[s] = IF s = t THEN x ELSE Ties[s]
      PROVE  Rows' = [Rows EXCEPT !.ties = [Rows.ties EXCEPT ![t] = x]]
  <2>1. Ties' = [s \in 1 .. toolSeq |-> Ties'[s]] /\ Ties = [s \in 1 .. toolSeq |-> Ties[s]]
    BY <1>8 DEF Ties
  <2>2. Ties' = [Ties EXCEPT ![t] = x]
    BY <1>3, <1>8, <2>1
  <2> QED
    BY <1>2, <1>4, <2>2
<1>9. ASSUME NEW t \in ToolIds, NEW p \in Paths, NEW l \in 0 .. MaxLevelId,
             UpdateTool(t, p, l)
      PROVE  Rows' \in Db!Edits(Rows)
  <2>1. ToolRows' = ToolRows /\ t \in ToolRows /\ toolSeq' = toolSeq
    BY <1>9, ToolAssumption DEF UpdateTool, ToolRows
  <2>2. \A s \in 1 .. toolSeq : Ties'[s] = IF s = t THEN l ELSE Ties[s]
    BY <1>3, <1>9, <2>1 DEF UpdateTool, Ties
  <2>3. Rows' = Db!UpdateTool(Rows, t, l)
    BY <1>8, <2>1, <2>2 DEF Db!UpdateTool
  <2>4. Rows' \in Db!ToolUpdated(Rows)
    BY <1>5, <1>6, <1>9, <2>1, <2>3 DEF Db!ToolUpdated, UpdateTool
  <2> QED
    BY <2>4, AllEdits
<1>10. ASSUME NEW t \in ToolIds, DeleteTool(t)
       PROVE  Rows' \in Db!Edits(Rows)
  <2>1. ToolRows' = ToolRows \ {t} /\ t \in ToolRows /\ toolSeq' = toolSeq
    BY <1>10 DEF DeleteTool, ToolRows
  <2>2. \A s \in 1 .. toolSeq : Ties'[s] = IF s = t THEN -1 ELSE Ties[s]
    BY <1>3, <1>10, <2>1 DEF DeleteTool, Ties
  <2>3. Rows' = Db!DeleteTool(Rows, t)
    BY <1>8, <2>1, <2>2 DEF Db!DeleteTool, Db!NoTool
  <2>4. Rows' \in Db!WithoutTool(Rows)
    BY <1>5, <2>1, <2>3 DEF Db!WithoutTool
  <2> QED
    BY <2>4, AllEdits
<1> QED
  BY <1>7, <1>9, <1>10 DEF ToolStep

\* Progress and Tools move the very tables that Transactions takes its snapshots
\* of, by the very statements it lets others run: the two halves of the project
\* are about one database, and a step that Progress takes at once
\* (SetUserProgressToLevel) is one that the transaction implements (Refinement).
THEOREM OneDatabase == ToolsSpec => SameStatements
<1> DEFINE Same ==
      \/ Rows' \in Db!Edits(Rows)
      \/ \E u \in users, n \in 0 .. MaxLevelId :
           Rows' = Db!InsertProgress(Db!DeleteProgress(Rows, u), u, n)
<1>1. TypeOK /\ Integrity /\ ToolsInv /\ [ToolsNext]_allVars => [Same]_allVars
  <2> SUFFICES ASSUME TypeOK, Integrity, ToolsInv, ToolsNext
               PROVE  Same
    OBVIOUS
  <2>1. CASE LevelStep
    BY <2>1, PlayerStatement, EditStatement, RewriteStatement DEF LevelStep, Next
  <2>2. CASE ToolStep
    BY <2>2, ToolStatement
  <2> QED
    BY <2>1, <2>2 DEF ToolsNext
<1>2. ToolsSpec => []TypeOK /\ []Integrity
  BY ProgressGoesOn, TypeCorrect, SchemaIntegrity, PTL
<1> QED
  BY <1>1, <1>2, ToolsInvariant, PTL DEF ToolsSpec, SameStatements
=============================================================================
