---------------------------- MODULE ProgressProofs ----------------------------
(* Theorems about Progress, for any number of users, requests and levels.     *)
EXTENDS Progress, FiniteSetTheorems, WellFoundedInduction, TLAPS

-----------------------------------------------------------------------------
(* Type correctness. *)

LEMMA StartIsTyped ==
    ASSUME TypeOK, NEW u \in Users, NEW l \in Levels
    PROVE  order[l] \in Orders /\ flag[l] \in Flags \cup {NoText}
BY BoundsAssumption DEF TypeOK, Levels, LevelIds, Orders

LEMMA CurrentLevelType ==
    ASSUME TypeOK, NEW u \in Users
    PROVE  CurrentLevel(u) \in Nat \ {0}
<1>1. IsFiniteSet(solved[u])
  BY BoundsAssumption, FS_Interval, FS_Subset DEF TypeOK, LevelIds
<1> QED
  BY <1>1, FS_CardinalityType DEF CurrentLevel

GoodRequest == {q \in RequestState : WellFormed(q)}

TypeOK0 ==
    /\ users \subseteq Users
    /\ order \in [LevelIds -> 0 .. MaxOrder]
    /\ flag \in [LevelIds -> Flags \cup {NoText}]
    /\ seq \in 0 .. MaxLevelId
    /\ solved \in [Users -> SUBSET LevelIds]
    /\ req \in [Requests -> GoodRequest]

LEMMA IdleIsTyped == Idle \in GoodRequest
BY BoundsAssumption DEF GoodRequest, Idle, Locals, WellFormed, RequestState, Phases, Kinds

LEMMA LocalsType ==
    ASSUME NEW k \in {"submit", "view"}, NEW u \in Users, NEW l \in LevelIds,
           NEW a \in Answers \cup {NoText}, NEW o \in Orders,
           NEW f \in Flags \cup {NoText}
    PROVE  Locals("current", k, u, l, a, o, f, 0) \in GoodRequest
<1>1. l \in 0 .. MaxLevelId /\ o \in 0 .. MaxOrder
  BY BoundsAssumption DEF LevelIds, Orders
<1> QED
  BY <1>1 DEF GoodRequest, Locals, WellFormed, RequestState, Phases, Kinds

LEMMA ListLocalsType ==
    ASSUME NEW u \in Users, NEW c \in Nat
    PROVE  Locals("list", "list", u, 0, NoText, 0, NoText, c) \in GoodRequest
BY BoundsAssumption DEF GoodRequest, Locals, WellFormed, RequestState, Phases, Kinds

LEMMA BeginType ==
    ASSUME TypeOK, NEW r \in Requests, NEW start \in GoodRequest, Begin(r, start)
    PROVE  req' \in [Requests -> GoodRequest]
BY DEF Begin, TypeOK, GoodRequest

LEMMA FinishType ==
    ASSUME TypeOK, NEW r \in Requests, Finish(r)
    PROVE  req' \in [Requests -> GoodRequest]
BY IdleIsTyped DEF Finish, TypeOK, GoodRequest

LEMMA PlayerType == TypeOK /\ PlayerStep => TypeOK0'
<1> SUFFICES ASSUME TypeOK, NEW r \in Requests,
        \/ \E u \in Users, l \in LevelIds, a \in Answers : SubmitFlag(r, u, l, a)
        \/ \E u \in Users, l \in LevelIds : ViewLevel(r, u, l)
        \/ \E u \in Users : ListLevels(r, u)
        \/ ReadCurrent(r)
        \/ Gate(r)
        \/ Judge(r)
        \/ ReadList(r)
        \/ Respond(r)
        \/ Abort(r)
      PROVE TypeOK0'
  BY DEF PlayerStep
<1>0. req[r] \in GoodRequest /\ req \in [Requests -> GoodRequest]
  BY DEF TypeOK, GoodRequest
<1>1. ASSUME NEW u \in Users, NEW l \in LevelIds, NEW a \in Answers, SubmitFlag(r, u, l, a)
      PROVE TypeOK0'
  <2>1. l \in Levels /\ order[l] \in Orders /\ flag[l] \in Flags \cup {NoText}
    BY <1>1, StartIsTyped DEF SubmitFlag
  <2> DEFINE start == Locals("current", "submit", u, l, a, order[l], flag[l], 0)
  <2>2. start \in GoodRequest
    BY <2>1, LocalsType DEF Kinds
  <2>3. Begin(r, start)
    BY <1>1 DEF SubmitFlag
  <2> HIDE DEF start
  <2>4. req' \in [Requests -> GoodRequest]
    BY <2>2, <2>3, BeginType
  <2> QED
    BY <1>1, <2>4 DEF SubmitFlag, TypeOK, TypeOK0, content
<1>2. ASSUME NEW u \in Users, NEW l \in LevelIds, ViewLevel(r, u, l)
      PROVE TypeOK0'
  <2>1. l \in Levels /\ order[l] \in Orders
    BY <1>2, StartIsTyped DEF ViewLevel
  <2> DEFINE start == Locals("current", "view", u, l, NoText, order[l], NoText, 0)
  <2>2. start \in GoodRequest
    BY <2>1, LocalsType DEF Kinds
  <2>3. Begin(r, start)
    BY <1>2 DEF ViewLevel
  <2> HIDE DEF start
  <2>4. req' \in [Requests -> GoodRequest]
    BY <2>2, <2>3, BeginType
  <2> QED
    BY <1>2, <2>4 DEF ViewLevel, TypeOK, TypeOK0, content
<1>3. ASSUME NEW u \in Users, ListLevels(r, u)
      PROVE TypeOK0'
  <2>1. CurrentLevel(u) \in Nat
    BY CurrentLevelType
  <2> DEFINE start(c) == Locals("list", "list", u, 0, NoText, 0, NoText, c)
  <2>2. \A c \in Nat : start(c) \in GoodRequest
    BY ListLocalsType
  <2>3. Begin(r, start(CurrentLevel(u)))
    BY <1>3 DEF ListLevels
  <2> HIDE DEF start
  <2>4. req' \in [Requests -> GoodRequest]
    BY <2>1, <2>2, <2>3, BeginType
  <2> QED
    BY <1>3, <2>4 DEF ListLevels, TypeOK, TypeOK0, content
<1>4. CASE ReadCurrent(r)
  <2>1. CurrentLevel(req[r].user) \in Nat
    <3>1. req[r].user \in Users
      BY <1>0, <1>4 DEF ReadCurrent, GoodRequest, WellFormed
    <3> QED
      BY <3>1, CurrentLevelType
  <2>2. [req[r] EXCEPT !.phase = "rank", !.current = CurrentLevel(req[r].user)]
          \in GoodRequest
    BY <1>0, <1>4, <2>1 DEF ReadCurrent, GoodRequest, WellFormed, Idle, RequestState, Phases
  <2>3. req' = [req EXCEPT ![r] = [req[r] EXCEPT !.phase = "rank",
                                   !.current = CurrentLevel(req[r].user)]]
    BY <1>0, <1>4 DEF ReadCurrent
  <2>4. req' \in [Requests -> GoodRequest]
    BY <1>0, <2>2, <2>3
  <2> QED
    BY <1>4, <2>4 DEF ReadCurrent, TypeOK, TypeOK0, content
<1>5. CASE Gate(r)
  <2>1. [req[r] EXCEPT !.phase = "admitted"] \in GoodRequest
    BY <1>0, <1>5 DEF Gate, GoodRequest, WellFormed, Idle, RequestState, Phases
  <2>2. req' \in [Requests -> GoodRequest]
    BY <1>0, <1>5, <2>1, IdleIsTyped DEF Gate, Finish
  <2> QED
    BY <1>5, <2>2 DEF Gate, TypeOK, TypeOK0, content
<1>6. CASE Judge(r)
  <2>1. solved' \in [Users -> SUBSET LevelIds]
    <3>1. Levels \subseteq LevelIds
      BY DEF Levels
    <3> QED
      BY <1>6, <3>1 DEF Judge, RecordSolved, TypeOK
  <2>2. req' \in [Requests -> GoodRequest]
    BY <1>6, FinishType DEF Judge
  <2> QED
    BY <1>6, <2>1, <2>2 DEF Judge, TypeOK, TypeOK0, content
<1>7. CASE ReadList(r)
  <2>1. PICK S \in SUBSET Levels :
            req' = [req EXCEPT ![r].phase = "shown", ![r].shown = S]
    BY <1>7 DEF ReadList
  <2>2. S \in SUBSET LevelIds
    BY DEF Levels
  <2>3. [req[r] EXCEPT !.phase = "shown", !.shown = S] \in GoodRequest
    BY <1>0, <1>7, <2>2 DEF ReadList, GoodRequest, WellFormed, Idle, RequestState, Phases
  <2> QED
    BY <1>0, <1>7, <2>1, <2>3 DEF ReadList, TypeOK, TypeOK0, content
<1>8. CASE Respond(r)
  BY <1>8, FinishType DEF Respond, TypeOK, TypeOK0, content
<1>9. CASE Abort(r)
  BY <1>9, FinishType DEF Abort, TypeOK, TypeOK0, content
<1> QED
  BY <1>1, <1>2, <1>3, <1>4, <1>5, <1>6, <1>7, <1>8, <1>9

LEMMA EditType == TypeOK /\ (AnyEdit \/ ProgressEdit) => TypeOK0'
<1> SUFFICES ASSUME TypeOK, AnyEdit \/ ProgressEdit
             PROVE  TypeOK0'
  OBVIOUS
<1> USE DEF TypeOK, TypeOK0, content
<1>0. Levels \subseteq LevelIds
  BY DEF Levels
<1>1. ASSUME NEW o \in Orders, NEW f \in Flags, CreateLevel(o, f) PROVE TypeOK0'
  <2>1. seq' \in 0 .. MaxLevelId
    BY <1>1, BoundsAssumption DEF CreateLevel
  <2>2. o \in 0 .. MaxOrder
    BY BoundsAssumption DEF Orders
  <2>3. order' \in [LevelIds -> 0 .. MaxOrder]
    BY <1>1, <2>2 DEF CreateLevel
  <2>4. flag' \in [LevelIds -> Flags \cup {NoText}]
    BY <1>1 DEF CreateLevel
  <2> QED
    BY <1>1, <2>1, <2>3, <2>4 DEF CreateLevel, GoodRequest
<1>2. ASSUME NEW l \in LevelIds, NEW o \in Orders, NEW f \in Flags, UpdateLevel(l, o, f)
      PROVE TypeOK0'
  BY <1>2, BoundsAssumption DEF UpdateLevel, Orders, GoodRequest
<1>3. ASSUME NEW l \in LevelIds, DeleteLevel(l) PROVE TypeOK0'
  BY <1>3, BoundsAssumption DEF DeleteLevel, GoodRequest
<1>4. ASSUME NEW u \in Users, DeleteUser(u) PROVE TypeOK0'
  BY <1>4 DEF DeleteUser, GoodRequest
<1>5. ASSUME NEW u \in Users, NEW n \in 1 .. MaxLevelId + 1, SetUserProgressToLevel(u, n)
      PROVE TypeOK0'
  BY <1>0, <1>5 DEF SetUserProgressToLevel, GoodRequest
<1> QED
  BY <1>1, <1>2, <1>3, <1>4, <1>5 DEF AnyEdit, ProgressEdit

LEMMA WitnessStaysTyped == Observe => witness' \in [Requests -> WitnessType]
BY DEF Observe, WitnessType, Unseen

LEMMA InitType == Init => TypeOK
<1> SUFFICES ASSUME Init
             PROVE  TypeOK
  OBVIOUS
<1>1. req \in [Requests -> GoodRequest]
  BY IdleIsTyped DEF Init
<1>2. witness \in [Requests -> WitnessType]
  BY DEF Init, WitnessType, Unseen
<1>3. solved \in [Users -> SUBSET LevelIds]
  BY DEF Init
<1> QED
  BY <1>1, <1>2, <1>3 DEF Init, TypeOK, GoodRequest

LEMMA NextType == TypeOK /\ [Next]_vars => TypeOK'
<1>1. TypeOK /\ Next => TypeOK0'
  BY PlayerType, EditType DEF Next
<1>2. TypeOK /\ Next => TypeOK'
  BY <1>1, WitnessStaysTyped DEF Next, TypeOK0, TypeOK, GoodRequest
<1>3. TypeOK /\ UNCHANGED vars => TypeOK'
  BY DEF vars, TypeOK
<1> QED
  BY <1>2, <1>3

\* Every variable of the model keeps its type, whatever players and admins do.
THEOREM TypeCorrect == Spec => []TypeOK
BY InitType, NextType, PTL DEF Spec

-----------------------------------------------------------------------------
(* The schema's constraints. *)

LEMMA InitIntegrity == Init => Integrity
BY DEF Init, Integrity, NoOrphanProgress, UniqueOrder, IdsFromSequence, Levels, LevelIds

LEMMA PlayerIntegrity == TypeOK /\ Integrity /\ PlayerStep => Integrity'
<1> SUFFICES ASSUME TypeOK, Integrity, PlayerStep
             PROVE  Integrity'
  OBVIOUS
<1> USE DEF Integrity, NoOrphanProgress, UniqueOrder, IdsFromSequence, TypeOK
<1>1. UNCHANGED <<users, content>>
  BY DEF PlayerStep, SubmitFlag, ViewLevel, ListLevels, ReadCurrent, Gate, Judge,
         ReadList, Respond, Abort
<1>2. Levels' = Levels
  BY <1>1 DEF Levels, content
<1>3. \/ UNCHANGED solved
      \/ \E u \in users, l \in Levels : solved' = [solved EXCEPT ![u] = @ \cup {l}]
  BY DEF PlayerStep, SubmitFlag, ViewLevel, ListLevels, ReadCurrent, Gate, Judge,
         RecordSolved, ReadList, Respond, Abort
<1> QED
  BY <1>1, <1>2, <1>3 DEF content

LEMMA EditIntegrity == TypeOK /\ Integrity /\ (AnyEdit \/ ProgressEdit) => Integrity'
<1> SUFFICES ASSUME TypeOK, Integrity, AnyEdit \/ ProgressEdit
             PROVE  Integrity'
  OBVIOUS
<1> USE BoundsAssumption
    DEF Integrity, NoOrphanProgress, UniqueOrder, IdsFromSequence, TypeOK, content
<1>1. ASSUME NEW o \in Orders, NEW f \in Flags, CreateLevel(o, f) PROVE Integrity'
  <2>1. seq + 1 \in LevelIds \ Levels
    BY <1>1 DEF CreateLevel, Levels, LevelIds
  <2>2. Levels' = Levels \cup {seq + 1}
    BY <1>1, <2>1 DEF CreateLevel, Levels, Orders
  <2> QED
    BY <1>1, <2>1, <2>2 DEF CreateLevel, Levels, LevelIds, Orders
<1>2. ASSUME NEW l \in LevelIds, NEW o \in Orders, NEW f \in Flags, UpdateLevel(l, o, f)
      PROVE Integrity'
  <2>1. Levels' = Levels
    BY <1>2 DEF UpdateLevel, Levels, Orders
  <2> QED
    BY <1>2, <2>1 DEF UpdateLevel, Levels
<1>3. ASSUME NEW l \in LevelIds, DeleteLevel(l) PROVE Integrity'
  <2>1. Levels' = Levels \ {l}
    BY <1>3 DEF DeleteLevel, Levels
  <2> QED
    BY <1>3, <2>1 DEF DeleteLevel, Levels
<1>4. ASSUME NEW u \in Users, DeleteUser(u) PROVE Integrity'
  BY <1>4 DEF DeleteUser, Levels
<1>5. ASSUME NEW u \in Users, NEW n \in 1 .. MaxLevelId + 1, SetUserProgressToLevel(u, n)
      PROVE Integrity'
  BY <1>5 DEF SetUserProgressToLevel, Levels
<1> QED
  BY <1>1, <1>2, <1>3, <1>4, <1>5 DEF AnyEdit, ProgressEdit

LEMMA NextIntegrity == TypeOK /\ Integrity /\ [Next]_vars => Integrity'
<1>1. TypeOK /\ Integrity /\ Next => Integrity'
  BY PlayerIntegrity, EditIntegrity DEF Next
<1>2. Integrity /\ UNCHANGED vars => Integrity'
  BY DEF vars, Integrity, NoOrphanProgress, UniqueOrder, IdsFromSequence, Levels
<1> QED
  BY <1>1, <1>2

\* The foreign keys, the uniqueness of order_index and the AUTOINCREMENT
\* sequence hold in every reachable state of the whole server.
THEOREM SchemaIntegrity == Spec => []Integrity
BY InitIntegrity, NextIntegrity, TypeCorrect, PTL DEF Spec

-----------------------------------------------------------------------------
(* Counting.  A level is accessible when at most CurrentLevel levels stand at *)
(* or below it; the lemmas turn that count into the order of the levels.      *)

UpTo(o) == {l \in Levels : order[l] <= o}

LEMMA LevelSetsAreFinite ==
    ASSUME NEW S \in SUBSET LevelIds
    PROVE  IsFiniteSet(S) /\ Cardinality(S) \in Nat
<1>1. IsFiniteSet(LevelIds)
  BY BoundsAssumption, FS_Interval DEF LevelIds
<1>2. IsFiniteSet(S)
  BY <1>1, FS_Subset
<1> QED
  BY <1>2, FS_CardinalityType

LEMMA SubsetCount ==
    ASSUME NEW S \in SUBSET LevelIds, NEW T \in SUBSET S
    PROVE  /\ Cardinality(T) <= Cardinality(S)
           /\ Cardinality(T) = Cardinality(S) => T = S
BY LevelSetsAreFinite, FS_Subset

LEMMA AddedCount ==
    ASSUME NEW S \in SUBSET LevelIds, NEW l \in LevelIds \ S
    PROVE  Cardinality(S \cup {l}) = Cardinality(S) + 1
BY LevelSetsAreFinite, FS_AddElement

\* Everything below an accessible level is solved, when the solved levels are
\* a prefix; and a level whose lower levels are all solved is accessible.
LEMMA LowerAllSolvedIsAccessible ==
    ASSUME TypeOK, NoOrphanProgress, UniqueOrder, NEW u \in Users, NEW l \in Levels,
           \A k \in Levels : order[k] < order[l] => k \in solved[u]
    PROVE  IsLevelAccessible(u, l)
<1> DEFINE below == {k \in Levels : order[k] < order[l]}
<1>1. UpTo(order[l]) = below \cup {l} /\ l \in LevelIds \ below
  BY DEF UpTo, UniqueOrder, Levels, TypeOK
<1>2. below \in SUBSET solved[u] /\ solved[u] \in SUBSET LevelIds
  BY DEF TypeOK
<1>3. Cardinality(below) <= Cardinality(solved[u])
  BY <1>2, SubsetCount
<1>4. Cardinality(below) \in Nat /\ Cardinality(solved[u]) \in Nat
  BY <1>2, LevelSetsAreFinite
<1>5. Cardinality(UpTo(order[l])) = Cardinality(below) + 1
  BY <1>1, <1>2, AddedCount
<1> QED
  BY <1>3, <1>4, <1>5 DEF IsLevelAccessible, Rank, UpTo, CurrentLevel

\* A nonempty set of levels has one of least order_index.
LEMMA LowestLevel ==
    ASSUME TypeOK, NEW S \in SUBSET Levels, S # {}
    PROVE  \E l \in S : \A k \in S : order[l] <= order[k]
<1> DEFINE O == {order[l] : l \in S}
<1>1. O \subseteq Nat /\ O # {}
  BY BoundsAssumption DEF TypeOK, Levels
<1>2. IsWellFoundedOn(OpToRel(<, Nat), Nat)
  BY NatLessThanWellFounded
<1>3. \E o \in O : \A p \in O : <<p, o>> \notin OpToRel(<, Nat)
  BY <1>1, <1>2, WFMin
<1>4. PICK o \in O : \A p \in O : ~(p < o)
  BY <1>1, <1>3 DEF OpToRel
<1>5. PICK l \in S : o = order[l]
  OBVIOUS
<1>6. ASSUME NEW k \in S PROVE order[l] <= order[k]
  <2>1. order[k] \in O /\ order[k] \in Nat /\ order[l] \in Nat
    BY <1>1
  <2> QED
    BY <1>4, <1>5, <2>1
<1> QED
  BY <1>6

\* In every reachable state a player with an unsolved level has one to work on.
THEOREM NobodyIsStuck == Spec => []NeverStuck
<1>1. TypeOK /\ Integrity => NeverStuck
  <2> SUFFICES ASSUME TypeOK, Integrity, NEW u \in Users, Levels # solved[u]
               PROVE  \E l \in Levels \ solved[u] : IsLevelAccessible(u, l)
    BY DEF NeverStuck
  <2>1. Levels \ solved[u] # {}
    BY DEF Integrity, NoOrphanProgress
  <2>2. PICK l \in Levels \ solved[u] :
            \A k \in Levels \ solved[u] : order[l] <= order[k]
    BY <2>1, LowestLevel
  <2>3. \A k \in Levels : order[k] < order[l] => k \in solved[u]
    BY <2>2 DEF TypeOK, Levels
  <2> QED
    BY <2>2, <2>3, LowerAllSolvedIsAccessible DEF Integrity
<1> QED
  BY <1>1, TypeCorrect, SchemaIntegrity, PTL

-----------------------------------------------------------------------------
(* The list and the gate. *)

\* With distinct order_index values a level of the first n levels has rank at
\* most n, and a level beyond them has a greater one.
LEMMA LowestByRank ==
    ASSUME TypeOK, UniqueOrder, NEW n \in Nat, NEW S \in SUBSET Levels, IsLowest(S, n)
    PROVE  \A l \in Levels : l \in S <=> Rank(order[l]) <= n
<1> SUFFICES ASSUME NEW l \in Levels
             PROVE  l \in S <=> Rank(order[l]) <= n
  OBVIOUS
<1>0. /\ Levels \in SUBSET LevelIds /\ S \in SUBSET LevelIds
      /\ \A k \in Levels : order[k] \in Nat
      /\ UpTo(order[l]) \in SUBSET LevelIds
  BY BoundsAssumption DEF Levels, TypeOK, UpTo
<1>00. /\ Cardinality(S) \in Nat /\ Cardinality(UpTo(order[l])) \in Nat
  BY <1>0, LevelSetsAreFinite
<1>1. CASE l \in S
  <2>1. UpTo(order[l]) \in SUBSET S
    BY <1>0, <1>1 DEF IsLowest, UpTo, UniqueOrder
  <2>2. Cardinality(UpTo(order[l])) <= Cardinality(S)
    BY <1>0, <2>1, SubsetCount
  <2> QED
    BY <1>00, <1>1, <2>2 DEF IsLowest, Rank, UpTo
<1>2. CASE l \notin S
  <2>1. Cardinality(S) = n
    BY <1>2 DEF IsLowest
  <2>2. S \cup {l} \in SUBSET UpTo(order[l])
    BY <1>0, <1>2 DEF IsLowest, UpTo
  <2>3. Cardinality(S \cup {l}) <= Cardinality(UpTo(order[l]))
    BY <1>0, <2>2, SubsetCount
  <2>4. Cardinality(S \cup {l}) = n + 1
    BY <1>0, <1>2, <2>1, AddedCount
  <2> QED
    BY <1>00, <1>2, <2>3, <2>4 DEF Rank, UpTo
<1> QED
  BY <1>1, <1>2

\* The list query and the gate query accept the same levels in every state.
THEOREM ListAgreesWithGate == Spec => []ListMatchesGate
<1>1. TypeOK /\ Integrity => ListMatchesGate
  <2> SUFFICES ASSUME TypeOK, Integrity, NEW u \in Users, NEW S \in SUBSET Levels,
                      IsLowest(S, CurrentLevel(u))
               PROVE  S = {l \in Levels : IsLevelAccessible(u, l)}
    BY DEF ListMatchesGate
  <2>1. CurrentLevel(u) \in Nat
    BY CurrentLevelType
  <2>2. \A l \in Levels : l \in S <=> Rank(order[l]) <= CurrentLevel(u)
    BY <2>1, LowestByRank DEF Integrity
  <2> QED
    BY <2>2 DEF IsLevelAccessible
<1> QED
  BY <1>1, TypeCorrect, SchemaIntegrity, PTL

-----------------------------------------------------------------------------
(* Earned solves.  A handler whose row is still there was seen to match it:   *)
(* ids are never reused, so a row with its id is the row it looked up.        *)

Gated(q) == q.phase \in {"current", "rank", "admitted"}

MatchSeen ==
    \A r \in Requests : Gated(req[r]) =>
        /\ req[r].level <= seq
        /\ (req[r].kind = "submit" /\ req[r].level \in Levels /\ Correct(r))
              => witness[r].matched

LEMMA PlayerMatchSeen ==
    TypeOK /\ Integrity /\ MatchSeen /\ PlayerStep /\ Observe => MatchSeen'
<1> SUFFICES ASSUME TypeOK, Integrity, MatchSeen, PlayerStep, Observe,
                    NEW s \in Requests, Gated(req'[s])
             PROVE  /\ req'[s].level <= seq'
                    /\ (req'[s].kind = "submit" /\ req'[s].level \in Levels' /\ Correct(s)')
                          => witness'[s].matched
  BY DEF MatchSeen
<1>1. UNCHANGED content /\ Levels' = Levels
  BY DEF PlayerStep, SubmitFlag, ViewLevel, ListLevels, ReadCurrent, Gate, Judge,
         ReadList, Respond, Abort, content, Levels
<1>2. \/ /\ Gated(req[s])
         /\ req'[s].kind = req[s].kind /\ req'[s].level = req[s].level
         /\ req'[s].answer = req[s].answer /\ req'[s].flag = req[s].flag
      \/ /\ req'[s].level \in Levels
         /\ req'[s].kind = "submit" => req'[s].flag = flag[req'[s].level]
  <2> SUFFICES ASSUME NEW r \in Requests,
        \/ \E u \in Users, l \in LevelIds, a \in Answers : SubmitFlag(r, u, l, a)
        \/ \E u \in Users, l \in LevelIds : ViewLevel(r, u, l)
        \/ \E u \in Users : ListLevels(r, u)
        \/ ReadCurrent(r)
        \/ Gate(r)
        \/ Judge(r)
        \/ ReadList(r)
        \/ Respond(r)
        \/ Abort(r)
      PROVE <1>2
    BY DEF PlayerStep
  <2>0. req \in [Requests -> RequestState]
    BY DEF TypeOK
  <2>1. CASE s # r
    BY <2>0, <2>1 DEF SubmitFlag, ViewLevel, ListLevels, ReadCurrent, Gate, Judge,
         ReadList, Respond, Abort, Begin, Finish
  <2>2. CASE s = r
    <3>1. CASE \E u \in Users, l \in LevelIds, a \in Answers : SubmitFlag(r, u, l, a)
      BY <2>0, <2>2, <3>1 DEF SubmitFlag, Begin, Locals
    <3>2. CASE \E u \in Users, l \in LevelIds : ViewLevel(r, u, l)
      BY <2>0, <2>2, <3>2 DEF ViewLevel, Begin, Locals
    <3>3. CASE \E u \in Users : ListLevels(r, u)
      BY <2>0, <2>2, <3>3 DEF ListLevels, Begin, Locals, Gated
    <3>4. CASE ReadCurrent(r)
      BY <2>0, <2>2, <3>4 DEF ReadCurrent, RequestState, Gated
    <3>5. CASE Gate(r)
      BY <2>0, <2>2, <3>5 DEF Gate, Finish, Idle, Locals, RequestState, Gated
    <3>6. CASE ReadList(r)
      <4>1. PICK S : req' = [req EXCEPT ![r].phase = "shown", ![r].shown = S]
        BY <3>6 DEF ReadList
      <4>2. req[r] \in RequestState
        BY <2>0
      <4>3. req'[r] = [req[r] EXCEPT !.phase = "shown", !.shown = S]
        BY <2>0, <4>1
      <4>4. req'[r].phase = "shown"
        BY <4>2, <4>3 DEF RequestState
      <4> QED
        BY <2>2, <4>4 DEF Gated
    <3>7. CASE Judge(r) \/ Respond(r) \/ Abort(r)
      BY <2>0, <2>2, <3>7 DEF Judge, Respond, Abort, Finish, Idle, Locals, Gated
    <3> QED
      BY <2>2, <3>1, <3>2, <3>3, <3>4, <3>5, <3>6, <3>7
  <2> QED
    BY <2>1, <2>2
<1>3. req'[s].kind = "submit" =>
        (witness'[s].matched <=>
            \/ witness[s].matched /\ req'[s].level \in Levels'
            \/ MatchesNow(s)')
  BY DEF Observe
<1>4. CASE /\ Gated(req[s])
           /\ req'[s].kind = req[s].kind /\ req'[s].level = req[s].level
           /\ req'[s].answer = req[s].answer /\ req'[s].flag = req[s].flag
  BY <1>1, <1>3, <1>4 DEF MatchSeen, Correct, content
<1>5. CASE /\ req'[s].level \in Levels
           /\ req'[s].kind = "submit" => req'[s].flag = flag[req'[s].level]
  <2>1. req'[s].level <= seq'
    BY <1>1, <1>5 DEF Integrity, IdsFromSequence, content
  <2>2. req'[s].kind = "submit" /\ Correct(s)' => MatchesNow(s)'
    BY <1>1, <1>5 DEF Correct, MatchesNow, content
  <2> QED
    BY <1>3, <2>1, <2>2
<1> QED
  BY <1>2, <1>4, <1>5

LEMMA EditMatchSeen ==
    TypeOK /\ Integrity /\ MatchSeen /\ (AnyEdit \/ ProgressEdit) /\ Observe => MatchSeen'
<1> SUFFICES ASSUME TypeOK, Integrity, MatchSeen, AnyEdit \/ ProgressEdit, Observe,
                    NEW s \in Requests, Gated(req'[s])
             PROVE  /\ req'[s].level <= seq'
                    /\ (req'[s].kind = "submit" /\ req'[s].level \in Levels' /\ Correct(s)')
                          => witness'[s].matched
  BY DEF MatchSeen
<1>1. req' = req
  BY DEF AnyEdit, ProgressEdit, CreateLevel, UpdateLevel, DeleteLevel, DeleteUser,
         SetUserProgressToLevel
<1>2. seq \in Nat /\ seq' \in Nat /\ seq <= seq'
  BY BoundsAssumption
     DEF AnyEdit, ProgressEdit, CreateLevel, UpdateLevel, DeleteLevel, DeleteUser,
         SetUserProgressToLevel, content, TypeOK
<1>3. \A l \in LevelIds : l <= seq /\ l \in Levels' => l \in Levels
  BY BoundsAssumption
     DEF AnyEdit, ProgressEdit, CreateLevel, UpdateLevel, DeleteLevel, DeleteUser,
         SetUserProgressToLevel, content, TypeOK, Levels, LevelIds
<1>4. req[s].level \in LevelIds
  BY <1>1 DEF TypeOK, WellFormed, Gated
<1>5. req'[s].kind = "submit" =>
        (witness'[s].matched <=>
            \/ witness[s].matched /\ req'[s].level \in Levels'
            \/ MatchesNow(s)')
  BY DEF Observe
<1>6. /\ req[s].level <= seq
      /\ (req[s].kind = "submit" /\ req[s].level \in Levels /\ Correct(s))
            => witness[s].matched
  BY <1>1 DEF MatchSeen, Gated
<1>7. req'[s].level <= seq'
  BY <1>1, <1>2, <1>4, <1>6 DEF LevelIds
<1> QED
  BY <1>1, <1>3, <1>4, <1>5, <1>6, <1>7 DEF Correct

LEMMA MatchSeenInvariant == Spec => []MatchSeen
<1>1. Init => MatchSeen
  BY DEF Init, MatchSeen, Gated, Idle, Locals
<1>2. TypeOK /\ Integrity /\ MatchSeen /\ [Next]_vars => MatchSeen'
  <2>1. TypeOK /\ Integrity /\ MatchSeen /\ Next => MatchSeen'
    BY PlayerMatchSeen, EditMatchSeen DEF Next
  <2>2. MatchSeen /\ UNCHANGED vars => MatchSeen'
    BY DEF MatchSeen, vars, Levels, Correct
  <2> QED
    BY <2>1, <2>2
<1> QED
  BY <1>1, <1>2, TypeCorrect, SchemaIntegrity, PTL DEF Spec

\* Progress is earned: a level is recorded by a panel rewrite, or by a running
\* submission that saw its answer match the flag of that very row.
THEOREM SolvesAreEarned == Spec => EarnedSolve
<1> DEFINE Earned == \A u \in Users : \A l \in solved'[u] \ solved[u] : SolvedBy(u, l)
<1>1. TypeOK /\ MatchSeen /\ Next => Earned
  <2> SUFFICES ASSUME TypeOK, MatchSeen, Next, NEW u \in Users,
                      NEW l \in solved'[u] \ solved[u]
               PROVE  SolvedBy(u, l)
    OBVIOUS
  <2>1. CASE PlayerStep
    <3>1. PICK r \in Requests : Judge(r) /\ solved' # solved
      BY <2>1 DEF PlayerStep, SubmitFlag, ViewLevel, ListLevels, ReadCurrent, Gate,
                  ReadList, Respond, Abort
    <3>2. /\ Correct(r) /\ req[r].user \in users /\ req[r].level \in Levels
          /\ solved' = [solved EXCEPT ![req[r].user] = @ \cup {req[r].level}]
      BY <3>1 DEF Judge, RecordSolved
    <3>3. req[r].user = u /\ req[r].level = l
      BY <3>2 DEF TypeOK
    <3>4. witness[r].matched
      BY <3>1, <3>2 DEF MatchSeen, Judge, Gated
    <3> QED
      BY <3>1, <3>3, <3>4 DEF Judge, SolvedBy
  <2>2. CASE AnyEdit
    BY <2>2 DEF AnyEdit, CreateLevel, UpdateLevel, DeleteLevel, DeleteUser, TypeOK
  <2>3. CASE ProgressEdit
    <3>1. PICK v \in Users, n \in 1 .. MaxLevelId + 1 : SetUserProgressToLevel(v, n)
      BY <2>3 DEF ProgressEdit
    <3>2. v = u
      BY <3>1 DEF SetUserProgressToLevel, TypeOK
    <3> QED
      BY <3>1, <3>2 DEF SolvedBy
  <2> QED
    BY <2>1, <2>2, <2>3 DEF Next
<1>2. TypeOK /\ MatchSeen /\ [Next]_vars => [Earned]_vars
  BY <1>1
<1> QED
  BY <1>2, TypeCorrect, MatchSeenInvariant, PTL DEF Spec, EarnedSolve

-----------------------------------------------------------------------------
(* The steady campaign.  What a handler read stays valid while levels are     *)
(* only appended and reworded: that is what makes the gate's separate reads   *)
(* sound, and play linear.                                                    *)

\* What no step of a steady campaign does to a published level or to progress.
Stable ==
    /\ Levels \subseteq Levels'
    /\ \A l \in Levels : order'[l] = order[l]
    /\ \A l \in Levels, k \in Levels' \ Levels : order[l] < order'[k]
    /\ users' \subseteq users
    /\ \A u \in users' : solved[u] \subseteq solved'[u]

LowerSolved(u, l) == \A k \in Levels : order[k] < order[l] => k \in solved[u]

\* What the handler in slot r knows.
Knows(r) ==
    LET q == req[r] IN
    /\ Gated(q) => q.level \in Levels /\ q.orderIndex = order[q.level]
    /\ q.phase = "rank" /\ q.user \in users => q.current <= CurrentLevel(q.user)
    /\ q.phase = "admitted" /\ q.user \in users => LowerSolved(q.user, q.level)
    /\ q.phase = "rank" /\ Rank(q.orderIndex) <= q.current => witness[r].open
    /\ q.phase = "admitted" => witness[r].open
    /\ q.phase = "list" /\ q.user \in users => q.current <= CurrentLevel(q.user)
    /\ q.phase = "shown" /\ q.user \in users =>
         \A l \in q.shown : l \in Levels /\ IsLevelAccessible(q.user, l)

SteadyInv == TypeOK /\ Integrity /\ LinearPlay /\ \A r \in Requests : Knows(r)

LEMMA SteadyStepIsStep == TypeOK /\ [SteadyNext]_vars => [Next]_vars
<1> SUFFICES ASSUME TypeOK, SteadyNext
             PROVE  Next
  OBVIOUS
<1>1. CASE PlayerStep
  BY <1>1 DEF SteadyNext, Next
<1>2. ASSUME NEW o \in Orders, NEW f \in Flags, AppendLevel(o, f)
      PROVE  AnyEdit
  BY <1>2 DEF AppendLevel, AnyEdit
<1>3. ASSUME NEW l \in LevelIds, NEW f \in Flags, RewordLevel(l, f)
      PROVE  AnyEdit
  <2>1. order[l] \in Orders
    BY <1>3 DEF RewordLevel, UpdateLevel, TypeOK, Levels, Orders
  <2> QED
    BY <1>3, <2>1 DEF RewordLevel, AnyEdit
<1>4. ASSUME NEW u \in Users, DeleteUser(u)
      PROVE  AnyEdit
  BY <1>4 DEF AnyEdit
<1> QED
  BY <1>1, <1>2, <1>3, <1>4 DEF SteadyNext, SteadyEdit, Next

LEMMA SteadyBase == SteadySpec => [](TypeOK /\ Integrity)
<1>1. TypeOK /\ Integrity /\ [SteadyNext]_vars => (TypeOK /\ Integrity)'
  BY SteadyStepIsStep, NextType, NextIntegrity
<1> QED
  BY <1>1, InitType, InitIntegrity, PTL DEF SteadySpec

LEMMA SteadyStepIsStable == TypeOK /\ Integrity /\ (PlayerStep \/ SteadyEdit) => Stable
<1> SUFFICES ASSUME TypeOK, Integrity, PlayerStep \/ SteadyEdit
             PROVE  Stable
  OBVIOUS
<1>1. CASE PlayerStep
  <2>1. UNCHANGED <<users, order>>
    BY <1>1 DEF PlayerStep, SubmitFlag, ViewLevel, ListLevels, ReadCurrent, Gate,
                Judge, ReadList, Respond, Abort, content
  <2>2. \A u \in Users : solved[u] \subseteq solved'[u]
    BY <1>1 DEF PlayerStep, SubmitFlag, ViewLevel, ListLevels, ReadCurrent, Gate,
                Judge, RecordSolved, ReadList, Respond, Abort, TypeOK
  <2> QED
    BY <2>1, <2>2 DEF Stable, Levels, TypeOK
<1>2. ASSUME NEW o \in Orders, NEW f \in Flags, AppendLevel(o, f)
      PROVE  Stable
  <2>1. seq + 1 \in LevelIds \ Levels
    BY <1>2, BoundsAssumption
       DEF AppendLevel, CreateLevel, LevelIds, TypeOK, Integrity, IdsFromSequence
  <2>2. Levels' = Levels \cup {seq + 1}
    BY <1>2, <2>1 DEF AppendLevel, CreateLevel, Levels, TypeOK, Orders
  <2>3. /\ order'[seq + 1] = o
        /\ \A l \in Levels : order'[l] = order[l] /\ order[l] < o
    BY <1>2, <2>1 DEF AppendLevel, CreateLevel, Levels, TypeOK
  <2> QED
    BY <1>2, <2>2, <2>3 DEF AppendLevel, CreateLevel, Stable
<1>3. ASSUME NEW l \in LevelIds, NEW f \in Flags, RewordLevel(l, f)
      PROVE  Stable
  BY <1>3 DEF RewordLevel, UpdateLevel, Stable, Levels, TypeOK
<1>4. ASSUME NEW u \in Users, DeleteUser(u)
      PROVE  Stable
  BY <1>4 DEF DeleteUser, Stable, Levels, TypeOK, content
<1> QED
  BY <1>1, <1>2, <1>3, <1>4 DEF SteadyEdit

\* A stable step changes no published level's rank, and closes none.
LEMMA StableRank ==
    ASSUME TypeOK, TypeOK', Stable, NEW l \in Levels
    PROVE  /\ Rank(order[l])' = Rank(order[l])
           /\ \A u \in users' : IsLevelAccessible(u, l) => IsLevelAccessible(u, l)'
<1>1. order'[l] = order[l] /\ order[l] \in Nat
  BY BoundsAssumption DEF Stable, TypeOK, Levels
<1>2. UpTo(order[l])' = UpTo(order[l])
  <2>1. \A k \in Levels' : order'[k] \in Nat
    BY BoundsAssumption DEF TypeOK, Levels
  <2>2. \A k \in Levels' \ Levels : ~(order'[k] <= order[l])
    BY <1>1, <2>1 DEF Stable
  <2> QED
    BY <1>1, <2>2 DEF Stable, UpTo
<1>3. Rank(order[l])' = Rank(order[l])
  BY <1>2 DEF Rank, UpTo
<1>4. ASSUME NEW u \in users' PROVE CurrentLevel(u) <= CurrentLevel(u)'
  <2>1. u \in Users
    BY <1>4 DEF TypeOK
  <2>2. solved[u] \in SUBSET solved'[u] /\ solved'[u] \in SUBSET LevelIds
    BY <1>4, <2>1 DEF Stable, TypeOK
  <2>3. Cardinality(solved[u]) <= Cardinality(solved'[u])
    BY <2>2, SubsetCount
  <2>4. Cardinality(solved[u]) \in Nat /\ Cardinality(solved'[u]) \in Nat
    BY <2>2, LevelSetsAreFinite
  <2> QED
    BY <2>3, <2>4 DEF CurrentLevel
<1>5. /\ Rank(order[l]) \in Nat
      /\ \A u \in users' : CurrentLevel(u) \in Nat /\ CurrentLevel(u)' \in Nat
  <2>1. UpTo(order[l]) \in SUBSET LevelIds
    BY DEF UpTo, Levels
  <2>2. \A u \in users' : solved[u] \in SUBSET LevelIds /\ solved'[u] \in SUBSET LevelIds
    BY DEF TypeOK
  <2> QED
    BY <2>1, <2>2, LevelSetsAreFinite DEF Rank, UpTo, CurrentLevel
<1> QED
  BY <1>1, <1>3, <1>4, <1>5 DEF IsLevelAccessible

\* When the solved levels are a prefix, only the next level can be open and
\* unsolved: two levels beyond the prefix would have rank CurrentLevel + 1.
LEMMA AccessibleHasLowerSolved ==
    ASSUME TypeOK, NoOrphanProgress, LinearPlay, NEW u \in Users, NEW l \in Levels,
           IsLevelAccessible(u, l)
    PROVE  LowerSolved(u, l)
<1> SUFFICES ASSUME NEW k \in Levels, order[k] < order[l], k \notin solved[u]
             PROVE  FALSE
  BY DEF LowerSolved
<1>0. /\ Levels \in SUBSET LevelIds /\ solved[u] \in SUBSET Levels
      /\ \A j \in Levels : order[j] \in Nat
  BY BoundsAssumption DEF Levels, TypeOK, NoOrphanProgress
<1>1. l \notin solved[u]
  BY DEF LinearPlay
<1>2. \A j \in solved[u] : order[j] <= order[k]
  BY <1>0 DEF LinearPlay
<1> DEFINE S1 == solved[u] \cup {k}
           S2 == S1 \cup {l}
<1>3. S2 \in SUBSET UpTo(order[l]) /\ UpTo(order[l]) \in SUBSET LevelIds
  BY <1>0, <1>2 DEF UpTo
<1>4. k \in LevelIds \ solved[u] /\ l \in LevelIds \ S1 /\ S1 \in SUBSET LevelIds
  BY <1>0, <1>1
<1>5. Cardinality(S1) = Cardinality(solved[u]) + 1
  BY <1>0, <1>4, AddedCount
<1>6. Cardinality(S2) = Cardinality(S1) + 1
  BY <1>4, AddedCount
<1>7. Cardinality(S2) <= Cardinality(UpTo(order[l]))
  BY <1>3, SubsetCount
<1>8. Cardinality(solved[u]) \in Nat /\ Cardinality(UpTo(order[l])) \in Nat
  BY <1>0, <1>3, LevelSetsAreFinite
<1> QED
  BY <1>5, <1>6, <1>7, <1>8 DEF IsLevelAccessible, Rank, UpTo, CurrentLevel

\* Knowledge survives the steps of others.
LEMMA OthersKeepKnowledge ==
    ASSUME TypeOK, TypeOK', Stable, Observe, NEW r \in Requests, Knows(r),
           req'[r] = req[r]
    PROVE  Knows(r)'
<1> DEFINE q == req[r]
<1>1. Gated(q) => /\ q.level \in Levels /\ q.orderIndex = order[q.level]
                  /\ Rank(q.orderIndex)' = Rank(q.orderIndex)
                  /\ q.kind \in {"submit", "view"}
  BY StableRank DEF Knows, TypeOK, WellFormed, Gated, Stable
<1>2. q.phase # "idle" /\ q.user \in users' =>
        q.user \in users /\ CurrentLevel(q.user) <= CurrentLevel(q.user)'
  <2> SUFFICES ASSUME q.user \in users'
               PROVE  q.user \in users /\ CurrentLevel(q.user) <= CurrentLevel(q.user)'
    OBVIOUS
  <2>1. q.user \in users /\ q.user \in Users
    BY DEF Stable, TypeOK
  <2>2. /\ solved[q.user] \in SUBSET solved'[q.user]
        /\ solved[q.user] \in SUBSET LevelIds /\ solved'[q.user] \in SUBSET LevelIds
    BY <2>1 DEF Stable, TypeOK
  <2>3. Cardinality(solved[q.user]) <= Cardinality(solved'[q.user])
    BY <2>2, SubsetCount
  <2>4. Cardinality(solved[q.user]) \in Nat /\ Cardinality(solved'[q.user]) \in Nat
    BY <2>2, LevelSetsAreFinite
  <2> QED
    BY <2>1, <2>3, <2>4 DEF CurrentLevel
<1>3. q.current \in Nat /\ \A u \in Users : CurrentLevel(u) \in Nat /\ CurrentLevel(u)' \in Nat
  <2>1. \A u \in Users : solved[u] \in SUBSET LevelIds /\ solved'[u] \in SUBSET LevelIds
    BY DEF TypeOK
  <2>2. q.current \in Nat
    BY DEF TypeOK, RequestState
  <2> QED
    BY <2>1, <2>2, LevelSetsAreFinite DEF CurrentLevel
<1>4. users' \subseteq Users
  BY DEF TypeOK
<1>5. Gated(q) => (witness[r].open => witness'[r].open)
  BY <1>1 DEF Observe
<1>6. Gated(q) => q.level \in Levels' /\ q.orderIndex = order'[q.level]
  BY <1>1 DEF Stable
<1>7. q.phase \in {"rank", "list"} /\ q.user \in users' => q.current <= CurrentLevel(q.user)'
  BY <1>2, <1>3, <1>4 DEF Knows
<1>8. q.phase = "admitted" /\ q.user \in users' => LowerSolved(q.user, q.level)'
  <2> SUFFICES ASSUME q.phase = "admitted", q.user \in users', NEW k \in Levels',
                      order'[k] < order'[q.level]
               PROVE  k \in solved'[q.user]
    BY DEF LowerSolved
  <2>1. q.level \in Levels /\ LowerSolved(q.user, q.level) /\ order'[q.level] = order[q.level]
    BY <1>1, <1>2 DEF Knows, Gated, Stable
  <2>2. k \in Levels
    BY <2>1, BoundsAssumption DEF Stable, TypeOK, Levels
  <2> QED
    BY <2>1, <2>2 DEF LowerSolved, Stable
<1>9. q.phase = "shown" /\ q.user \in users' =>
        \A l \in q.shown : l \in Levels' /\ IsLevelAccessible(q.user, l)'
  BY <1>2, StableRank DEF Knows, Stable
<1> QED
  BY <1>1, <1>5, <1>6, <1>7, <1>8, <1>9 DEF Knows, Gated

\* A handler's own step gives it the knowledge its next phase relies on.
LEMMA ActorGainsKnowledge ==
    ASSUME TypeOK, TypeOK', Integrity, LinearPlay, Observe, NEW r \in Requests, Knows(r),
        \/ \E u \in Users, l \in LevelIds, a \in Answers : SubmitFlag(r, u, l, a)
        \/ \E u \in Users, l \in LevelIds : ViewLevel(r, u, l)
        \/ \E u \in Users : ListLevels(r, u)
        \/ ReadCurrent(r)
        \/ Gate(r)
        \/ Judge(r)
        \/ ReadList(r)
        \/ Respond(r)
        \/ Abort(r)
    PROVE  Knows(r)'
<1>0. req \in [Requests -> RequestState] /\ WellFormed(req[r])
  BY DEF TypeOK
<1>1. ASSUME NEW u \in Users, NEW l \in LevelIds, NEW a \in Answers, SubmitFlag(r, u, l, a)
      PROVE  Knows(r)'
  <2>1. /\ req'[r].phase = "current" /\ req'[r].level = l /\ req'[r].orderIndex = order[l]
        /\ l \in Levels /\ order' = order
    BY <1>0, <1>1 DEF SubmitFlag, Begin, Locals, content
  <2> QED
    BY <2>1 DEF Knows, Gated, Levels
<1>2. ASSUME NEW u \in Users, NEW l \in LevelIds, ViewLevel(r, u, l)
      PROVE  Knows(r)'
  <2>1. /\ req'[r].phase = "current" /\ req'[r].level = l /\ req'[r].orderIndex = order[l]
        /\ l \in Levels /\ order' = order
    BY <1>0, <1>2 DEF ViewLevel, Begin, Locals, content
  <2> QED
    BY <2>1 DEF Knows, Gated, Levels
<1>3. ASSUME NEW u \in Users, ListLevels(r, u)
      PROVE  Knows(r)'
  <2>1. /\ req'[r].phase = "list" /\ req'[r].user = u /\ req'[r].current = CurrentLevel(u)
        /\ CurrentLevel(u)' = CurrentLevel(u) /\ CurrentLevel(u) \in Nat
    BY <1>0, <1>3, CurrentLevelType DEF ListLevels, Begin, Locals, CurrentLevel
  <2> QED
    BY <2>1 DEF Knows, Gated
<1>4. CASE ReadCurrent(r)
  <2> DEFINE q == req[r]
  <2>1. /\ q.phase = "current" /\ q.user \in Users /\ q.level \in Levels
        /\ q.orderIndex = order[q.level] /\ q.kind \in {"submit", "view"}
    BY <1>0, <1>4 DEF ReadCurrent, Knows, Gated, WellFormed
  <2>2. /\ req'[r].phase = "rank" /\ req'[r].user = q.user /\ req'[r].level = q.level
        /\ req'[r].orderIndex = q.orderIndex /\ req'[r].current = CurrentLevel(q.user)
        /\ req'[r].kind = q.kind
    BY <1>0, <1>4 DEF ReadCurrent, RequestState
  <2>3. order' = order /\ solved' = solved /\ Levels' = Levels
    BY <1>4 DEF ReadCurrent, content, Levels
  <2>4. PICK u \in Users : u = q.user
    BY <2>1
  <2>5. CurrentLevel(u)' = CurrentLevel(u) /\ CurrentLevel(u) \in Nat
    BY <2>3, CurrentLevelType DEF CurrentLevel
  <2>6. /\ req'[r].user = u /\ req'[r].current = CurrentLevel(u)
        /\ req'[r].level \in Levels' /\ req'[r].orderIndex = order'[req'[r].level]
    BY <2>1, <2>2, <2>3, <2>4
  <2>7. Rank(req[r].orderIndex)' <= req'[r].current => OpenNow(r)'
    BY <2>5, <2>6 DEF OpenNow, IsLevelAccessible
  <2>8. OpenNow(r)' => witness'[r].open
    BY <2>1, <2>2 DEF Observe
  <2> QED
    BY <2>2, <2>5, <2>6, <2>7, <2>8 DEF Knows, Gated
<1>5. CASE Gate(r)
  <2> DEFINE q == req[r]
  <2>1. CASE Rank(q.orderIndex) <= q.current
    <3>1. /\ q.phase = "rank" /\ q.user \in Users /\ q.level \in Levels
          /\ q.orderIndex = order[q.level] /\ q.kind \in {"submit", "view"}
          /\ witness[r].open
      BY <1>0, <1>5, <2>1 DEF Gate, Knows, Gated, WellFormed
    <3>2. /\ req'[r].phase = "admitted" /\ req'[r].user = q.user
          /\ req'[r].level = q.level /\ req'[r].orderIndex = q.orderIndex
          /\ req'[r].kind = q.kind
      BY <1>0, <1>5, <2>1 DEF Gate, RequestState
    <3>3. users' = users /\ order' = order /\ solved' = solved /\ Levels' = Levels
      BY <1>5 DEF Gate, content, Levels
    <3>4. q.user \in users => IsLevelAccessible(q.user, q.level)
      <4>1. q.user \in users => q.current <= CurrentLevel(q.user)
        BY <3>1 DEF Knows
      <4>2. q.current \in Nat /\ CurrentLevel(q.user) \in Nat
        BY <1>0, <3>1, CurrentLevelType DEF RequestState
      <4>3. Rank(q.orderIndex) \in Nat
        BY LevelSetsAreFinite DEF Rank, Levels
      <4> QED
        BY <2>1, <3>1, <4>1, <4>2, <4>3 DEF IsLevelAccessible
    <3>5. q.user \in users => LowerSolved(q.user, q.level)
      BY <3>1, <3>4, AccessibleHasLowerSolved DEF Integrity
    <3>6. witness'[r].open
      BY <3>1, <3>2 DEF Observe
    <3> QED
      BY <3>1, <3>2, <3>3, <3>5, <3>6 DEF Knows, Gated, LowerSolved
  <2>2. CASE ~(Rank(q.orderIndex) <= q.current)
    BY <1>0, <1>5, <2>2 DEF Gate, Finish, Idle, Locals, Knows, Gated
  <2> QED
    BY <2>1, <2>2
<1>6. CASE ReadList(r)
  <2> DEFINE q == req[r]
  <2>1. PICK S \in SUBSET Levels :
            /\ IsLowest(S, q.current)
            /\ req' = [req EXCEPT ![r].phase = "shown", ![r].shown = S]
    BY <1>6 DEF ReadList
  <2>2. q.phase = "list" /\ q.user \in Users /\ q.current \in Nat
    BY <1>0, <1>6 DEF ReadList, WellFormed, RequestState
  <2>3. req'[r].phase = "shown" /\ req'[r].user = q.user /\ req'[r].shown = S
    BY <1>0, <2>1 DEF RequestState
  <2>4. users' = users /\ order' = order /\ solved' = solved /\ Levels' = Levels
    BY <1>6 DEF ReadList, content, Levels
  <2>5. \A l \in S : Rank(order[l]) <= q.current
    BY <2>1, <2>2, LowestByRank DEF Integrity
  <2>6. ASSUME q.user \in users, NEW l \in S
        PROVE  IsLevelAccessible(q.user, l)
    <3>1. q.current <= CurrentLevel(q.user) /\ CurrentLevel(q.user) \in Nat
      BY <2>2, <2>6, CurrentLevelType DEF Knows
    <3>2. Rank(order[l]) \in Nat
      BY LevelSetsAreFinite DEF Rank, Levels
    <3> QED
      BY <2>2, <2>5, <2>6, <3>1, <3>2 DEF IsLevelAccessible
  <2>7. PICK u \in Users : u = q.user
    BY <2>2
  <2>8. \A l \in S : u \in users => IsLevelAccessible(u, l)'
    BY <2>4, <2>6, <2>7 DEF IsLevelAccessible, Rank, CurrentLevel
  <2>9. req'[r].user = u
    BY <2>3, <2>7
  <2> QED
    BY <2>1, <2>3, <2>4, <2>8, <2>9 DEF Knows, Gated
<1>7. CASE Judge(r) \/ Respond(r) \/ Abort(r)
  BY <1>0, <1>7 DEF Judge, Respond, Abort, Finish, Idle, Locals, Knows, Gated
<1> QED
  BY <1>1, <1>2, <1>3, <1>4, <1>5, <1>6, <1>7

LEMMA LinearPlayStep ==
    ASSUME SteadyInv, PlayerStep \/ SteadyEdit, Stable, TypeOK'
    PROVE  LinearPlay'
<1> USE DEF SteadyInv
<1>1. CASE PlayerStep
  <2>1. UNCHANGED <<users, order>> /\ Levels' = Levels
    BY <1>1 DEF PlayerStep, SubmitFlag, ViewLevel, ListLevels, ReadCurrent, Gate,
                Judge, ReadList, Respond, Abort, content, Levels
  <2>2. CASE solved' = solved
    BY <2>1, <2>2 DEF LinearPlay
  <2>3. CASE solved' # solved
    <3>1. PICK r \in Requests : Judge(r)
      BY <1>1, <2>3 DEF PlayerStep, SubmitFlag, ViewLevel, ListLevels, ReadCurrent,
                  Gate, ReadList, Respond, Abort
    <3> DEFINE q == req[r]
    <3>2. /\ q.user \in users /\ q.level \in Levels /\ q.phase = "admitted"
          /\ solved' = [solved EXCEPT ![q.user] = @ \cup {q.level}]
      BY <2>3, <3>1 DEF Judge, RecordSolved
    <3>3. LowerSolved(q.user, q.level)
      BY <3>2 DEF Knows
    <3> HIDE DEF q
    <3>4. q.user \in Users /\ solved \in [Users -> SUBSET LevelIds]
      BY <3>2 DEF TypeOK
    <3> QED
      BY <2>1, <3>2, <3>3, <3>4 DEF LinearPlay, LowerSolved
  <2> QED
    BY <2>2, <2>3
<1>2. CASE SteadyEdit
  <2>1. \A u \in Users : solved'[u] \subseteq solved[u] /\ (u \in users' => solved'[u] = solved[u])
    BY <1>2 DEF SteadyEdit, AppendLevel, CreateLevel, RewordLevel, UpdateLevel,
                DeleteUser, TypeOK
  <2>2. \A u \in Users : solved'[u] = solved[u] \/ solved'[u] = {}
    BY <1>2 DEF SteadyEdit, AppendLevel, CreateLevel, RewordLevel, UpdateLevel,
                DeleteUser, TypeOK
  <2>3. SUFFICES ASSUME NEW u \in Users, NEW l \in solved'[u], NEW k \in Levels',
                        order'[k] < order'[l]
                 PROVE  k \in solved'[u]
    BY DEF LinearPlay
  <2>4. solved'[u] = solved[u] /\ l \in Levels
    BY <2>2, <2>3 DEF Integrity, NoOrphanProgress
  <2>5. k \in Levels
    BY <2>3, <2>4, BoundsAssumption DEF Stable, TypeOK, Levels
  <2> QED
    BY <2>3, <2>4, <2>5 DEF Stable, LinearPlay
<1> QED
  BY <1>1, <1>2

LEMMA SteadyInductive == SteadyInv /\ TypeOK' /\ Integrity' /\ [SteadyNext]_vars => SteadyInv'
<1>1. ASSUME SteadyInv, TypeOK', Integrity', SteadyNext
      PROVE  SteadyInv'
  <2>1. TypeOK /\ Integrity /\ LinearPlay /\ Observe /\ (PlayerStep \/ SteadyEdit)
    BY <1>1 DEF SteadyInv, SteadyNext
  <2>2. Stable
    BY <2>1, SteadyStepIsStable
  <2>3. LinearPlay'
    BY <1>1, <2>1, <2>2, LinearPlayStep
  <2>4. \A s \in Requests : Knows(s)'
    <3> SUFFICES ASSUME NEW s \in Requests
                 PROVE  Knows(s)'
      OBVIOUS
    <3>1. Knows(s)
      BY <1>1 DEF SteadyInv
    <3>2. CASE req'[s] = req[s]
      BY <1>1, <2>1, <2>2, <3>1, <3>2, OthersKeepKnowledge
    <3>3. CASE req'[s] # req[s]
      <4>1. ~SteadyEdit
        BY <3>3 DEF SteadyEdit, AppendLevel, CreateLevel, RewordLevel, UpdateLevel,
                    DeleteUser
      <4>2. PICK r \in Requests :
              \/ \E u \in Users, l \in LevelIds, a \in Answers : SubmitFlag(r, u, l, a)
              \/ \E u \in Users, l \in LevelIds : ViewLevel(r, u, l)
              \/ \E u \in Users : ListLevels(r, u)
              \/ ReadCurrent(r)
              \/ Gate(r)
              \/ Judge(r)
              \/ ReadList(r)
              \/ Respond(r)
              \/ Abort(r)
        BY <2>1, <4>1 DEF PlayerStep
      <4>3. r = s
        BY <2>1, <3>3, <4>2
           DEF SubmitFlag, ViewLevel, ListLevels, ReadCurrent, Gate, Judge, ReadList,
               Respond, Abort, Begin, Finish, TypeOK
      <4> QED
        BY <1>1, <2>1, <3>1, <4>2, <4>3, ActorGainsKnowledge
    <3> QED
      BY <3>2, <3>3
  <2> QED
    BY <1>1, <2>3, <2>4 DEF SteadyInv
<1>2. ASSUME SteadyInv, UNCHANGED vars
      PROVE  SteadyInv'
  <2>1. TypeOK' /\ Integrity'
    BY <1>2 DEF SteadyInv, vars, TypeOK, Integrity, NoOrphanProgress, UniqueOrder,
                IdsFromSequence, Levels
  <2>2. LinearPlay'
    BY <1>2 DEF SteadyInv, vars, LinearPlay, Levels
  <2>3. ASSUME NEW r \in Requests
        PROVE  Knows(r)'
    <3>1. Knows(r)
      BY <1>2 DEF SteadyInv
    <3> QED
      BY <1>2, <3>1 DEF vars, Knows, Gated, LowerSolved, Levels, IsLevelAccessible,
                        Rank, CurrentLevel
  <2> QED
    BY <2>1, <2>2, <2>3 DEF SteadyInv
<1> QED
  BY <1>1, <1>2

LEMMA SteadyInvariant == SteadySpec => []SteadyInv
<1>1. Init => SteadyInv
  <2> SUFFICES ASSUME Init
               PROVE  SteadyInv
    OBVIOUS
  <2>1. LinearPlay /\ \A r \in Requests : Knows(r)
    BY DEF Init, LinearPlay, Knows, Gated, Idle, Locals
  <2> QED
    BY <2>1, InitType, InitIntegrity DEF SteadyInv
<1> QED
  BY <1>1, SteadyBase, SteadyInductive, PTL DEF SteadySpec

\* While levels are only appended and reworded, every player's solved levels
\* are a prefix of the sequence, under every interleaving of submissions.
THEOREM PlayIsLinear == SteadySpec => []LinearPlay
BY SteadyInvariant, PTL DEF SteadyInv

\* ... and no handler passes the gate for a level that was never open to it.
THEOREM GateIsSound == SteadySpec => []GateSound
<1>1. SteadyInv => GateSound
  BY DEF SteadyInv, Knows, GateSound
<1> QED
  BY <1>1, SteadyInvariant, PTL

\* ... and no list shows a level that is still locked.
THEOREM ListsAreOpen == SteadySpec => []ListIsOpen
<1>1. SteadyInv => ListIsOpen
  BY DEF SteadyInv, Knows, ListIsOpen
<1> QED
  BY <1>1, SteadyInvariant, PTL

\* ... and a solved level stays open to the player who solved it.
THEOREM SolvedLevelsStayOpen == SteadySpec => []SolvedStayOpen
<1>1. SteadyInv => SolvedStayOpen
  <2> SUFFICES ASSUME SteadyInv, NEW u \in Users, NEW l \in solved[u]
               PROVE  IsLevelAccessible(u, l)
    BY DEF SolvedStayOpen
  <2>1. l \in Levels
    BY DEF SteadyInv, Integrity, NoOrphanProgress
  <2>2. \A k \in Levels : order[k] < order[l] => k \in solved[u]
    BY DEF SteadyInv, LinearPlay
  <2> QED
    BY <2>1, <2>2, LowerAllSolvedIsAccessible DEF SteadyInv, Integrity
<1> QED
  BY <1>1, SteadyInvariant, PTL

-----------------------------------------------------------------------------
(* Refinement of the line of stages. *)

stageOf == [u \in Users |-> Cardinality(solved[u])]

LEMMA StepMovesOnTheLine == SteadyInv /\ [SteadyNext]_vars => [Line!Next]_(Line!vars)
<1> USE DEF Line!Next, Line!vars, Line!Advance, Line!Publish, Line!Leave
<1> SUFFICES ASSUME SteadyInv, [SteadyNext]_vars
             PROVE  [Line!Next]_(Line!vars)
  OBVIOUS
<1>0. TypeOK /\ Integrity /\ Levels \in SUBSET LevelIds
  BY DEF SteadyInv, Levels
<1>1. CASE PlayerStep
  <2>1. users' = users /\ Levels' = Levels
    BY <1>1 DEF PlayerStep, SubmitFlag, ViewLevel, ListLevels, ReadCurrent, Gate,
                Judge, ReadList, Respond, Abort, content, Levels
  <2>2. CASE solved' = solved
    BY <2>1, <2>2
  <2>3. CASE solved' # solved
    <3>1. PICK u \in users, l \in Levels : solved' = [solved EXCEPT ![u] = @ \cup {l}]
      BY <1>1, <2>3 DEF PlayerStep, SubmitFlag, ViewLevel, ListLevels, ReadCurrent,
                  Gate, Judge, RecordSolved, ReadList, Respond, Abort
    <3>2. u \in Users /\ solved[u] \in SUBSET Levels /\ l \notin solved[u]
      BY <1>0, <2>3, <3>1 DEF TypeOK, Integrity, NoOrphanProgress
    <3>3. Cardinality(solved[u] \cup {l}) = Cardinality(solved[u]) + 1
      BY <1>0, <3>2, AddedCount
    <3>4. Cardinality(solved[u]) < Cardinality(Levels)
      <4>1. Cardinality(solved[u]) <= Cardinality(Levels) /\ solved[u] # Levels
        BY <1>0, <3>2, SubsetCount
      <4>2. Cardinality(solved[u]) # Cardinality(Levels)
        BY <1>0, <3>2, <4>1, SubsetCount
      <4>3. Cardinality(solved[u]) \in Nat /\ Cardinality(Levels) \in Nat
        BY <1>0, <3>2, LevelSetsAreFinite
      <4> QED
        BY <4>1, <4>2, <4>3
    <3>5. stageOf' = [stageOf EXCEPT ![u] = @ + 1]
      BY <1>0, <3>1, <3>2, <3>3 DEF stageOf, TypeOK
    <3>6. stageOf[u] < Cardinality(Levels)
      BY <3>2, <3>4 DEF stageOf
    <3> QED
      BY <2>1, <3>2, <3>5, <3>6 DEF stageOf
  <2> QED
    BY <2>2, <2>3
<1>2. ASSUME NEW o \in Orders, NEW f \in Flags, AppendLevel(o, f)
      PROVE  Line!Publish
  <2>1. seq + 1 \in LevelIds \ Levels
    BY <1>0, <1>2, BoundsAssumption
       DEF AppendLevel, CreateLevel, LevelIds, TypeOK, Integrity, IdsFromSequence
  <2>2. Levels' = Levels \cup {seq + 1}
    BY <1>0, <1>2, <2>1 DEF AppendLevel, CreateLevel, Levels, TypeOK, Orders
  <2>3. Cardinality(Levels') = Cardinality(Levels) + 1
    BY <1>0, <2>1, <2>2, AddedCount
  <2> QED
    BY <1>2, <2>3 DEF AppendLevel, CreateLevel
<1>3. ASSUME NEW l \in LevelIds, NEW f \in Flags, RewordLevel(l, f)
      PROVE  UNCHANGED Line!vars
  <2>1. Levels' = Levels
    BY <1>0, <1>3 DEF RewordLevel, UpdateLevel, Levels, TypeOK
  <2> QED
    BY <1>3, <2>1 DEF RewordLevel, UpdateLevel
<1>4. ASSUME NEW u \in Users, DeleteUser(u)
      PROVE  Line!Leave(u)
  <2>1. Levels' = Levels /\ users' = users \ {u} /\ u \in users
    BY <1>4 DEF DeleteUser, Levels, content
  <2>2. stageOf' = [stageOf EXCEPT ![u] = 0]
    BY <1>0, <1>4, FS_EmptySet DEF DeleteUser, stageOf, TypeOK
  <2> QED
    BY <2>1, <2>2 DEF stageOf
<1>5. CASE UNCHANGED vars
  BY <1>5 DEF vars, Levels
<1> QED
  BY <1>1, <1>2, <1>3, <1>4, <1>5 DEF SteadyNext, SteadyEdit

\* The steady campaign implements the line of stages: every step of the server
\* is a step of one player by one stage, a publication, a departure, or none.
THEOREM CampaignIsImplemented == SteadySpec => ImplementsCampaign
<1>1. Init => Line!Init
  <2> SUFFICES ASSUME Init
               PROVE  Line!Init
    OBVIOUS
  <2>1. Cardinality(Levels) \in Nat
    BY LevelSetsAreFinite DEF Levels
  <2>2. \A u \in Users : Cardinality(solved[u]) = 0
    BY FS_EmptySet DEF Init
  <2> QED
    BY <2>1, <2>2 DEF Init, Line!Init
<1> QED
  BY <1>1, StepMovesOnTheLine, SteadyInvariant, PTL
     DEF SteadySpec, ImplementsCampaign, Line!Spec
=============================================================================
