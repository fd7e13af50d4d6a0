------------------------------- MODULE Progress -------------------------------
(***************************************************************************)
(* Levels, player progress and the access gate of the CrypticQuest server. *)
(*                                                                         *)
(* Every HTTP handler runs in a goroutine of its own and takes no lock: it *)
(* is a sequence of SQL statements on one SQLite database, and statements  *)
(* of other handlers run in between.  One action of this module is one     *)
(* statement (or one transaction) together with the Go code that follows   *)
(* it; what a handler remembers between two statements is in req.  An      *)
(* error response changes nothing, so 400 and 404 appear as guards.        *)
(***************************************************************************)
EXTENDS Integers, FiniteSets

CONSTANTS
    Users,       \* users.id of the accounts that exist at the start
    Nobody,      \* the user of a slot in which no handler runs
    Requests,    \* request slots: at most this many handlers run at once
    MaxLevelId,  \* bound on levels.id
    MaxOrder,    \* bound on levels.order_index (any positive int is valid)
    Flags,       \* flags an author may store; never the empty string
    Answers,     \* answers a player may post, the empty one included
    NoText,      \* in place of a flag or an answer where there is none
    Lower        \* strings.ToLower, a function on Flags \cup Answers

ASSUME BoundsAssumption == MaxLevelId \in Nat /\ MaxOrder \in Nat
ASSUME NullAssumption == Nobody \notin Users /\ NoText \notin Flags \cup Answers

LevelIds == 1 .. MaxLevelId
Orders == 1 .. MaxOrder

VARIABLES
    users,    \* ids of the rows of table users
    order,    \* levels.order_index by id; 0 where there is no such row
    flag,     \* levels.flag by id
    seq,      \* the AUTOINCREMENT counter of table levels
    solved,   \* user_progress: the level ids recorded for each user id
    req,      \* the local variables of the handler running in each slot
    witness   \* history, not code: what was true since the handler started

content == <<order, flag, seq>>
vars == <<users, order, flag, seq, solved, req, witness>>

Levels == {l \in LevelIds : order[l] # 0}

-----------------------------------------------------------------------------
(* The queries. *)

\* Mutants: the count taken as the level, and a sign slip.
CurrentLevelIsCount(u) == Cardinality(solved[u])
CurrentLevelMinusOne(u) == Cardinality(solved[u]) - 1

\* SELECT COUNT(*) FROM user_progress WHERE user_id = u, plus one.
CurrentLevel(u) == Cardinality(solved[u]) + 1

\* Mutant: order_index < o.
RankStrict(o) == Cardinality({l \in Levels : order[l] < o})

\* SELECT COUNT(*) FROM levels WHERE order_index <= o.
Rank(o) == Cardinality({l \in Levels : order[l] <= o})

\* What IsLevelAccessible computes when nothing runs between its two queries.
IsLevelAccessible(u, l) == Rank(order[l]) <= CurrentLevel(u)

\* S is a possible result of SELECT id FROM levels ORDER BY order_index LIMIT n.
IsLowest(S, n) ==
    /\ S \subseteq Levels
    /\ Cardinality(S) <= n
    /\ Cardinality(S) = n \/ S = Levels
    /\ \A l \in S, k \in Levels \ S : order[l] <= order[k]

-----------------------------------------------------------------------------
(* Requests.  phase is the statement the handler runs next:                *)
(*   current  - CurrentLevel, the first query of IsLevelAccessible         *)
(*   rank     - its second query, and the 403                              *)
(*   admitted - the gate let it pass: RecordSolved, or read and respond    *)
(*   list     - the SELECT ... LIMIT of ListAccessibleLevels               *)
(*   shown    - the list is read and about to be sent                      *)

Phases == {"idle", "current", "rank", "admitted", "list", "shown"}
Kinds == {"none", "submit", "view", "list"}

RequestState ==
    [phase : Phases, kind : Kinds, user : Users \cup {Nobody},
     level : 0 .. MaxLevelId, answer : Answers \cup {NoText},
     orderIndex : 0 .. MaxOrder, flag : Flags \cup {NoText},
     current : Nat, shown : SUBSET LevelIds]

Locals(p, k, u, l, a, o, f, c) ==
    [phase |-> p, kind |-> k, user |-> u, level |-> l, answer |-> a,
     orderIndex |-> o, flag |-> f, current |-> c, shown |-> {}]

Idle == Locals("idle", "none", Nobody, 0, NoText, 0, NoText, 0)

\* The locals that are set in each phase.
WellFormed(q) ==
    /\ q.phase = "idle" => q = Idle
    /\ q.phase # "idle" => q.user \in Users
    /\ q.phase \in {"current", "rank", "admitted"} =>
         /\ q.kind \in {"submit", "view"}
         /\ q.level \in LevelIds
         /\ q.orderIndex \in Orders
    /\ q.phase \in {"list", "shown"} => q.kind = "list"

Begin(r, start) == req[r].phase = "idle" /\ req' = [req EXCEPT ![r] = start]
Finish(r) == req' = [req EXCEPT ![r] = Idle]

\* POST /api/levels/{id}/submit up to the row LevelForSubmit returns.  The
\* account was read by RequireLogin and may be gone by now: u is any id.
SubmitFlag(r, u, l, a) ==
    /\ l \in Levels                                                  \* else 404
    /\ Begin(r, Locals("current", "submit", u, l, a, order[l], flag[l], 0))
    /\ UNCHANGED <<users, content, solved>>

\* GET of a level, its hints or one of its files, up to the row LevelByID
\* returns: the three handlers walk the same path to the gate.
ViewLevel(r, u, l) ==
    /\ l \in Levels                                                  \* else 404
    /\ Begin(r, Locals("current", "view", u, l, NoText, order[l], NoText, 0))
    /\ UNCHANGED <<users, content, solved>>

\* GET /api/levels up to the count CurrentLevel returns.
ListLevels(r, u) ==
    /\ Begin(r, Locals("list", "list", u, 0, NoText, 0, NoText, CurrentLevel(u)))
    /\ UNCHANGED <<users, content, solved>>

\* First query of IsLevelAccessible.
ReadCurrent(r) ==
    /\ req[r].phase = "current"
    /\ req' = [req EXCEPT ![r].phase = "rank",
                          ![r].current = CurrentLevel(req[r].user)]
    /\ UNCHANGED <<users, content, solved>>

\* Mutants: no return after the 403; rank <= current + 1.
GateWithoutReturn(r) ==
    /\ req[r].phase = "rank"
    /\ req' = [req EXCEPT ![r].phase = "admitted"]
    /\ UNCHANGED <<users, content, solved>>
GateOneTooFar(r) ==
    /\ req[r].phase = "rank"
    /\ IF Rank(req[r].orderIndex) <= req[r].current + 1
         THEN req' = [req EXCEPT ![r].phase = "admitted"]
         ELSE Finish(r)
    /\ UNCHANGED <<users, content, solved>>

\* Second query, on the order_index the handler read at the start.
Gate(r) ==
    /\ req[r].phase = "rank"
    /\ IF Rank(req[r].orderIndex) <= req[r].current
         THEN req' = [req EXCEPT ![r].phase = "admitted"]
         ELSE Finish(r)                                              \* 403
    /\ UNCHANGED <<users, content, solved>>

Correct(r) == Lower[req[r].answer] = Lower[req[r].flag]

\* Mutant: foreign keys off, as on a connection without the PRAGMA.
RecordSolvedUnchecked(u, l) == solved' = [solved EXCEPT ![u] = @ \cup {l}]

\* INSERT OR IGNORE: a row already there is ignored, a missing user or level
\* is a foreign key error, which OR IGNORE does not cover.
RecordSolved(u, l) ==
    solved' = IF u \in users /\ l \in Levels
                THEN [solved EXCEPT ![u] = @ \cup {l}]
                ELSE solved                                          \* 500

\* The end of SubmitFlag: compare, record, respond.
Judge(r) ==
    /\ req[r].phase = "admitted" /\ req[r].kind = "submit"
    /\ IF Correct(r) THEN RecordSolved(req[r].user, req[r].level)
                     ELSE UNCHANGED solved
    /\ Finish(r)
    /\ UNCHANGED <<users, content>>

\* Mutant: LIMIT current + 1.
ReadListOneMore(r) ==
    /\ req[r].phase = "list"
    /\ \E S \in SUBSET Levels :
         /\ IsLowest(S, req[r].current + 1)
         /\ req' = [req EXCEPT ![r].phase = "shown", ![r].shown = S]
    /\ UNCHANGED <<users, content, solved>>

\* The second query of ListAccessibleLevels.
ReadList(r) ==
    /\ req[r].phase = "list"
    /\ \E S \in SUBSET Levels :
         /\ IsLowest(S, req[r].current)
         /\ req' = [req EXCEPT ![r].phase = "shown", ![r].shown = S]
    /\ UNCHANGED <<users, content, solved>>

\* The response of an admitted view, or of a list.
Respond(r) ==
    /\ \/ req[r].phase = "shown"
       \/ req[r].phase = "admitted" /\ req[r].kind = "view"
    /\ Finish(r)
    /\ UNCHANGED <<users, content, solved>>

\* A statement fails (500), the handler panics, or the process dies.
Abort(r) ==
    /\ req[r].phase # "idle"
    /\ Finish(r)
    /\ UNCHANGED <<users, content, solved>>

-----------------------------------------------------------------------------
(* The admin panel. *)

\* Mutant: INTEGER PRIMARY KEY without AUTOINCREMENT takes max(id) + 1.
CreateLevelReusingId(o, f) ==
    /\ \A k \in Levels : order[k] # o
    /\ \E l \in LevelIds :
         /\ \A k \in Levels : k < l
         /\ l = 1 \/ l - 1 \in Levels
         /\ seq' = l
         /\ order' = [order EXCEPT ![l] = o]
         /\ flag' = [flag EXCEPT ![l] = f]
    /\ UNCHANGED <<users, solved, req>>

\* INSERT INTO levels: the id comes from AUTOINCREMENT, so the panel never
\* reuses one.  (The seed, which resets the counter, is in module Transactions.)
CreateLevel(o, f) ==
    /\ seq < MaxLevelId
    /\ \A k \in Levels : order[k] # o                                \* else 409
    /\ seq' = seq + 1
    /\ order' = [order EXCEPT ![seq + 1] = o]
    /\ flag' = [flag EXCEPT ![seq + 1] = f]
    /\ UNCHANGED <<users, solved, req>>

UpdateLevel(l, o, f) ==
    /\ l \in Levels                                                  \* else 404
    /\ \A k \in Levels \ {l} : order[k] # o                          \* else 409
    /\ order' = [order EXCEPT ![l] = o]
    /\ flag' = [flag EXCEPT ![l] = f]
    /\ UNCHANGED <<users, seq, solved, req>>

\* Mutant: no ON DELETE CASCADE on user_progress.
DeleteLevelKeepingProgress(l) ==
    /\ l \in Levels
    /\ order' = [order EXCEPT ![l] = 0]
    /\ flag' = [flag EXCEPT ![l] = NoText]
    /\ UNCHANGED <<users, seq, solved, req>>

\* ON DELETE CASCADE takes the progress rows of the level.
DeleteLevel(l) ==
    /\ l \in Levels                                                  \* else 404
    /\ order' = [order EXCEPT ![l] = 0]
    /\ flag' = [flag EXCEPT ![l] = NoText]
    /\ solved' = [u \in Users |-> solved[u] \ {l}]
    /\ UNCHANGED <<users, seq, req>>

\* One transaction: clear the progress of u, insert the first n - 1 levels.
SetUserProgressToLevel(u, n) ==
    /\ u \in users                                                   \* else 404
    /\ n >= 1                                                        \* else 400
    /\ \E S \in SUBSET Levels :
         /\ IsLowest(S, n - 1)
         /\ solved' = [solved EXCEPT ![u] = S]
    /\ UNCHANGED <<users, content, req>>

\* ON DELETE CASCADE takes the progress rows of the user.
DeleteUser(u) ==
    /\ u \in users                                                   \* else 404
    /\ users' = users \ {u}
    /\ solved' = [solved EXCEPT ![u] = {}]
    /\ UNCHANGED <<content, req>>

-----------------------------------------------------------------------------
(* History.  A handler may answer from any state it ran in, so a gate is    *)
(* sound when the level was open at some moment since the handler started,  *)
(* and a solve is earned when the row it names, and not a later one with    *)
(* the same id, carried a flag that matches the answer.                     *)

OpenNow(r) ==
    /\ req[r].level \in Levels
    /\ IsLevelAccessible(req[r].user, req[r].level)

MatchesNow(r) ==
    /\ req[r].level \in Levels
    /\ Lower[req[r].answer] = Lower[flag[req[r].level]]

Unseen == [open |-> FALSE, matched |-> FALSE]

Observe ==
    witness' = [r \in Requests |->
        IF req'[r].kind \notin {"submit", "view"} THEN Unseen
        ELSE [open |-> witness[r].open \/ OpenNow(r)',
              matched |-> /\ req'[r].kind = "submit"
                          /\ \/ witness[r].matched /\ req'[r].level \in Levels'
                             \/ MatchesNow(r)']]

-----------------------------------------------------------------------------
(* Any content may have been authored before the first player logs in. *)
Init ==
    /\ users = Users
    /\ seq \in 0 .. MaxLevelId
    /\ order \in [LevelIds -> 0 .. MaxOrder]
    /\ \A l \in LevelIds : l > seq => order[l] = 0
    /\ \A k, l \in Levels : order[k] = order[l] => k = l
    /\ flag \in [LevelIds -> Flags \cup {NoText}]
    /\ \A l \in LevelIds : flag[l] = NoText <=> l \notin Levels
    /\ solved = [u \in Users |-> {}]
    /\ req = [r \in Requests |-> Idle]
    /\ witness = [r \in Requests |-> Unseen]

PlayerStep ==
    \E r \in Requests :
      \/ \E u \in Users, l \in LevelIds, a \in Answers : SubmitFlag(r, u, l, a)
      \/ \E u \in Users, l \in LevelIds : ViewLevel(r, u, l)
      \/ \E u \in Users : ListLevels(r, u)
      \/ ReadCurrent(r)
      \/ Gate(r)
      \/ Judge(r)
      \/ ReadList(r)
      \/ Respond(r)
      \/ Abort(r)

\* Edits that leave the published sequence alone: append, reword.
AppendLevel(o, f) == (\A k \in Levels : order[k] < o) /\ CreateLevel(o, f)
RewordLevel(l, f) == UpdateLevel(l, order[l], f)

SteadyEdit ==
    \/ \E o \in Orders, f \in Flags : AppendLevel(o, f)
    \/ \E l \in LevelIds, f \in Flags : RewordLevel(l, f)
    \/ \E u \in Users : DeleteUser(u)

ProgressEdit ==
    \E u \in Users, n \in 1 .. MaxLevelId + 1 : SetUserProgressToLevel(u, n)

AnyEdit ==
    \/ \E o \in Orders, f \in Flags : CreateLevel(o, f)
    \/ \E l \in LevelIds, o \in Orders, f \in Flags : UpdateLevel(l, o, f)
    \/ \E l \in LevelIds : DeleteLevel(l)
    \/ \E u \in Users : DeleteUser(u)

\* Everything the server lets an admin do.
Next == (PlayerStep \/ AnyEdit \/ ProgressEdit) /\ Observe
Spec == Init /\ [][Next]_vars

\* A campaign whose published levels keep their places.
SteadyNext == (PlayerStep \/ SteadyEdit) /\ Observe
SteadySpec == Init /\ [][SteadyNext]_vars

\* A campaign of which the panel does nothing but move and reword levels.
MoveEdit == \E l \in LevelIds, o \in Orders, f \in Flags : UpdateLevel(l, o, f)
MoveNext == (PlayerStep \/ MoveEdit) /\ Observe
MoveSpec == Init /\ [][MoveNext]_vars

-----------------------------------------------------------------------------
(* Properties. *)

WitnessType == [open : BOOLEAN, matched : BOOLEAN]

\* Every table and every handler's locals hold values of their columns' and
\* variables' types.
TypeOK ==
    /\ users \subseteq Users
    /\ order \in [LevelIds -> 0 .. MaxOrder]
    /\ flag \in [LevelIds -> Flags \cup {NoText}]
    /\ seq \in 0 .. MaxLevelId
    /\ solved \in [Users -> SUBSET LevelIds]
    /\ req \in [Requests -> {q \in RequestState : WellFormed(q)}]
    /\ witness \in [Requests -> WitnessType]

NoOrphanProgress ==
    \A u \in Users : solved[u] \subseteq Levels /\ (u \notin users => solved[u] = {})
UniqueOrder == \A k, l \in Levels : order[k] = order[l] => k = l
IdsFromSequence == \A l \in Levels : l <= seq

\* The schema's promises survive every interleaving of player and admin
\* statements: progress rows point at rows that exist, no two levels share an
\* order_index, ids never run ahead of the sequence.
Integrity == NoOrphanProgress /\ UniqueOrder /\ IdsFromSequence

\* Whatever the admins do to the content, a player who has not solved every
\* level has an unsolved level to work on: the gate never closes the campaign.
NeverStuck ==
    \A u \in Users : Levels # solved[u] =>
        \E l \in Levels \ solved[u] : IsLevelAccessible(u, l)

\* The list and the gate, written as two different queries, agree: "the first
\* `current` levels" are exactly those IsLevelAccessible accepts.
ListMatchesGate ==
    \A u \in Users, S \in SUBSET Levels :
        IsLowest(S, CurrentLevel(u)) =>
            S = {l \in Levels : IsLevelAccessible(u, l)}

\* What may record level l for player u: a panel rewrite, or a submission whose
\* answer matched that very level's flag while it ran.
SolvedBy(u, l) ==
    \/ \E n \in 1 .. MaxLevelId + 1 : SetUserProgressToLevel(u, n)
    \/ \E r \in Requests :
         /\ req[r].kind = "submit" /\ req[r].user = u /\ req[r].level = l
         /\ witness[r].matched

\* A level enters a player's progress only by a panel rewrite or by a
\* submission whose answer matched that very level's flag while it ran, however
\* the panel edits, deletes or replaces the level in the meantime.  (A seed run
\* next to a serving server hands out ids again; it is not among the steps.)
EarnedSolve ==
    [][\A u \in Users : \A l \in solved'[u] \ solved[u] : SolvedBy(u, l)]_vars

\* Solved levels form a prefix of the sequence: play is strictly linear.
LinearPlay ==
    \A u \in Users : \A l \in solved[u], k \in Levels :
        order[k] < order[l] => k \in solved[u]

\* A solved level stays open to the player who solved it.
SolvedStayOpen ==
    \A u \in Users : \A l \in solved[u] : IsLevelAccessible(u, l)

\* A handler is let past the gate only for a level that was open to its player
\* at some moment while the handler ran.
GateSound ==
    \A r \in Requests : req[r].phase = "admitted" => witness[r].open

\* A list about to be sent shows no level still locked for its player.  Submissions,
\* publications and account removals since the count was read do not change that;
\* moves, insertions in front, deletions and rewrites of the progress may.
ListIsOpen ==
    \A r \in Requests : req[r].phase = "shown" /\ req[r].user \in users =>
        \A l \in req[r].shown : IsLevelAccessible(req[r].user, l)

\* The steady campaign implements the line of stages a player expects: each
\* solve moves one present player exactly one stage forward, under every
\* interleaving of submissions, reads, publications and account removals.
Line == INSTANCE Campaign WITH
    players <- users,
    published <- Cardinality(Levels),
    stage <- [u \in Users |-> Cardinality(solved[u])]

ImplementsCampaign == Line!Spec
=============================================================================
