-------------------------------- MODULE Tables --------------------------------
(***************************************************************************)
(* The database as a value, and what the statements of the store and of    *)
(* the seed make of it.  A value of Databases is one snapshot of all the   *)
(* tables that transactions touch:                                         *)
(*   order, seq   levels.order_index by id (0: no such row), and the       *)
(*                AUTOINCREMENT counter of levels                          *)
(*   hints        the texts of each level, by order_index                  *)
(*   ties         tools.unlocks_at_level_id by id, up to the AUTOINCREMENT *)
(*                counter of tools (0 is NULL, NoTool: no such row)        *)
(*   role         users.role (Unborn: no such row yet, Gone: not any more) *)
(*   solved       user_progress                                            *)
(***************************************************************************)
EXTENDS Integers, Sequences, FiniteSets

CONSTANTS
    Users,
    Registered,  \* the accounts there are at the start
    MaxLevelId,  \* bound on levels.id
    MaxOrder,    \* bound on levels.order_index
    MaxTools,    \* bound on the tools.id the panel gives
    Texts,       \* hint texts
    Lists,       \* the hint lists an admin may send
    Keys,        \* level keys of seed files
    NoKey,       \* an empty level key; a tool that names no level
    Files,       \* the seed files
    Elsewhere    \* the single statements other handlers run meanwhile

LevelIds == 1 .. MaxLevelId
Orders == 1 .. MaxOrder
Roles == {"player", "admin"}
Gone == "gone"
Unborn == "unborn"
Untied == 0
NoTool == -1

\* A level of a seed file, and the file.
SeedLevel == [key : Keys \cup {NoKey}, order : Orders, hints : Seq(Texts)]
SeedFile == [levels : Seq(SeedLevel), tools : Seq(Keys \cup {NoKey})]

ASSUME TablesAssumption ==
    /\ MaxLevelId \in Nat /\ MaxOrder \in Nat /\ MaxTools \in Nat
    /\ NoKey \notin Keys
    /\ Registered \subseteq Users
    /\ Elsewhere \subseteq {"create level", "update level", "delete level",
                            "create tool", "update tool", "delete tool",
                            "create user", "delete user", "solve", "other"}
    /\ Lists \subseteq Seq(Texts)
    /\ Files \subseteq {f \in SeedFile : Len(f.levels) <= MaxLevelId}

Databases ==
    [order : [LevelIds -> 0 .. MaxOrder], seq : 0 .. MaxLevelId,
     hints : [LevelIds -> Seq(Texts)], ties : Seq(NoTool .. MaxLevelId),
     role : [Users -> Roles \cup {Gone, Unborn}], solved : [Users -> SUBSET LevelIds]]

\* After the migrations and some registrations.
Fresh ==
    [order |-> [l \in LevelIds |-> 0], seq |-> 0,
     hints |-> [l \in LevelIds |-> <<>>], ties |-> <<>>,
     role |-> [u \in Users |-> IF u \in Registered THEN "player" ELSE Unborn],
     solved |-> [u \in Users |-> {}]]

LevelsOf(d) == {l \in LevelIds : d.order[l] # 0}
UsersOf(d) == {u \in Users : d.role[u] \in Roles}
ToolsOf(d) == {t \in DOMAIN d.ties : d.ties[t] # NoTool}

\* What a tool may be tied to: the foreign key takes a level that is there.
MayTie(d) == LevelsOf(d) \cup {Untied}

\* The first n levels: ORDER BY order_index LIMIT n.
First(d, n) ==
    {l \in LevelsOf(d) :
        Cardinality({k \in LevelsOf(d) : d.order[k] <= d.order[l]}) <= n}

-----------------------------------------------------------------------------
(* Statements. *)

DeleteHints(d, l) == [d EXCEPT !.hints[l] = <<>>]
InsertHint(d, l, text) == [d EXCEPT !.hints[l] = Append(@, text)]
UpdateRole(d, u, r) == [d EXCEPT !.role[u] = r]
DeleteProgress(d, u) == [d EXCEPT !.solved[u] = {}]
InsertProgress(d, u, n) == [d EXCEPT !.solved[u] = First(d, n)]

\* INSERT INTO levels takes the next id of the sequence.
InsertLevel(d, o) == [d EXCEPT !.seq = @ + 1, !.order[d.seq + 1] = o]
UpdateLevel(d, l, o) == [d EXCEPT !.order[l] = o]

\* Mutant: no ON DELETE clause on hints and foreign keys off.
DeleteLevelKeepingHints(d, l) ==
    [order |-> [d.order EXCEPT ![l] = 0], seq |-> d.seq, hints |-> d.hints,
     ties |-> [t \in DOMAIN d.ties |-> IF d.ties[t] = l THEN Untied ELSE d.ties[t]],
     role |-> d.role, solved |-> [u \in Users |-> d.solved[u] \ {l}]]

\* Foreign keys: CASCADE takes hints and progress, SET NULL unties tools.
DeleteLevel(d, l) ==
    [order |-> [d.order EXCEPT ![l] = 0], seq |-> d.seq,
     hints |-> [d.hints EXCEPT ![l] = <<>>],
     ties |-> [t \in DOMAIN d.ties |-> IF d.ties[t] = l THEN Untied ELSE d.ties[t]],
     role |-> d.role, solved |-> [u \in Users |-> d.solved[u] \ {l}]]

\* INSERT INTO tools and INSERT INTO users take ids that were never used.
InsertTool(d, l) == [d EXCEPT !.ties = Append(@, l)]
UpdateTool(d, t, l) == [d EXCEPT !.ties[t] = l]
DeleteTool(d, t) == [d EXCEPT !.ties[t] = NoTool]
InsertUser(d, u, r) == [d EXCEPT !.role[u] = r]
DeleteUser(d, u) == [d EXCEPT !.role[u] = Gone, !.solved[u] = {}]
RecordSolved(d, u, l) == [d EXCEPT !.solved[u] = @ \cup {l}]

\* What one statement of another handler makes of d; d itself when it writes
\* rows that are not kept here (a title, a session).
FreeOrders(d) == {o \in Orders : \A k \in LevelsOf(d) : d.order[k] # o}
Created(d) ==
    IF d.seq < MaxLevelId THEN {InsertLevel(d, o) : o \in FreeOrders(d)} ELSE {}
Updated(d) == {UpdateLevel(d, l, o) : l \in LevelsOf(d), o \in FreeOrders(d)}
Solved(d) == {RecordSolved(d, u, l) : u \in UsersOf(d), l \in LevelsOf(d)}
WithoutLevel(d) == {DeleteLevel(d, l) : l \in LevelsOf(d)}
WithoutUser(d) == {DeleteUser(d, u) : u \in UsersOf(d)}
ToolCreated(d) ==
    IF Len(d.ties) < MaxTools THEN {InsertTool(d, l) : l \in MayTie(d)} ELSE {}
ToolUpdated(d) == {UpdateTool(d, t, l) : t \in ToolsOf(d), l \in MayTie(d)}
WithoutTool(d) == {DeleteTool(d, t) : t \in ToolsOf(d)}

\* Registration, or EnsureAdmin of a server that starts and finds no admin.
Newcomers(d) == {u \in Users : d.role[u] = Unborn}
FirstRoles(d) == {r \in Roles : r = "admin" => \A u \in Users : d.role[u] # "admin"}
UserCreated(d) == {InsertUser(d, u, r) : u \in Newcomers(d), r \in FirstRoles(d)}

When(statement, databases) == IF statement \in Elsewhere THEN databases ELSE {}
Edits(d) ==
    When("other", {d})
      \cup When("create level", Created(d)) \cup When("update level", Updated(d))
      \cup When("delete level", WithoutLevel(d))
      \cup When("create tool", ToolCreated(d)) \cup When("update tool", ToolUpdated(d))
      \cup When("delete tool", WithoutTool(d))
      \cup When("create user", UserCreated(d)) \cup When("delete user", WithoutUser(d))
      \cup When("solve", Solved(d))

\* Rows point at rows that exist, order_index is unique, ids come from the
\* sequence.
Integrity(d) ==
    /\ \A l \in LevelIds : l \notin LevelsOf(d) => d.hints[l] = <<>>
    /\ \A t \in ToolsOf(d) : d.ties[t] \in MayTie(d)
    /\ \A u \in Users : d.solved[u] \subseteq LevelsOf(d)
    /\ \A u \in Users : u \notin UsersOf(d) => d.solved[u] = {}
    /\ \A k, l \in LevelsOf(d) : d.order[k] = d.order[l] => k = l
    /\ \A l \in LevelsOf(d) : l <= d.seq

-----------------------------------------------------------------------------
(* The seed. *)

\* Mutant: the id counters are left alone.
WipeKeepingCounters(d) ==
    [d EXCEPT !.order = [l \in LevelIds |-> 0],
              !.hints = [l \in LevelIds |-> <<>>],
              !.ties = [t \in DOMAIN d.ties |-> NoTool],
              !.solved = [u \in Users |-> {}]]

\* hints, tools, levels (with the progress that hangs on them), id counters.
Wipe(d) ==
    [order |-> [l \in LevelIds |-> 0], seq |-> 0,
     hints |-> [l \in LevelIds |-> <<>>], ties |-> <<>>,
     role |-> d.role, solved |-> [u \in Users |-> {}]]

\* A level row, with the hints that follow it.
InsertSeedLevel(d, lv) ==
    [d EXCEPT !.seq = @ + 1, !.order[d.seq + 1] = lv.order,
              !.hints[d.seq + 1] = lv.hints]

\* levelID: the ids handed out from a counter that was reset are 1, 2, 3 ...
IdOf(f, k) ==
    IF k = NoKey THEN Untied
    ELSE CHOOSE l \in 1 .. Len(f.levels) : f.levels[l].key = k
=============================================================================
