--------------------------------- MODULE Tools ---------------------------------
(***************************************************************************)
(* The toolkit next to the levels and the progress it depends on.  A tool  *)
(* may be tied to one level; the player's list and the gate in front of    *)
(* the tool files are two queries over the same two tables.                *)
(*                                                                         *)
(* Everything the module Progress does goes on as it is, with the foreign  *)
(* key of table tools acting on every deletion of a level.                 *)
(***************************************************************************)
EXTENDS Progress

CONSTANTS
    MaxToolId,   \* bound on tools.id
    Paths        \* tools.content: paths of tool files, or links

ASSUME ToolAssumption == MaxToolId \in Nat /\ NoText \notin Paths

ToolIds == 1 .. MaxToolId
Untied == 0      \* unlocks_at_level_id IS NULL

VARIABLES
    path,        \* tools.content by id; NoText where there is no such row
    unlocksAt,   \* tools.unlocks_at_level_id by id
    toolSeq      \* the AUTOINCREMENT counter of table tools

toolTable == <<path, unlocksAt, toolSeq>>
allVars == <<vars, toolTable>>

ToolRows == {t \in ToolIds : path[t] # NoText}

-----------------------------------------------------------------------------
(* The two queries. *)

\* GET /api/tools.
UnlockedTools(u) ==
    {t \in ToolRows : unlocksAt[t] = Untied \/ unlocksAt[t] \in solved[u]}

\* Mutant: the NULL branch forgotten.
TiedFileUnlocked(u, p) ==
    \E t \in ToolRows : path[t] = p /\ unlocksAt[t] \in solved[u]

\* The gate of GET /files/tools/{path...}.
IsToolFileUnlocked(u, p) ==
    \E t \in ToolRows :
        path[t] = p /\ (unlocksAt[t] = Untied \/ unlocksAt[t] \in solved[u])

-----------------------------------------------------------------------------
(* The admin panel. *)

\* Mutant: INTEGER PRIMARY KEY without AUTOINCREMENT takes max(id) + 1.
CreateToolReusingId(p, l) ==
    /\ l = Untied \/ l \in Levels
    /\ \E t \in ToolIds :
         /\ \A k \in ToolRows : k < t
         /\ t = 1 \/ t - 1 \in ToolRows
         /\ path' = [path EXCEPT ![t] = p]
         /\ unlocksAt' = [unlocksAt EXCEPT ![t] = l]
    /\ UNCHANGED <<toolSeq, vars>>

\* INSERT INTO tools: the id comes from AUTOINCREMENT.
CreateTool(p, l) ==
    /\ toolSeq < MaxToolId
    /\ l = Untied \/ l \in Levels                                    \* else 400
    /\ toolSeq' = toolSeq + 1
    /\ path' = [path EXCEPT ![toolSeq + 1] = p]
    /\ unlocksAt' = [unlocksAt EXCEPT ![toolSeq + 1] = l]
    /\ UNCHANGED vars

\* Mutant: the WHERE clause lost, every tool takes the new level.
UpdateToolEverywhere(t, p, l) ==
    /\ t \in ToolRows
    /\ l = Untied \/ l \in Levels
    /\ path' = [path EXCEPT ![t] = p]
    /\ unlocksAt' = [s \in ToolIds |-> IF s \in ToolRows THEN l ELSE unlocksAt[s]]
    /\ UNCHANGED <<toolSeq, vars>>

UpdateTool(t, p, l) ==
    /\ t \in ToolRows                                                \* else 404
    /\ l = Untied \/ l \in Levels                                    \* else 400
    /\ path' = [path EXCEPT ![t] = p]
    /\ unlocksAt' = [unlocksAt EXCEPT ![t] = l]
    /\ UNCHANGED <<toolSeq, vars>>

\* Nothing references a tool, so a delete is never refused.
DeleteTool(t) ==
    /\ t \in ToolRows                                                \* else 404
    /\ path' = [path EXCEPT ![t] = NoText]
    /\ unlocksAt' = [unlocksAt EXCEPT ![t] = Untied]
    /\ UNCHANGED <<toolSeq, vars>>

\* Mutant: no ON DELETE clause and foreign keys off.
KeepTies == UNCHANGED unlocksAt

\* ON DELETE SET NULL.
SetNull ==
    unlocksAt' = [t \in ToolIds |->
                    IF unlocksAt[t] \in Levels' THEN unlocksAt[t] ELSE Untied]

-----------------------------------------------------------------------------
ToolsInit ==
    /\ Init
    /\ path = [t \in ToolIds |-> NoText]
    /\ unlocksAt = [t \in ToolIds |-> Untied]
    /\ toolSeq = 0

LevelStep == Next /\ SetNull /\ UNCHANGED <<path, toolSeq>>

ToolStep ==
    \/ \E p \in Paths, l \in 0 .. MaxLevelId : CreateTool(p, l)
    \/ \E t \in ToolIds, p \in Paths, l \in 0 .. MaxLevelId : UpdateTool(t, p, l)
    \/ \E t \in ToolIds : DeleteTool(t)

ToolsNext == LevelStep \/ ToolStep
ToolsSpec == ToolsInit /\ [][ToolsNext]_allVars

-----------------------------------------------------------------------------
(* Properties. *)

\* Columns hold values of their types, and ids come from the sequence.
ToolsTypeOK ==
    /\ path \in [ToolIds -> Paths \cup {NoText}]
    /\ unlocksAt \in [ToolIds -> 0 .. MaxLevelId]
    /\ toolSeq \in 0 .. MaxToolId
    /\ \A t \in ToolRows : t <= toolSeq

\* A tool is tied to a level that exists, or to none, however tool writes and
\* level deletions interleave.
NoDanglingTie == \A t \in ToolIds : unlocksAt[t] \in Levels \cup {Untied}

Rewritten(t) == \E p \in Paths, l \in 0 .. MaxLevelId : UpdateTool(t, p, l)

\* A file a player may download stays open to them until the panel edits or
\* deletes the tool that opened it, rewrites their progress or removes them.  In
\* particular the deletion of a level, which takes the solve (CASCADE) and the
\* tie (SET NULL) at once, never closes a file.
FilesKept ==
    [][\A u \in Users, p \in Paths :
         IsToolFileUnlocked(u, p) /\ ~IsToolFileUnlocked(u, p)' =>
           \/ \E t \in ToolRows : path[t] = p /\ (DeleteTool(t) \/ Rewritten(t))
           \/ \E n \in 1 .. MaxLevelId + 1 : SetUserProgressToLevel(u, n)
           \/ DeleteUser(u)]_allVars

Opening(u, t) == t \in UnlockedTools(u)' \ UnlockedTools(u)

\* The panel wrote this very tool.
Edited(t) == t \notin ToolRows \/ Rewritten(t)

\* A tool opens to a player only when they solve the level it is tied to, when
\* the panel rewrites their progress to take that level in, when the panel edits
\* that tool, or when the level it is tied to is deleted.
ToolsEarned ==
    [][\A u \in Users, t \in ToolIds : Opening(u, t) =>
         \/ Edited(t)
         \/ unlocksAt[t] \in solved'[u] /\ SolvedBy(u, unlocksAt[t])
         \/ unlocksAt[t] \notin Levels']_allVars

\* The tables as the transactions of other modules see them, and the statements
\* those modules let the rest of the server run.
Rows ==
    [order |-> order, seq |-> seq, hints |-> [l \in LevelIds |-> <<>>],
     ties |-> [t \in 1 .. toolSeq |-> IF t \in ToolRows THEN unlocksAt[t] ELSE -1],
     role |-> [u \in Users |-> IF u \in users THEN "player" ELSE "gone"],
     solved |-> solved]

Db == INSTANCE Tables WITH
    Registered <- Users, Texts <- {}, Lists <- {}, Keys <- {}, NoKey <- NoText,
    Files <- {}, MaxTools <- MaxToolId,
    Elsewhere <- {"create level", "update level", "delete level", "create tool",
                  "update tool", "delete tool", "create user", "delete user",
                  "solve", "other"}

\* Each step here, of players, levels and tools, is one of the statements that
\* Transactions lets the rest of the server run, with the same foreign keys and
\* the same ids, or the whole of SetUserProgressToLevel, which is one step of the
\* store that the transactions implement.  (The statements on accounts are in
\* AccountStatements.)
SameStatements ==
    [][\/ Rows' \in Db!Edits(Rows)
       \/ \E u \in users, n \in 0 .. MaxLevelId :
            Rows' = Db!InsertProgress(Db!DeleteProgress(Rows, u), u, n)]_allVars
=============================================================================
