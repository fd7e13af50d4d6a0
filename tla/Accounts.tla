------------------------------- MODULE Accounts -------------------------------
(***************************************************************************)
(* Accounts, credentials, sessions and the admin panel's user operations.  *)
(*                                                                         *)
(* As in Progress, an action is one SQL statement and the Go code behind   *)
(* it, and req holds what a handler remembers between two statements: the  *)
(* user row Login read before it checks the password, the user row         *)
(* RequireAdmin read before an admin handler runs.                         *)
(*                                                                         *)
(* A secret is a password together with its bcrypt hash, and CheckPassword *)
(* is equality; secrets are numbered in the order they were chosen, 0 is   *)
(* the configured ADMIN_PASSWORD.  Tokens are numbered as they are drawn   *)
(* from crypto/rand, which never repeats one.                              *)
(***************************************************************************)
EXTENDS Integers, FiniteSets

CONSTANTS
    Names,           \* usernames
    AdminName,       \* ADMIN_USERNAME
    NoName,          \* the name of an id that has no row
    Requests,        \* request slots
    MaxUserId,       \* bound on users.id
    MaxSecret,       \* bound on the passwords chosen
    MaxToken         \* bound on the session tokens drawn

ASSUME BoundsAssumption ==
    MaxUserId \in Nat /\ MaxSecret \in Nat /\ MaxToken \in Nat
ASSUME NameAssumption == AdminName \in Names /\ NoName \notin Names

UserIds == 1 .. MaxUserId
Tokens == 1 .. MaxToken
Secrets == 0 .. MaxSecret
Roles == {"player", "admin"}

VARIABLES
    up,        \* the server is listening
    role,      \* users.role by id; "none" where there is no such row
    name,      \* users.username by id
    secret,    \* users.password_hash by id
    seq,       \* the AUTOINCREMENT counter of table users
    chosen,    \* number of passwords chosen so far
    session,   \* sessions.user_id by token; 0 where there is no such row
    drawn,     \* number of tokens drawn so far
    req,       \* the local variables of the handler running in each slot
    proof,     \* history: the secret each session was opened with
    late,      \* history: sessions opened with a secret already replaced
    cutShort   \* history: users whose last reset failed between its statements

userTable == <<role, name, secret, seq, chosen>>
sessionTable == <<session, drawn, proof, late>>
vars == <<up, role, name, secret, seq, chosen, session, drawn, req, proof,
          late, cutShort>>

Exists(u) == role[u] # "none"
Live(t) == session[t] # 0
Taken(n) == \E u \in UserIds : Exists(u) /\ name[u] = n
HasAdmin == \E u \in UserIds : role[u] = "admin"

-----------------------------------------------------------------------------
(* Requests.  phase is the statement the handler runs next:                *)
(*   login - CreateSession, after the password was checked                 *)
(*   admin - the panel operation, after RequireAdmin let actor in          *)
(*   purge - DeleteUserSessions, after UpdatePasswordHash                  *)

RequestState ==
    [phase : {"idle", "login", "admin", "purge"},
     actor : 0 .. MaxUserId, target : 0 .. MaxUserId, secret : Secrets]

Locals(p, a, t, s) == [phase |-> p, actor |-> a, target |-> t, secret |-> s]
Idle == Locals("idle", 0, 0, 0)

WellFormed(q) ==
    /\ q.phase = "idle" => q = Idle
    /\ q.phase \in {"login", "admin", "purge"} => q.actor \in UserIds
    /\ q.phase = "purge" => q.target \in UserIds

Begin(r, start) == up /\ req[r].phase = "idle" /\ req' = [req EXCEPT ![r] = start]
Finish(r) == req' = [req EXCEPT ![r] = Idle]

\* Clears the rows of u in table sessions.
WithoutUser(u) == [t \in Tokens |-> IF session[t] = u THEN 0 ELSE session[t]]

-----------------------------------------------------------------------------
(* Public routes. *)

\* Mutant: INTEGER PRIMARY KEY without AUTOINCREMENT takes max(id) + 1.
RegisterReusingId(n) ==
    /\ up
    /\ chosen < MaxSecret
    /\ ~Taken(n)
    /\ \E u \in UserIds :
         /\ \A v \in UserIds : Exists(v) => v < u
         /\ \A v \in UserIds : v < u => \E w \in UserIds : v <= w /\ Exists(w)
         /\ seq' = IF u > seq THEN u ELSE seq
         /\ role' = [role EXCEPT ![u] = "player"]
         /\ name' = [name EXCEPT ![u] = n]
         /\ secret' = [secret EXCEPT ![u] = chosen + 1]
    /\ chosen' = chosen + 1
    /\ UNCHANGED <<up, sessionTable, req, cutShort>>

\* The UNIQUE constraint makes check and insert one statement.
Register(n) ==
    /\ up
    /\ seq < MaxUserId /\ chosen < MaxSecret
    /\ ~Taken(n)                                                     \* else 409
    /\ seq' = seq + 1
    /\ chosen' = chosen + 1
    /\ role' = [role EXCEPT ![seq + 1] = "player"]
    /\ name' = [name EXCEPT ![seq + 1] = n]
    /\ secret' = [secret EXCEPT ![seq + 1] = chosen + 1]
    /\ UNCHANGED <<up, sessionTable, req, cutShort>>

\* Login up to a successful CheckPassword on the row UserByUsername returned.
Login(r, u) ==
    /\ Exists(u)                                                     \* else 401
    /\ Begin(r, Locals("login", u, 0, secret[u]))
    /\ UNCHANGED <<up, userTable, sessionTable, cutShort>>

\* Mutant: foreign keys off, as on a connection without the PRAGMA.
CreateSessionUnchecked(r) ==
    /\ req[r].phase = "login"
    /\ drawn < MaxToken
    /\ drawn' = drawn + 1
    /\ session' = [session EXCEPT ![drawn + 1] = req[r].actor]
    /\ proof' = [proof EXCEPT ![drawn + 1] = req[r].secret]
    /\ UNCHANGED late
    /\ Finish(r)
    /\ UNCHANGED <<up, userTable, cutShort>>

\* CreateSession; the foreign key refuses a user deleted since.
CreateSession(r) ==
    LET u == req[r].actor IN
    /\ req[r].phase = "login"
    /\ drawn < MaxToken
    /\ drawn' = drawn + 1
    /\ IF Exists(u)
         THEN /\ session' = [session EXCEPT ![drawn + 1] = u]
              /\ proof' = [proof EXCEPT ![drawn + 1] = req[r].secret]
              /\ late' = IF req[r].secret # secret[u]
                           THEN late \cup {drawn + 1} ELSE late
         ELSE UNCHANGED <<session, proof, late>>                     \* 500
    /\ Finish(r)
    /\ UNCHANGED <<up, userTable, cutShort>>

\* Logout, or RequireLogin finding the session expired.
DeleteSession(t) ==
    /\ up /\ Live(t)
    /\ session' = [session EXCEPT ![t] = 0]
    /\ UNCHANGED <<up, userTable, drawn, proof, late, req, cutShort>>

-----------------------------------------------------------------------------
(* The admin panel. *)

\* RequireLogin reads session and user in one join; RequireAdmin checks the
\* role in that row, and the handler keeps the row for the whole request.
RequireAdmin(r, t) ==
    /\ Live(t)                                                       \* else 401
    /\ role[session[t]] = "admin"                                    \* else 403
    /\ Begin(r, Locals("admin", session[t], 0, 0))
    /\ UNCHANGED <<up, userTable, sessionTable, cutShort>>

\* Mutants: the role is not validated; an admin may demote themselves.
UpdateUserAnyRole(r, u, new) ==
    /\ req[r].phase = "admin"
    /\ u = req[r].actor => new = "admin"
    /\ Exists(u)
    /\ role' = [role EXCEPT ![u] = new]
    /\ Finish(r)
    /\ UNCHANGED <<up, name, secret, seq, chosen, sessionTable, cutShort>>
UpdateUserSelfToo(r, u, new) ==
    /\ req[r].phase = "admin"
    /\ new \in Roles
    /\ Exists(u)
    /\ role' = [role EXCEPT ![u] = new]
    /\ Finish(r)
    /\ UNCHANGED <<up, name, secret, seq, chosen, sessionTable, cutShort>>

\* The role half of PUT /api/admin/users/{id}; new is what the body says.
AdminUpdateUser(r, u, new) ==
    /\ req[r].phase = "admin"
    /\ new \in Roles                                                 \* else 400
    /\ u = req[r].actor => new = "admin"                             \* else 409
    /\ Exists(u)                                                     \* else 404
    /\ role' = [role EXCEPT ![u] = new]
    /\ Finish(r)
    /\ UNCHANGED <<up, name, secret, seq, chosen, sessionTable, cutShort>>

\* AdminResetPassword up to UpdatePasswordHash.
AdminResetPassword(r, u) ==
    /\ req[r].phase = "admin"
    /\ chosen < MaxSecret
    /\ Exists(u)                                                     \* else 404
    /\ chosen' = chosen + 1
    /\ secret' = [secret EXCEPT ![u] = chosen + 1]
    /\ req' = [req EXCEPT ![r].phase = "purge", ![r].target = u,
                          ![r].secret = chosen + 1]
    /\ UNCHANGED <<up, role, name, seq, sessionTable, cutShort>>

\* Mutant: the acting admin's sessions go instead of the target's.
DeleteActorSessions(r) ==
    /\ req[r].phase = "purge"
    /\ session' = WithoutUser(req[r].actor)
    /\ cutShort' = cutShort \ {req[r].target}
    /\ Finish(r)
    /\ UNCHANGED <<up, userTable, drawn, proof, late>>

\* DeleteUserSessions and the answer that carries the temporary password.
DeleteUserSessions(r) ==
    LET u == req[r].target IN
    /\ req[r].phase = "purge"
    /\ session' = WithoutUser(u)
    /\ cutShort' = cutShort \ {u}
    /\ Finish(r)
    /\ UNCHANGED <<up, userTable, drawn, proof, late>>

\* ON DELETE CASCADE takes the sessions of the user.
AdminDeleteUser(r, u) ==
    /\ req[r].phase = "admin"
    /\ u # req[r].actor                                              \* else 409
    /\ Exists(u)                                                     \* else 404
    /\ role' = [role EXCEPT ![u] = "none"]
    /\ name' = [name EXCEPT ![u] = NoName]
    /\ secret' = [secret EXCEPT ![u] = 0]
    /\ session' = WithoutUser(u)
    /\ cutShort' = cutShort \ {u}
    /\ Finish(r)
    /\ UNCHANGED <<up, seq, chosen, drawn, proof, late>>

\* Any early return, failed statement or panic.
Abort(r) ==
    /\ req[r].phase # "idle"
    /\ Finish(r)
    /\ cutShort' = IF req[r].phase = "purge"
                     THEN cutShort \cup {req[r].target} ELSE cutShort
    /\ UNCHANGED <<up, userTable, sessionTable>>

-----------------------------------------------------------------------------
(* The process. *)

Purging(u) == \E r \in Requests : req[r].phase = "purge" /\ req[r].target = u

Crash ==
    /\ up
    /\ up' = FALSE
    /\ req' = [r \in Requests |-> Idle]
    /\ cutShort' = cutShort \cup {u \in UserIds : Purging(u)}
    /\ UNCHANGED <<userTable, sessionTable>>

\* EnsureAdmin inserts an admin when it counts none and the name is free.  No
\* request is served yet, so its two statements are one step.
EnsureAdmin ==
    /\ ~HasAdmin /\ ~Taken(AdminName)
    /\ seq < MaxUserId
    /\ seq' = seq + 1
    /\ role' = [role EXCEPT ![seq + 1] = "admin"]
    /\ name' = [name EXCEPT ![seq + 1] = AdminName]
    /\ secret' = [secret EXCEPT ![seq + 1] = 0]
    /\ UNCHANGED chosen

\* bootstrapAdmin, before the server listens.  Whatever keeps EnsureAdmin from
\* its INSERT does not stop the server: no admin configured, a hash or a
\* statement that fails, an admin there already.
Boot ==
    /\ ~up
    /\ up' = TRUE
    /\ EnsureAdmin \/ UNCHANGED userTable
    /\ UNCHANGED <<sessionTable, req, cutShort>>

-----------------------------------------------------------------------------
Init ==
    /\ up = FALSE
    /\ role = [u \in UserIds |-> "none"]
    /\ name = [u \in UserIds |-> NoName]
    /\ secret = [u \in UserIds |-> 0]
    /\ seq = 0
    /\ chosen = 0
    /\ session = [t \in Tokens |-> 0]
    /\ drawn = 0
    /\ req = [r \in Requests |-> Idle]
    /\ proof = [t \in Tokens |-> 0]
    /\ late = {}
    /\ cutShort = {}

\* What the role field of a PUT body may hold.
RoleInputs == Roles \cup {"owner"}

AdminStep(r) ==
    \/ \E u \in UserIds, new \in RoleInputs : AdminUpdateUser(r, u, new)
    \/ \E u \in UserIds : AdminResetPassword(r, u)
    \/ \E u \in UserIds : AdminDeleteUser(r, u)

RequestStep ==
    \/ \E n \in Names : Register(n)
    \/ \E t \in Tokens : DeleteSession(t)
    \/ \E r \in Requests :
         \/ \E u \in UserIds : Login(r, u)
         \/ CreateSession(r)
         \/ \E t \in Tokens : RequireAdmin(r, t)
         \/ AdminStep(r)
         \/ DeleteUserSessions(r)

Failure == Crash \/ \E r \in Requests : Abort(r)

Next == RequestStep \/ Failure \/ Boot
Spec == Init /\ [][Next]_vars

\* The same server when nothing fails.
CalmNext == RequestStep \/ Boot
CalmSpec == Init /\ [][CalmNext]_vars

-----------------------------------------------------------------------------
(* The database that transactions take their snapshots of, without levels.     *)

Db == INSTANCE Tables WITH
    Users <- UserIds, Registered <- {}, MaxLevelId <- 0, MaxOrder <- 0, MaxTools <- 0,
    Texts <- {}, Lists <- {}, Keys <- {}, NoKey <- NoName, Files <- {},
    Elsewhere <- {"create user", "delete user", "other"}

-----------------------------------------------------------------------------
(* Properties. *)

\* Every table, handler local and history variable holds values of its type;
\* in particular users.role, which the schema leaves unconstrained.
TypeOK ==
    /\ up \in BOOLEAN
    /\ role \in [UserIds -> Roles \cup {"none"}]
    /\ name \in [UserIds -> Names \cup {NoName}]
    /\ secret \in [UserIds -> Secrets]
    /\ seq \in 0 .. MaxUserId
    /\ chosen \in Secrets
    /\ session \in [Tokens -> 0 .. MaxUserId]
    /\ drawn \in 0 .. MaxToken
    /\ req \in [Requests -> {q \in RequestState : WellFormed(q)}]
    /\ proof \in [Tokens -> Secrets]
    /\ late \subseteq Tokens
    /\ cutShort \subseteq UserIds

SessionsOwned == \A t \in Tokens : Live(t) => Exists(session[t])
UniqueNames ==
    \A u, v \in UserIds : Exists(u) /\ Exists(v) /\ name[u] = name[v] => u = v
InSequence ==
    /\ \A u \in UserIds : Exists(u) => u <= seq
    /\ \A t \in Tokens : Live(t) => t <= drawn

\* No session outlives its account, not even one a login opens while the
\* account is being deleted, and no two accounts share a name.
Integrity == SessionsOwned /\ UniqueNames /\ InSequence

\* A session opened with a password that was since replaced exists only while
\* the reset is between its two statements, or when the reset failed there, or
\* when the login had already read the old hash as the reset began.
OldSessionsExplained ==
    \A t \in Tokens : Live(t) /\ proof[t] # secret[session[t]] =>
        \/ Purging(session[t])
        \/ session[t] \in cutShort
        \/ t \in late

\* The accounts as the transactions of other modules see them.
Rows ==
    [Db!Fresh EXCEPT !.role =
        [u \in UserIds |-> IF Exists(u) THEN role[u]
                            ELSE IF u <= seq THEN Db!Gone ELSE Db!Unborn]]

\* Each step here is, for table users, a statement that Transactions lets the
\* rest of the server run (registration and EnsureAdmin take an id that no
\* account ever had, and EnsureAdmin adds an admin only where there is none), or
\* the SetUserRole of its request "put", of an account there is.
AccountStatements ==
    [][\/ Rows' \in Db!Edits(Rows)
       \/ \E u \in UserIds, r \in Roles :
            Exists(u) /\ Rows' = Db!UpdateRole(Rows, u, r)]_vars

\* The panel loses its last admin only to a request whose own actor was
\* demoted or deleted while the request ran.
LockoutNeedsStaleActor ==
    [][HasAdmin /\ ~HasAdmin' =>
         \E r \in Requests :
            /\ req[r].phase = "admin" /\ req'[r].phase = "idle"
            /\ role[req[r].actor] # "admin"]_vars

\* The self-demotion and self-deletion guards keep an admin in the panel.
AdminRemains == [][HasAdmin => HasAdmin']_vars

\* Once a reset is answered nobody holds a session opened with the old password.
OldPasswordShutOut ==
    \A t \in Tokens : Live(t) /\ proof[t] # secret[session[t]] => Purging(session[t])
=============================================================================
