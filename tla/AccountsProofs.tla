---------------------------- MODULE AccountsProofs ----------------------------
(* Theorems about Accounts, for any number of users, sessions and requests.   *)
EXTENDS Accounts, TLAPS

GoodRequest == {q \in RequestState : WellFormed(q)}

LEMMA LocalsType ==
    ASSUME NEW p \in {"login", "admin"}, NEW a \in UserIds, NEW s \in Secrets
    PROVE  Locals(p, a, 0, s) \in GoodRequest
<1>1. a \in 0 .. MaxUserId /\ 0 \in 0 .. MaxUserId
  BY BoundsAssumption DEF UserIds
<1> QED
  BY <1>1 DEF GoodRequest, RequestState, WellFormed, Locals

LEMMA IdleType == Idle \in GoodRequest
BY BoundsAssumption DEF Idle, Locals, GoodRequest, RequestState, WellFormed, Secrets

LEMMA PurgeType ==
    ASSUME NEW q \in GoodRequest, q.phase = "admin", NEW u \in UserIds,
           NEW s \in Secrets
    PROVE  [q EXCEPT !.phase = "purge", !.target = u, !.secret = s] \in GoodRequest
<1>1. u \in 0 .. MaxUserId
  BY BoundsAssumption DEF UserIds
<1> QED
  BY <1>1 DEF GoodRequest, RequestState, WellFormed

LEMMA WithoutUserType ==
    ASSUME TypeOK, NEW u
    PROVE  WithoutUser(u) \in [Tokens -> 0 .. MaxUserId]
BY BoundsAssumption DEF TypeOK, WithoutUser

LEMMA InitType == Init => TypeOK
<1> SUFFICES ASSUME Init
             PROVE  TypeOK
  OBVIOUS
<1>1. req \in [Requests -> GoodRequest]
  BY IdleType DEF Init
<1>2. 0 \in Secrets /\ 0 \in 0 .. MaxUserId /\ 0 \in 0 .. MaxToken
  BY BoundsAssumption DEF Secrets
<1>3. /\ secret \in [UserIds -> Secrets] /\ proof \in [Tokens -> Secrets]
      /\ session \in [Tokens -> 0 .. MaxUserId]
  BY <1>2 DEF Init
<1> QED
  BY <1>1, <1>2, <1>3 DEF Init, TypeOK, GoodRequest

LEMMA NextType == TypeOK /\ [Next]_vars => TypeOK'
<1> SUFFICES ASSUME TypeOK, [Next]_vars
             PROVE  TypeOK'
  OBVIOUS
<1> USE DEF userTable, sessionTable
<1>0. /\ req \in [Requests -> GoodRequest]
      /\ \A r \in Requests : req[r] \in GoodRequest
  BY DEF TypeOK, GoodRequest
<1>a. seq < MaxUserId => seq + 1 \in UserIds /\ seq + 1 \in 0 .. MaxUserId
  BY BoundsAssumption DEF TypeOK, UserIds
<1>b. chosen < MaxSecret => chosen + 1 \in Secrets
  BY BoundsAssumption DEF TypeOK, Secrets
<1>c. drawn < MaxToken => drawn + 1 \in Tokens /\ drawn + 1 \in 0 .. MaxToken
  BY BoundsAssumption DEF TypeOK, Tokens
<1>1. ASSUME NEW n \in Names, Register(n) PROVE TypeOK'
  BY <1>1, <1>a, <1>b DEF Register, TypeOK, Roles
<1>2. ASSUME NEW t \in Tokens, DeleteSession(t) PROVE TypeOK'
  BY <1>2, BoundsAssumption DEF DeleteSession, TypeOK
<1>3. ASSUME NEW r \in Requests, NEW u \in UserIds, Login(r, u) PROVE TypeOK'
  <2>1. Locals("login", u, 0, secret[u]) \in GoodRequest
    BY LocalsType DEF TypeOK
  <2>2. req' \in [Requests -> GoodRequest]
    BY <1>0, <1>3, <2>1 DEF Login, Begin
  <2> QED
    BY <1>3, <2>2 DEF Login, TypeOK, GoodRequest
<1>4. ASSUME NEW r \in Requests, CreateSession(r) PROVE TypeOK'
  <2>1. req[r].actor \in UserIds /\ req[r].actor \in 0 .. MaxUserId /\ req[r].secret \in Secrets
    BY <1>0, <1>4 DEF CreateSession, GoodRequest, RequestState, WellFormed
  <2>2. req' \in [Requests -> GoodRequest]
    BY <1>0, <1>4, IdleType DEF CreateSession, Finish
  <2>3. session' \in [Tokens -> 0 .. MaxUserId] /\ proof' \in [Tokens -> Secrets]
    BY <1>4, <2>1 DEF CreateSession, TypeOK
  <2>4. late' \subseteq Tokens /\ drawn' \in 0 .. MaxToken
    BY <1>4, <1>c DEF CreateSession, TypeOK
  <2> QED
    BY <1>4, <2>2, <2>3, <2>4 DEF CreateSession, TypeOK, GoodRequest
<1>5. ASSUME NEW r \in Requests, NEW t \in Tokens, RequireAdmin(r, t) PROVE TypeOK'
  <2>1. session[t] \in UserIds /\ 0 \in Secrets
    BY <1>5, BoundsAssumption DEF RequireAdmin, Live, TypeOK, UserIds, Secrets
  <2>2. Locals("admin", session[t], 0, 0) \in GoodRequest
    BY <2>1, LocalsType
  <2>3. req' \in [Requests -> GoodRequest]
    BY <1>0, <1>5, <2>2 DEF RequireAdmin, Begin
  <2> QED
    BY <1>5, <2>3 DEF RequireAdmin, TypeOK, GoodRequest
<1>6. ASSUME NEW r \in Requests, NEW u \in UserIds, NEW new \in RoleInputs,
             AdminUpdateUser(r, u, new)
      PROVE TypeOK'
  <2>1. req' \in [Requests -> GoodRequest]
    BY <1>0, <1>6, IdleType DEF AdminUpdateUser, Finish
  <2> QED
    BY <1>6, <2>1 DEF AdminUpdateUser, TypeOK, GoodRequest
<1>7. ASSUME NEW r \in Requests, NEW u \in UserIds, AdminResetPassword(r, u) PROVE TypeOK'
  <2>1. [req[r] EXCEPT !.phase = "purge", !.target = u, !.secret = chosen + 1] \in GoodRequest
    BY <1>0, <1>7, <1>b, PurgeType DEF AdminResetPassword
  <2>2. req' = [req EXCEPT ![r] = [req[r] EXCEPT !.phase = "purge", !.target = u,
                                                 !.secret = chosen + 1]]
    BY <1>0, <1>7 DEF AdminResetPassword
  <2>3. req' \in [Requests -> GoodRequest]
    BY <1>0, <2>1, <2>2
  <2> QED
    BY <1>7, <1>b, <2>3 DEF AdminResetPassword, TypeOK, GoodRequest
<1>8. ASSUME NEW r \in Requests, NEW u \in UserIds, AdminDeleteUser(r, u) PROVE TypeOK'
  <2>1. req' \in [Requests -> GoodRequest]
    BY <1>0, <1>8, IdleType DEF AdminDeleteUser, Finish
  <2> QED
    BY <1>8, <2>1, WithoutUserType, BoundsAssumption
       DEF AdminDeleteUser, TypeOK, GoodRequest, Secrets
<1>9. ASSUME NEW r \in Requests, DeleteUserSessions(r) PROVE TypeOK'
  <2>1. req' \in [Requests -> GoodRequest]
    BY <1>0, <1>9, IdleType DEF DeleteUserSessions, Finish
  <2> QED
    BY <1>9, <2>1, WithoutUserType DEF DeleteUserSessions, TypeOK, GoodRequest
<1>10. ASSUME NEW r \in Requests, Abort(r) PROVE TypeOK'
  <2>1. req' \in [Requests -> GoodRequest]
    BY <1>0, <1>10, IdleType DEF Abort, Finish
  <2>2. cutShort' \subseteq UserIds
    BY <1>0, <1>10 DEF Abort, GoodRequest, WellFormed, TypeOK
  <2> QED
    BY <1>10, <2>1, <2>2 DEF Abort, TypeOK, GoodRequest
<1>11. CASE Crash
  <2>1. req' \in [Requests -> GoodRequest]
    BY <1>11, IdleType DEF Crash
  <2> QED
    BY <1>11, <2>1 DEF Crash, TypeOK, GoodRequest
<1>12. CASE Boot
  <2>1. 0 \in Secrets
    BY BoundsAssumption DEF Secrets
  <2> QED
    BY <1>12, <1>a, <2>1, NameAssumption DEF Boot, EnsureAdmin, TypeOK, Roles
<1>13. CASE UNCHANGED vars
  BY <1>13 DEF vars, TypeOK
<1> QED
  BY <1>1, <1>2, <1>3, <1>4, <1>5, <1>6, <1>7, <1>8, <1>9, <1>10, <1>11, <1>12, <1>13
     DEF Next, RequestStep, AdminStep, Failure

\* Every variable keeps its type; users.role never holds anything but a role,
\* although the schema would take any text.
THEOREM TypeCorrect == Spec => []TypeOK
BY InitType, NextType, PTL DEF Spec

-----------------------------------------------------------------------------
(* The schema's constraints. *)

LEMMA InitIntegrity == Init => Integrity
BY BoundsAssumption
   DEF Init, Integrity, SessionsOwned, UniqueNames, InSequence, Live, Exists

LEMMA NextIntegrity == TypeOK /\ Integrity /\ [Next]_vars => Integrity'
<1> SUFFICES ASSUME TypeOK, Integrity, [Next]_vars
             PROVE  Integrity'
  OBVIOUS
<1> USE DEF Integrity, SessionsOwned, UniqueNames, InSequence, Live, Exists,
            userTable, sessionTable
<1>a. /\ role \in [UserIds -> Roles \cup {"none"}] /\ name \in [UserIds -> Names \cup {NoName}]
      /\ session \in [Tokens -> 0 .. MaxUserId]
      /\ seq \in 0 .. MaxUserId /\ drawn \in 0 .. MaxToken
  BY DEF TypeOK
<1>b. seq < MaxUserId => seq + 1 \in UserIds /\ ~Exists(seq + 1)
  BY <1>a, BoundsAssumption DEF UserIds
<1>c. \A u \in UserIds : u \in Nat
  BY DEF UserIds
<1>d. \A t \in Tokens : t \in Nat
  BY DEF Tokens
<1>e. \A t \in Tokens : Live(t) => session[t] \in UserIds
  BY <1>a, BoundsAssumption DEF UserIds
<1>1. ASSUME NEW n \in Names, Register(n) PROVE Integrity'
  <2>1. /\ \A u \in UserIds : u # seq + 1 => role'[u] = role[u] /\ name'[u] = name[u]
        /\ role'[seq + 1] = "player" /\ name'[seq + 1] = n /\ seq' = seq + 1
        /\ session' = session /\ drawn' = drawn
    BY <1>1, <1>a, <1>b DEF Register
  <2>2. \A u \in UserIds : Exists(u) => name[u] # n
    BY <1>1 DEF Register, Taken
  <2>3. SessionsOwned'
    BY <1>e, <2>1
  <2>4. UniqueNames'
    BY <2>1, <2>2
  <2>5. InSequence'
    BY <1>a, <1>c, <2>1
  <2> QED
    BY <2>3, <2>4, <2>5
<1>2. ASSUME NEW t \in Tokens, DeleteSession(t) PROVE Integrity'
  BY <1>2, <1>a DEF DeleteSession
<1>3. ASSUME NEW r \in Requests, NEW u \in UserIds, Login(r, u) PROVE Integrity'
  BY <1>3 DEF Login
<1>4. ASSUME NEW r \in Requests, CreateSession(r) PROVE Integrity'
  <2>1. UNCHANGED <<role, name, seq>> /\ drawn' = drawn + 1
    BY <1>4 DEF CreateSession
  <2>2. \/ session' = session
        \/ Exists(req[r].actor) /\ session' = [session EXCEPT ![drawn + 1] = req[r].actor]
    BY <1>4 DEF CreateSession
  <2>3. \A t \in Tokens : \/ session'[t] = session[t]
                          \/ t = drawn + 1 /\ Exists(session'[t])
    BY <1>a, <2>2
  <2> QED
    BY <1>a, <1>d, <2>1, <2>3
<1>5. ASSUME NEW r \in Requests, NEW t \in Tokens, RequireAdmin(r, t) PROVE Integrity'
  BY <1>5 DEF RequireAdmin
<1>6. ASSUME NEW r \in Requests, NEW u \in UserIds, NEW new \in RoleInputs,
             AdminUpdateUser(r, u, new)
      PROVE Integrity'
  <2>1. \A v \in UserIds : role'[v] # "none" <=> role[v] # "none"
    BY <1>6, <1>a DEF AdminUpdateUser, Roles
  <2>2. UNCHANGED <<name, seq, session, drawn>>
    BY <1>6 DEF AdminUpdateUser
  <2> QED
    BY <1>e, <2>1, <2>2
<1>7. ASSUME NEW r \in Requests, NEW u \in UserIds, AdminResetPassword(r, u) PROVE Integrity'
  BY <1>7 DEF AdminResetPassword
<1>8. ASSUME NEW r \in Requests, NEW u \in UserIds, AdminDeleteUser(r, u) PROVE Integrity'
  <2>1. \A v \in UserIds : v # u => role'[v] = role[v] /\ name'[v] = name[v]
    BY <1>8, <1>a DEF AdminDeleteUser
  <2>2. role'[u] = "none" /\ seq' = seq /\ drawn' = drawn
    BY <1>8, <1>a DEF AdminDeleteUser
  <2>3. \A t \in Tokens : session'[t] = IF session[t] = u THEN 0 ELSE session[t]
    BY <1>8 DEF AdminDeleteUser, WithoutUser
  <2> QED
    BY <1>e, <2>1, <2>2, <2>3
<1>9. ASSUME NEW r \in Requests, DeleteUserSessions(r) PROVE Integrity'
  <2>1. \A t \in Tokens : session'[t] = 0 \/ session'[t] = session[t]
    BY <1>9 DEF DeleteUserSessions, WithoutUser
  <2> QED
    BY <1>9, <2>1 DEF DeleteUserSessions
<1>10. ASSUME NEW r \in Requests, Abort(r) PROVE Integrity'
  BY <1>10 DEF Abort
<1>11. CASE Crash
  BY <1>11 DEF Crash
<1>12. CASE Boot
  <2>1. CASE UNCHANGED userTable
    BY <1>12, <2>1 DEF Boot, EnsureAdmin
  <2>2. CASE ~(UNCHANGED userTable)
    <3>1. /\ \A u \in UserIds : u # seq + 1 => role'[u] = role[u] /\ name'[u] = name[u]
          /\ role'[seq + 1] = "admin" /\ name'[seq + 1] = AdminName /\ seq' = seq + 1
          /\ session' = session /\ drawn' = drawn
      BY <1>12, <1>a, <1>b, <2>2 DEF Boot, EnsureAdmin
    <3>2. \A u \in UserIds : Exists(u) => name[u] # AdminName
      BY <1>12, <2>2 DEF Boot, EnsureAdmin, Taken
    <3>3. SessionsOwned'
      BY <1>e, <3>1
    <3>4. UniqueNames'
      BY <3>1, <3>2
    <3>5. InSequence'
      BY <1>a, <1>c, <3>1
    <3> QED
      BY <3>3, <3>4, <3>5
  <2> QED
    BY <2>1, <2>2
<1>13. CASE UNCHANGED vars
  BY <1>13 DEF vars
<1> QED
  BY <1>1, <1>2, <1>3, <1>4, <1>5, <1>6, <1>7, <1>8, <1>9, <1>10, <1>11, <1>12, <1>13
     DEF Next, RequestStep, AdminStep, Failure

\* No session outlives its account, no two accounts share a name, and ids never
\* run ahead of their sequences, under every interleaving, failure and restart.
THEOREM SchemaIntegrity == Spec => []Integrity
BY InitIntegrity, NextIntegrity, TypeCorrect, PTL DEF Spec

-----------------------------------------------------------------------------
(* Credentials and sessions.  The invariant is not inductive without Integrity: *)
(* a fresh account must not inherit sessions, so ids must never be reused.      *)

LEMMA NextOldSessions ==
    TypeOK /\ Integrity /\ OldSessionsExplained /\ [Next]_vars => OldSessionsExplained'
<1> SUFFICES ASSUME TypeOK, Integrity, OldSessionsExplained, [Next]_vars,
                    NEW t \in Tokens, Live(t)', proof'[t] # secret'[session'[t]]
             PROVE  \/ Purging(session[t])'
                    \/ session'[t] \in cutShort'
                    \/ t \in late'
  BY DEF OldSessionsExplained
<1> USE DEF Live, userTable, sessionTable
<1>a. /\ session \in [Tokens -> 0 .. MaxUserId] /\ secret \in [UserIds -> Secrets]
      /\ seq \in 0 .. MaxUserId /\ drawn \in 0 .. MaxToken
      /\ proof \in [Tokens -> Secrets] /\ req \in [Requests -> GoodRequest]
  BY DEF TypeOK, GoodRequest
<1>b. Live(t) => session[t] \in UserIds /\ Exists(session[t])
  BY <1>a, BoundsAssumption DEF UserIds, Integrity, SessionsOwned
<1>c. Live(t) /\ proof[t] # secret[session[t]] =>
        Purging(session[t]) \/ session[t] \in cutShort \/ t \in late
  BY DEF OldSessionsExplained
\* A purge in another slot goes on.
<1>d. ASSUME NEW u, Purging(u), NEW r \in Requests, req[r].phase # "purge",
             \A s \in Requests : s # r => req'[s] = req[s]
      PROVE  Purging(u)'
  BY <1>d DEF Purging
<1>1. ASSUME NEW n \in Names, Register(n)
      PROVE  Purging(session[t])' \/ session'[t] \in cutShort' \/ t \in late'
  <2>1. \A u \in UserIds : Exists(u) => secret'[u] = secret[u]
    BY <1>1, <1>a, BoundsAssumption DEF Register, Integrity, InSequence, UserIds
  <2> QED
    BY <1>1, <1>b, <1>c, <2>1 DEF Register, Purging
<1>2. ASSUME NEW s \in Tokens, DeleteSession(s)
      PROVE  Purging(session[t])' \/ session'[t] \in cutShort' \/ t \in late'
  <2>1. session'[t] = session[t]
    BY <1>2, <1>a DEF DeleteSession
  <2> QED
    BY <1>2, <1>c, <2>1 DEF DeleteSession, Purging
<1>3. ASSUME NEW r \in Requests, NEW u \in UserIds, Login(r, u)
      PROVE  Purging(session[t])' \/ session'[t] \in cutShort' \/ t \in late'
  <2>1. /\ UNCHANGED <<session, proof, secret, cutShort, late>> /\ req[r].phase # "purge"
        /\ \A s \in Requests : s # r => req'[s] = req[s]
    BY <1>3, <1>a DEF Login, Begin
  <2> QED
    BY <1>c, <1>d, <2>1 DEF Purging
<1>4. ASSUME NEW r \in Requests, CreateSession(r)
      PROVE  Purging(session[t])' \/ session'[t] \in cutShort' \/ t \in late'
  <2>1. /\ UNCHANGED <<secret, cutShort>> /\ req[r].phase # "purge" /\ late \subseteq late'
        /\ \A s \in Requests : s # r => req'[s] = req[s]
    BY <1>4, <1>a DEF CreateSession, Finish
  <2>2. CASE session'[t] = session[t] /\ proof'[t] = proof[t]
    BY <1>c, <1>d, <2>1, <2>2 DEF Purging
  <2>3. CASE ~(session'[t] = session[t] /\ proof'[t] = proof[t])
    <3>1. /\ Exists(req[r].actor) /\ t = drawn + 1
          /\ session'[t] = req[r].actor /\ proof'[t] = req[r].secret
          /\ late' = IF req[r].secret # secret[req[r].actor]
                       THEN late \cup {drawn + 1} ELSE late
      BY <1>4, <1>a, <2>3 DEF CreateSession
    <3> QED
      BY <2>1, <3>1
  <2> QED
    BY <2>2, <2>3
<1>5. ASSUME NEW r \in Requests, NEW s \in Tokens, RequireAdmin(r, s)
      PROVE  Purging(session[t])' \/ session'[t] \in cutShort' \/ t \in late'
  <2>1. /\ UNCHANGED <<session, proof, secret, cutShort, late>> /\ req[r].phase # "purge"
        /\ \A q \in Requests : q # r => req'[q] = req[q]
    BY <1>5, <1>a DEF RequireAdmin, Begin
  <2> QED
    BY <1>c, <1>d, <2>1 DEF Purging
<1>6. ASSUME NEW r \in Requests, NEW u \in UserIds, NEW new \in RoleInputs,
             AdminUpdateUser(r, u, new)
      PROVE  Purging(session[t])' \/ session'[t] \in cutShort' \/ t \in late'
  <2>1. /\ UNCHANGED <<session, proof, secret, cutShort, late>> /\ req[r].phase # "purge"
        /\ \A q \in Requests : q # r => req'[q] = req[q]
    BY <1>6, <1>a DEF AdminUpdateUser, Finish
  <2> QED
    BY <1>c, <1>d, <2>1 DEF Purging
<1>7. ASSUME NEW r \in Requests, NEW u \in UserIds, AdminResetPassword(r, u)
      PROVE  Purging(session[t])' \/ session'[t] \in cutShort' \/ t \in late'
  <2>1. /\ UNCHANGED <<session, proof, cutShort, late>> /\ req[r].phase # "purge"
        /\ \A q \in Requests : q # r => req'[q] = req[q]
        /\ \A v \in UserIds : v # u => secret'[v] = secret[v]
        /\ req'[r].phase = "purge" /\ req'[r].target = u
    BY <1>7, <1>a DEF AdminResetPassword, GoodRequest, RequestState
  <2>2. CASE session[t] = u
    BY <2>1, <2>2 DEF Purging
  <2>3. CASE session[t] # u
    BY <1>b, <1>c, <1>d, <2>1, <2>3 DEF Purging
  <2> QED
    BY <2>2, <2>3
<1>8. ASSUME NEW r \in Requests, NEW u \in UserIds, AdminDeleteUser(r, u)
      PROVE  Purging(session[t])' \/ session'[t] \in cutShort' \/ t \in late'
  <2>1. /\ UNCHANGED <<proof, late>> /\ cutShort' = cutShort \ {u} /\ req[r].phase # "purge"
        /\ \A q \in Requests : q # r => req'[q] = req[q]
        /\ \A v \in UserIds : v # u => secret'[v] = secret[v]
        /\ session'[t] = session[t] /\ session[t] # u
    BY <1>8, <1>a DEF AdminDeleteUser, Finish, WithoutUser
  <2> QED
    BY <1>b, <1>c, <1>d, <2>1 DEF Purging
<1>9. ASSUME NEW r \in Requests, DeleteUserSessions(r)
      PROVE  Purging(session[t])' \/ session'[t] \in cutShort' \/ t \in late'
  <2>1. /\ UNCHANGED <<proof, secret, late>> /\ cutShort' = cutShort \ {req[r].target}
        /\ session'[t] = session[t] /\ session[t] # req[r].target
        /\ \A q \in Requests : q # r => req'[q] = req[q]
    BY <1>9, <1>a DEF DeleteUserSessions, Finish, WithoutUser
  <2>2. Purging(session[t]) => Purging(session[t])'
    BY <2>1 DEF Purging
  <2> QED
    BY <1>c, <2>1, <2>2
<1>10. ASSUME NEW r \in Requests, Abort(r)
      PROVE  Purging(session[t])' \/ session'[t] \in cutShort' \/ t \in late'
  <2>1. /\ UNCHANGED <<session, proof, secret, late>> /\ cutShort \subseteq cutShort'
        /\ req[r].phase = "purge" => req[r].target \in cutShort'
        /\ \A q \in Requests : q # r => req'[q] = req[q]
    BY <1>10, <1>a DEF Abort, Finish
  <2>2. Purging(session[t]) => Purging(session[t])' \/ session[t] \in cutShort'
    BY <2>1 DEF Purging
  <2> QED
    BY <1>c, <2>1, <2>2
<1>11. CASE Crash
  BY <1>11, <1>b, <1>c DEF Crash
<1>12. CASE Boot
  <2>1. \A u \in UserIds : Exists(u) => secret'[u] = secret[u]
    BY <1>12, <1>a, BoundsAssumption DEF Boot, EnsureAdmin, Integrity, InSequence, UserIds
  <2> QED
    BY <1>12, <1>b, <1>c, <2>1 DEF Boot, EnsureAdmin, Purging
<1>13. CASE UNCHANGED vars
  BY <1>13, <1>c DEF vars, Purging
<1> QED
  BY <1>1, <1>2, <1>3, <1>4, <1>5, <1>6, <1>7, <1>8, <1>9, <1>10, <1>11, <1>12, <1>13
     DEF Next, RequestStep, AdminStep, Failure

\* A session opened with a replaced password is always accounted for: its reset
\* is still running or failed half-way, or its login overlapped the reset.
THEOREM OldSessionsAreExplained == Spec => []OldSessionsExplained
<1>1. Init => OldSessionsExplained
  BY DEF Init, OldSessionsExplained, Live
<1> QED
  BY <1>1, NextOldSessions, TypeCorrect, SchemaIntegrity, PTL DEF Spec

-----------------------------------------------------------------------------
(* The last admin. *)

\* Only an admin operation can take the last admin, and its guard spares its
\* own actor: so the actor was no admin any more.
LEMMA LastAdminStep ==
    ASSUME TypeOK, Integrity, [Next]_vars, HasAdmin, ~HasAdmin'
    PROVE  \E r \in Requests : /\ req[r].phase = "admin" /\ req'[r].phase = "idle"
                               /\ role[req[r].actor] # "admin"
<1>a. /\ role \in [UserIds -> Roles \cup {"none"}] /\ seq \in 0 .. MaxUserId
      /\ req \in [Requests -> GoodRequest]
  BY DEF TypeOK, GoodRequest
<1>b. \A u \in UserIds : role[u] = "admin" => u <= seq
  BY DEF Integrity, InSequence, Exists
<1>1. role' # role
  BY DEF HasAdmin
<1>2. ASSUME NEW r \in Requests, req[r].phase = "admin", req'[r].phase = "idle",
             NEW u \in UserIds, u # req[r].actor \/ role'[u] = "admin",
             \A v \in UserIds \ {u} : role'[v] = role[v]
      PROVE  role[req[r].actor] # "admin"
  <2>1. req[r].actor \in UserIds
    BY <1>a, <1>2 DEF GoodRequest, WellFormed
  <2> QED
    BY <1>2, <2>1 DEF HasAdmin
<1>3. ASSUME NEW n \in Names, Register(n) PROVE FALSE
  <2>1. \A u \in UserIds : u <= seq => role'[u] = role[u]
    BY <1>3, <1>a DEF Register, UserIds
  <2> QED
    BY <1>b, <2>1 DEF HasAdmin
<1>4. ASSUME Boot PROVE FALSE
  <2>1. \A u \in UserIds : u <= seq => role'[u] = role[u]
    BY <1>4, <1>a DEF Boot, EnsureAdmin, UserIds, userTable
  <2> QED
    BY <1>b, <2>1 DEF HasAdmin
<1>5. ASSUME NEW r \in Requests, NEW u \in UserIds, NEW new \in RoleInputs,
             AdminUpdateUser(r, u, new)
      PROVE  /\ req[r].phase = "admin" /\ req'[r].phase = "idle"
             /\ role[req[r].actor] # "admin"
  BY <1>5, <1>a, <1>2 DEF AdminUpdateUser, Finish, Idle, Locals
<1>6. ASSUME NEW r \in Requests, NEW u \in UserIds, AdminDeleteUser(r, u)
      PROVE  /\ req[r].phase = "admin" /\ req'[r].phase = "idle"
             /\ role[req[r].actor] # "admin"
  BY <1>6, <1>a, <1>2 DEF AdminDeleteUser, Finish, Idle, Locals
<1> QED
  BY <1>1, <1>3, <1>4, <1>5, <1>6
     DEF Next, RequestStep, AdminStep, Failure, DeleteSession, Login, CreateSession,
         RequireAdmin, AdminResetPassword, DeleteUserSessions, Abort, Crash, vars,
         userTable

\* Losing the last admin takes two overlapping admin requests.
THEOREM LockoutTakesAStaleActor == Spec => LockoutNeedsStaleActor
<1> DEFINE A == HasAdmin /\ ~HasAdmin' =>
                  \E r \in Requests : /\ req[r].phase = "admin" /\ req'[r].phase = "idle"
                                      /\ role[req[r].actor] # "admin"
<1>1. TypeOK /\ Integrity /\ [Next]_vars => [A]_vars
  BY LastAdminStep
<1> QED
  BY <1>1, TypeCorrect, SchemaIntegrity, PTL DEF Spec, LockoutNeedsStaleActor

-----------------------------------------------------------------------------
(* The steps here are statements of Tables. *)

RoleOf == [u \in UserIds |-> IF Exists(u) THEN role[u]
                             ELSE IF u <= seq THEN Db!Gone ELSE Db!Unborn]
WithRoles(x) == [Db!Fresh EXCEPT !.role = x]

\* Of a database that differs from a fresh one in table users alone.
LEMMA RolesOnly ==
    /\ Rows = WithRoles(RoleOf) /\ Rows' = WithRoles(RoleOf')
    /\ \A x : WithRoles(x).role = x /\ WithRoles(x).solved = [u \in UserIds |-> {}]
    /\ \A x, y : [WithRoles(x) EXCEPT !.role = y] = WithRoles(y)
<1>1. /\ Rows = WithRoles(RoleOf) /\ Rows' = WithRoles(RoleOf')
  BY DEF Rows, WithRoles, RoleOf
<1>2. \A x : WithRoles(x).role = x /\ WithRoles(x).solved = [u \in UserIds |-> {}]
  BY DEF WithRoles, Db!Fresh
<1>3. \A x, y : [WithRoles(x) EXCEPT !.role = y] = WithRoles(y)
  BY DEF WithRoles, Db!Fresh
<1> QED
  BY <1>1, <1>2, <1>3

LEMMA AllEdits ==
    \A d : Db!Edits(d) = {d} \cup Db!UserCreated(d) \cup Db!WithoutUser(d)
BY DEF Db!Edits, Db!When

\* Register and EnsureAdmin: the next id of the sequence.
LEMMA AddedAccount ==
    ASSUME TypeOK, Integrity, NEW r \in Roles, r = "admin" => ~HasAdmin,
           seq < MaxUserId, seq' = seq + 1, role' = [role EXCEPT ![seq + 1] = r]
    PROVE  Rows' \in Db!Edits(Rows)
<1> DEFINE n == seq + 1
<1>1. n \in UserIds /\ ~Exists(n) /\ seq \in Nat /\ ~(n <= seq)
  <2>1. n \in UserIds /\ seq \in Nat /\ ~(n <= seq)
    BY BoundsAssumption DEF TypeOK, UserIds
  <2> QED
    BY <2>1 DEF Integrity, InSequence
<1>2. RoleOf[n] = Db!Unborn
  BY <1>1 DEF RoleOf
<1>3. RoleOf' = [RoleOf EXCEPT ![n] = r]
  <2>1. r # "none"
    BY DEF Roles
  <2>2. \A u \in UserIds : u # n => (u <= n <=> u <= seq)
    BY <1>1 DEF UserIds
  <2>3. \A u \in UserIds : RoleOf'[u] = IF u = n THEN r ELSE RoleOf[u]
    BY <1>1, <2>1, <2>2 DEF RoleOf, Exists, TypeOK
  <2>4. RoleOf' = [u \in UserIds |-> RoleOf'[u]]
    BY DEF RoleOf
  <2> QED
    BY <2>3, <2>4 DEF RoleOf
<1>4. Rows' = Db!InsertUser(Rows, n, r)
  BY <1>3, RolesOnly DEF Db!InsertUser
<1>5. n \in Db!Newcomers(Rows)
  BY <1>1, <1>2, RolesOnly DEF Db!Newcomers
<1>6. r \in Db!FirstRoles(Rows)
  <2>1. ~HasAdmin => \A u \in UserIds : RoleOf[u] # "admin"
    BY DEF HasAdmin, RoleOf, Exists, Db!Gone, Db!Unborn
  <2> QED
    BY <2>1, RolesOnly DEF Db!FirstRoles, Roles, Db!Roles
<1> QED
  BY <1>4, <1>5, <1>6, AllEdits DEF Db!UserCreated

LEMMA ChangedRole ==
    ASSUME TypeOK, NEW u \in UserIds, NEW r \in Roles, Exists(u), seq' = seq,
           role' = [role EXCEPT ![u] = r]
    PROVE  Rows' = Db!UpdateRole(Rows, u, r)
<1>1. RoleOf' = [RoleOf EXCEPT ![u] = r]
  <2>1. \A v \in UserIds : RoleOf'[v] = IF v = u THEN r ELSE RoleOf[v]
    BY DEF RoleOf, Exists, Roles, TypeOK
  <2>2. RoleOf' = [v \in UserIds |-> RoleOf'[v]]
    BY DEF RoleOf
  <2> QED
    BY <2>1, <2>2 DEF RoleOf
<1> QED
  BY <1>1, RolesOnly DEF Db!UpdateRole

LEMMA RemovedAccount ==
    ASSUME TypeOK, Integrity, NEW u \in UserIds, Exists(u), seq' = seq,
           role' = [role EXCEPT ![u] = "none"]
    PROVE  Rows' \in Db!Edits(Rows)
<1>1. RoleOf' = [RoleOf EXCEPT ![u] = Db!Gone]
  <2>1. u <= seq
    BY DEF Integrity, InSequence
  <2>2. \A v \in UserIds : RoleOf'[v] = IF v = u THEN Db!Gone ELSE RoleOf[v]
    BY <2>1 DEF RoleOf, Exists, TypeOK
  <2>3. RoleOf' = [v \in UserIds |-> RoleOf'[v]]
    BY DEF RoleOf
  <2> QED
    BY <2>2, <2>3 DEF RoleOf
<1>2. [[v \in UserIds |-> {}] EXCEPT ![u] = {}] = [v \in UserIds |-> {}]
  OBVIOUS
<1>3. Rows' = Db!DeleteUser(Rows, u)
  BY <1>1, <1>2, RolesOnly DEF Db!DeleteUser, WithRoles, Db!Fresh
<1>4. u \in Db!UsersOf(Rows)
  BY RolesOnly DEF Db!UsersOf, Db!Roles, Roles, RoleOf, Exists, TypeOK
<1> QED
  BY <1>3, <1>4, AllEdits DEF Db!WithoutUser

\* What accounts do to the database is what Transactions lets the rest of the
\* server do, for any number of accounts, sessions and requests.
THEOREM AccountsShareTheDatabase == Spec => AccountStatements
<1> DEFINE Same == \/ Rows' \in Db!Edits(Rows)
                   \/ \E u \in UserIds, r \in Roles :
                        Exists(u) /\ Rows' = Db!UpdateRole(Rows, u, r)
<1>1. ASSUME role' = role, seq' = seq PROVE Rows' \in Db!Edits(Rows)
  <2>1. Rows' = Rows
    BY <1>1 DEF Rows, Exists
  <2> QED
    BY <2>1, AllEdits
<1>2. TypeOK /\ Integrity /\ Next => Same
  <2> SUFFICES ASSUME TypeOK, Integrity, Next
               PROVE  Same
    OBVIOUS
  <2>1. ASSUME NEW n \in Names, Register(n) PROVE Same
    BY <2>1, AddedAccount DEF Register, Roles
  <2>2. CASE Boot
    <3>1. CASE EnsureAdmin
      BY <3>1, AddedAccount DEF EnsureAdmin, Roles
    <3>2. CASE UNCHANGED userTable
      BY <3>2, <1>1 DEF userTable
    <3> QED
      BY <2>2, <3>1, <3>2 DEF Boot
  <2>3. ASSUME NEW r \in Requests, AdminStep(r) PROVE Same
    <3>1. ASSUME NEW u \in UserIds, NEW new, AdminUpdateUser(r, u, new) PROVE Same
      BY <3>1, ChangedRole DEF AdminUpdateUser
    <3>2. ASSUME NEW u \in UserIds, AdminResetPassword(r, u) PROVE Same
      BY <3>2, <1>1 DEF AdminResetPassword
    <3>3. ASSUME NEW u \in UserIds, AdminDeleteUser(r, u) PROVE Same
      BY <3>3, RemovedAccount DEF AdminDeleteUser
    <3> QED
      BY <2>3, <3>1, <3>2, <3>3 DEF AdminStep
  <2>4. CASE Failure
    BY <2>4, <1>1 DEF Failure, Crash, Abort, userTable
  <2>5. ASSUME NEW t \in Tokens, DeleteSession(t) PROVE Same
    BY <2>5, <1>1 DEF DeleteSession, userTable
  <2>6. ASSUME NEW r \in Requests, NEW u \in UserIds, Login(r, u) PROVE Same
    BY <2>6, <1>1 DEF Login, userTable
  <2>7. ASSUME NEW r \in Requests, NEW t \in Tokens, RequireAdmin(r, t) PROVE Same
    BY <2>7, <1>1 DEF RequireAdmin, userTable
  <2>8. ASSUME NEW r \in Requests, CreateSession(r) \/ DeleteUserSessions(r) PROVE Same
    BY <2>8, <1>1 DEF CreateSession, DeleteUserSessions, userTable
  <2> QED
    BY <2>1, <2>2, <2>3, <2>4, <2>5, <2>6, <2>7, <2>8 DEF Next, RequestStep
<1>3. TypeOK /\ Integrity /\ [Next]_vars => [Same]_vars
  BY <1>2
<1> QED
  BY <1>3, TypeCorrect, SchemaIntegrity, PTL DEF Spec, AccountStatements

-----------------------------------------------------------------------------
\* When requests do not overlap, the row RequireAdmin read is still true when
\* the operation runs, and the two guards suffice.
ActorIsAdmin == \A r \in Requests : req[r].phase = "admin" => role[req[r].actor] = "admin"

THEOREM OneAtATimeKeepsAnAdmin ==
    ASSUME \A r, s \in Requests : r = s
    PROVE  Spec => AdminRemains
<1>1. Init => ActorIsAdmin
  BY DEF Init, ActorIsAdmin, Idle, Locals
<1>2. TypeOK /\ Integrity /\ ActorIsAdmin /\ [Next]_vars => ActorIsAdmin'
  <2> SUFFICES ASSUME TypeOK, Integrity, ActorIsAdmin, [Next]_vars,
                      NEW s \in Requests, req'[s].phase = "admin"
               PROVE  role'[req'[s].actor] = "admin"
    BY DEF ActorIsAdmin
  <2> USE DEF userTable, sessionTable
  <2>a. /\ role \in [UserIds -> Roles \cup {"none"}] /\ seq \in 0 .. MaxUserId
        /\ req \in [Requests -> GoodRequest]
    BY DEF TypeOK, GoodRequest
  <2>b. \A u \in UserIds : role[u] = "admin" => u <= seq /\ u # seq + 1
    BY <2>a DEF Integrity, InSequence, Exists, UserIds
  <2>c. req[s].phase = "admin" => req[s].actor \in UserIds /\ role[req[s].actor] = "admin"
    BY <2>a DEF GoodRequest, WellFormed, ActorIsAdmin
  <2>1. ASSUME req' = req, \A u \in UserIds : role[u] = "admin" => role'[u] = "admin"
        PROVE  role'[req'[s].actor] = "admin"
    BY <2>1, <2>c
  <2>2. ASSUME NEW n \in Names, Register(n) PROVE role'[req'[s].actor] = "admin"
    BY <2>1, <2>2, <2>a, <2>b DEF Register
  <2>3. CASE Boot
    BY <2>1, <2>3, <2>a, <2>b DEF Boot, EnsureAdmin
  <2>4. ASSUME NEW r \in Requests, NEW t \in Tokens, RequireAdmin(r, t)
        PROVE  role'[req'[s].actor] = "admin"
    BY <2>4, <2>a DEF RequireAdmin, Begin, Locals
  <2>5. ASSUME NEW r \in Requests,
               \/ \E u \in UserIds : Login(r, u)
               \/ CreateSession(r)
               \/ AdminStep(r)
               \/ DeleteUserSessions(r)
               \/ Abort(r)
        PROVE  FALSE
    <3>1. r = s
      OBVIOUS
    <3>2. ASSUME NEW u \in UserIds, AdminResetPassword(r, u)
          PROVE  FALSE
      <4>1. req' = [req EXCEPT ![r] = [req[r] EXCEPT !.phase = "purge", !.target = u,
                                                     !.secret = chosen + 1]]
        BY <3>2, <2>a DEF AdminResetPassword
      <4>2. req'[r].phase = "purge"
        BY <2>a, <4>1 DEF GoodRequest, RequestState
      <4> QED
        BY <3>1, <4>2
    <3>3. ASSUME NEW u \in UserIds, Login(r, u)
          PROVE  FALSE
      BY <2>a, <3>1, <3>3 DEF Login, Begin, Locals
    <3>4. ASSUME Finish(r)
          PROVE  FALSE
      BY <2>a, <3>1, <3>4 DEF Finish, Idle, Locals
    <3> QED
      BY <2>5, <3>2, <3>3, <3>4
         DEF CreateSession, AdminStep, AdminUpdateUser, AdminDeleteUser,
             DeleteUserSessions, Abort
  <2>6. CASE Crash
    BY <2>6 DEF Crash, Idle, Locals
  <2>7. CASE (\E t \in Tokens : DeleteSession(t)) \/ UNCHANGED vars
    BY <2>1, <2>7 DEF DeleteSession, vars
  <2> QED
    BY <2>2, <2>3, <2>4, <2>5, <2>6, <2>7 DEF Next, RequestStep, Failure
<1>3. Spec => []ActorIsAdmin
  BY <1>1, <1>2, TypeCorrect, SchemaIntegrity, PTL DEF Spec
<1> DEFINE A == HasAdmin => HasAdmin'
<1>4. TypeOK /\ Integrity /\ ActorIsAdmin /\ [Next]_vars => [A]_vars
  BY LastAdminStep DEF ActorIsAdmin
<1> QED
  BY <1>3, <1>4, TypeCorrect, SchemaIntegrity, PTL DEF Spec, AdminRemains

-----------------------------------------------------------------------------
(* The old password. *)

\* When requests do not overlap, the hash Login compared with is still the
\* account's when the session is opened.
HashIsCurrent ==
    /\ late = {}
    /\ \A r \in Requests : req[r].phase = "login" =>
         Exists(req[r].actor) /\ req[r].secret = secret[req[r].actor]

LEMMA HashStep ==
    ASSUME \A r, s \in Requests : r = s,
           TypeOK, Integrity, HashIsCurrent, [Next]_vars
    PROVE  HashIsCurrent'
<1> USE DEF userTable, sessionTable
<1>0. /\ role \in [UserIds -> Roles \cup {"none"}] /\ seq \in 0 .. MaxUserId
      /\ secret \in [UserIds -> Secrets] /\ req \in [Requests -> GoodRequest]
      /\ \A u \in UserIds : Exists(u) => u # seq + 1
  BY DEF TypeOK, GoodRequest, Integrity, InSequence, UserIds
<1>1. ASSUME late' = {}, NEW r \in Requests, Finish(r)
      PROVE  HashIsCurrent'
  BY <1>0, <1>1 DEF Finish, HashIsCurrent, Idle, Locals
<1>2. ASSUME late' = late, req' = req,
             \A u \in UserIds : Exists(u) => role'[u] = role[u] /\ secret'[u] = secret[u]
      PROVE  HashIsCurrent'
  <2>1. ASSUME NEW r \in Requests, req[r].phase = "login"
        PROVE  Exists(req[r].actor)' /\ req[r].secret = secret'[req[r].actor]
    <3>1. req[r].actor \in UserIds
      BY <1>0, <2>1 DEF GoodRequest, WellFormed
    <3> QED
      BY <1>2, <2>1, <3>1 DEF HashIsCurrent, Exists
  <2> QED
    BY <1>2, <2>1 DEF HashIsCurrent
<1>3. ASSUME NEW n \in Names, Register(n)
      PROVE  HashIsCurrent'
  BY <1>0, <1>2, <1>3 DEF Register
<1>4. ASSUME NEW t \in Tokens, DeleteSession(t)
      PROVE  HashIsCurrent'
  BY <1>2, <1>4 DEF DeleteSession
<1>5. ASSUME NEW r \in Requests, NEW u \in UserIds, Login(r, u)
      PROVE  HashIsCurrent'
  <2>1. req'[r] = Locals("login", u, 0, secret[u]) /\ \A s \in Requests : s = r
    BY <1>0, <1>5 DEF Login, Begin
  <2> QED
    BY <1>5, <2>1 DEF Login, HashIsCurrent, Locals, Exists
<1>6. ASSUME NEW r \in Requests, CreateSession(r)
      PROVE  HashIsCurrent'
  <2>1. Exists(req[r].actor) /\ req[r].secret = secret[req[r].actor] /\ late = {}
    BY <1>6 DEF CreateSession, HashIsCurrent
  <2> QED
    BY <1>1, <1>6, <2>1 DEF CreateSession
<1>7. ASSUME NEW r \in Requests, NEW t \in Tokens, RequireAdmin(r, t)
      PROVE  HashIsCurrent'
  <2>1. req'[r].phase = "admin" /\ \A s \in Requests : s = r
    BY <1>0, <1>7 DEF RequireAdmin, Begin, Locals
  <2> QED
    BY <1>7, <2>1 DEF RequireAdmin, HashIsCurrent
<1>8. ASSUME NEW r \in Requests, AdminStep(r)
      PROVE  HashIsCurrent'
  <2>1. ASSUME NEW u \in UserIds, AdminResetPassword(r, u)
        PROVE  HashIsCurrent'
    <3>1. req'[r] = [req[r] EXCEPT !.phase = "purge", !.target = u, !.secret = chosen + 1]
      BY <1>0, <2>1 DEF AdminResetPassword
    <3>2. req'[r].phase = "purge" /\ \A s \in Requests : s = r
      BY <1>0, <3>1 DEF GoodRequest, RequestState
    <3> QED
      BY <2>1, <3>2 DEF AdminResetPassword, HashIsCurrent
  <2> QED
    BY <1>1, <1>8, <2>1 DEF AdminStep, AdminUpdateUser, AdminDeleteUser, HashIsCurrent
<1>9. ASSUME NEW r \in Requests, DeleteUserSessions(r) \/ Abort(r)
      PROVE  HashIsCurrent'
  BY <1>1, <1>9 DEF DeleteUserSessions, Abort, HashIsCurrent
<1>10. CASE Crash
  BY <1>10 DEF Crash, HashIsCurrent, Idle, Locals
<1>11. CASE Boot
  BY <1>0, <1>2, <1>11 DEF Boot, EnsureAdmin
<1>12. CASE UNCHANGED vars
  BY <1>2, <1>12 DEF vars
<1> QED
  BY <1>3, <1>4, <1>5, <1>6, <1>7, <1>8, <1>9, <1>10, <1>11, <1>12
     DEF Next, RequestStep, Failure

\* Without failures no reset is cut short.
NoneCutShort == cutShort = {}

LEMMA CalmStep ==
    ASSUME [CalmNext]_vars, NoneCutShort
    PROVE  [Next]_vars /\ NoneCutShort'
<1>1. [Next]_vars
  BY DEF CalmNext, Next
<1>2. NoneCutShort'
  BY DEF NoneCutShort, CalmNext, RequestStep, AdminStep, Register, DeleteSession, Login, CreateSession,
         RequireAdmin, AdminUpdateUser, AdminResetPassword, AdminDeleteUser,
         DeleteUserSessions, Boot, EnsureAdmin, vars
<1> QED
  BY <1>1, <1>2

\* A reset shuts the old password out when requests do not overlap and none
\* fails: each of the two conditions the refuted run and OldSessionsExplained
\* name is needed, and no other.
THEOREM OneAtATimeShutsOut ==
    ASSUME \A r, s \in Requests : r = s
    PROVE  CalmSpec => []OldPasswordShutOut
<1>1. Init => HashIsCurrent /\ NoneCutShort
  BY DEF Init, HashIsCurrent, NoneCutShort, Idle, Locals
<1>2. CalmSpec => Spec /\ []NoneCutShort
  BY <1>1, CalmStep, PTL DEF CalmSpec, Spec
<1>3. Spec => []HashIsCurrent
  BY <1>1, HashStep, TypeCorrect, SchemaIntegrity, PTL DEF Spec
<1>4. OldSessionsExplained /\ HashIsCurrent /\ NoneCutShort => OldPasswordShutOut
  BY DEF NoneCutShort, OldSessionsExplained, HashIsCurrent, OldPasswordShutOut
<1> QED
  BY <1>2, <1>3, <1>4, OldSessionsAreExplained, PTL
=============================================================================
