----------------------------- MODULE SessionClock -----------------------------
(***************************************************************************)
(* The life of one session under sliding expiration: RequireLogin run by   *)
(* several requests of one browser at once, against a passing clock.       *)
(*                                                                         *)
(* Times are kept relative to now: an expiry is the number of ticks left,  *)
(* and -1 once it has passed.  A tick is the unit of expires_at (a second  *)
(* in the database); the three statements of RequireLogin are separate.    *)
(***************************************************************************)
EXTENDS Integers

CONSTANTS
    Requests,
    SessionTTL,                \* 30 days
    SessionRefreshThreshold,   \* 15 days
    Duration,                  \* bound on the time RequireLogin takes
    Gap                        \* an active player is answered this often

ASSUME TimeAssumption ==
    /\ SessionTTL \in Nat /\ SessionRefreshThreshold \in Nat
    /\ Duration \in Nat /\ Gap \in Nat

VARIABLES
    present,    \* the row of the session exists
    left,       \* time left until its expires_at
    req,        \* the RequireLogin calls in flight
    promised,   \* history: time left until the expiry last promised
    quiet,      \* history: time since a request was last let through, capped
    loggedOut,  \* history: the player logged out, or the panel did it for them
    regular     \* history: never a pause longer than Gap, nor a failed refresh

vars == <<present, left, req, promised, quiet, loggedOut, regular>>

\* phase is the next statement: the check of the row read, DELETE or UPDATE;
\* left is the expiry read, or the new expiry computed; age the time in flight.
Idle == [phase |-> "idle", left |-> 0, age |-> 0]

\* Abandoned for longer than any expiry or request lasts; quiet stops there.
LongQuiet == SessionTTL + Duration + 1

Expired(x) == x < 0

\* Mutant: a session is due for refresh only when it expires.
NearlyGone(x) == x <= 0
Near(x) == x < SessionRefreshThreshold
Later(x) == IF x < 0 THEN x ELSE x - 1

-----------------------------------------------------------------------------
\* SessionByToken; without a row the answer is 401 and nothing changes.
Read(r) ==
    /\ req[r].phase = "idle"
    /\ present
    /\ req' = [req EXCEPT ![r] = [phase |-> "check", left |-> left, age |-> 0]]
    /\ UNCHANGED <<present, left, promised, quiet, loggedOut, regular>>

LetThrough(r) ==
    /\ req' = [req EXCEPT ![r] = Idle]
    /\ quiet' = 0

\* Mutants: the new expiry counts from the old one; the refresh comes before the
\* expiry check.
CheckAddingUp(r) ==
    LET x == req[r].left IN
    /\ req[r].phase = "check"
    /\ \/ /\ Expired(x)
          /\ req' = [req EXCEPT ![r].phase = "delete"]
          /\ UNCHANGED quiet
       \/ /\ ~Expired(x) /\ Near(x)
          /\ req' = [req EXCEPT ![r].phase = "refresh", ![r].left = x + SessionTTL]
          /\ UNCHANGED quiet
       \/ ~Expired(x) /\ ~Near(x) /\ LetThrough(r)
    /\ UNCHANGED <<present, left, promised, loggedOut, regular>>
CheckRefreshFirst(r) ==
    LET x == req[r].left IN
    /\ req[r].phase = "check"
    /\ \/ /\ Near(x)
          /\ req' = [req EXCEPT ![r].phase = "refresh", ![r].left = SessionTTL]
          /\ UNCHANGED quiet
       \/ ~Near(x) /\ LetThrough(r)
    /\ UNCHANGED <<present, left, promised, loggedOut, regular>>

\* The two comparisons with time.Now().
Check(r) ==
    LET x == req[r].left IN
    /\ req[r].phase = "check"
    /\ \/ /\ Expired(x)
          /\ req' = [req EXCEPT ![r].phase = "delete"]
          /\ UNCHANGED quiet
       \/ /\ ~Expired(x) /\ Near(x)
          /\ req' = [req EXCEPT ![r].phase = "refresh", ![r].left = SessionTTL]
          /\ UNCHANGED quiet
       \/ ~Expired(x) /\ ~Near(x) /\ LetThrough(r)
    /\ UNCHANGED <<present, left, promised, loggedOut, regular>>

\* DELETE FROM sessions WHERE token = ?, then 401 and a cleared cookie.
DeleteSession(r) ==
    /\ req[r].phase = "delete"
    /\ present' = FALSE
    /\ left' = -1
    /\ req' = [req EXCEPT ![r] = Idle]
    /\ UNCHANGED <<promised, quiet, loggedOut, regular>>

\* The DELETE fails: the error is logged, the answer and the cookie the same.
DeleteFails(r) ==
    /\ req[r].phase = "delete"
    /\ req' = [req EXCEPT ![r] = Idle]
    /\ UNCHANGED <<present, left, promised, quiet, loggedOut, regular>>

\* Mutant: an upsert.
RefreshSessionUpsert(r) ==
    /\ req[r].phase = "refresh"
    /\ present' = TRUE
    /\ left' = req[r].left
    /\ promised' = req[r].left
    /\ LetThrough(r)
    /\ UNCHANGED <<loggedOut, regular>>

\* Mutant: the cookie is set again, the row is not.
RefreshCookieOnly(r) ==
    /\ req[r].phase = "refresh"
    /\ promised' = req[r].left
    /\ LetThrough(r)
    /\ UNCHANGED <<present, left, loggedOut, regular>>

\* UPDATE sessions SET expires_at = ? WHERE token = ?, then a new cookie: no
\* row is no error, so the cookie is set even then.
RefreshSession(r) ==
    LET x == req[r].left IN
    /\ req[r].phase = "refresh"
    /\ left' = IF present THEN x ELSE left
    /\ promised' = x
    /\ LetThrough(r)
    /\ UNCHANGED <<present, loggedOut, regular>>

\* The UPDATE fails: the error is logged, the request let through all the same.
RefreshFails(r) ==
    /\ req[r].phase = "refresh"
    /\ LetThrough(r)
    /\ regular' = FALSE
    /\ UNCHANGED <<present, left, promised, loggedOut>>

\* POST /api/logout; or the panel resets the password or deletes the account.
Logout ==
    /\ ~loggedOut
    /\ loggedOut' = TRUE
    /\ present' = FALSE
    /\ left' = -1
    /\ UNCHANGED <<req, promised, quiet, regular>>

\* No request stays in RequireLogin for more than Duration.
Tick ==
    /\ \A r \in Requests : req[r].phase # "idle" => req[r].age < Duration
    /\ left' = Later(left)
    /\ promised' = Later(promised)
    /\ regular' = (regular /\ quiet < Gap)
    /\ quiet' = IF quiet < LongQuiet THEN quiet + 1 ELSE quiet
    /\ req' = [r \in Requests |->
                 IF req[r].phase = "idle" THEN Idle
                 ELSE [req[r] EXCEPT !.left = Later(@), !.age = @ + 1]]
    /\ UNCHANGED <<present, loggedOut>>

-----------------------------------------------------------------------------
\* Login has just created the session and set its cookie.
Init ==
    /\ present = TRUE
    /\ left = SessionTTL
    /\ req = [r \in Requests |-> Idle]
    /\ promised = SessionTTL
    /\ quiet = 0
    /\ loggedOut = FALSE
    /\ regular = TRUE

Next ==
    \/ \E r \in Requests :
         \/ Read(r) \/ Check(r)
         \/ DeleteSession(r) \/ DeleteFails(r)
         \/ RefreshSession(r) \/ RefreshFails(r)
    \/ Logout
    \/ Tick

Spec == Init /\ [][Next]_vars

\* What keeps an active player in: a pause and two slow requests fit in the
\* threshold, and a refresh reaches beyond it.
ActiveEnough ==
    /\ Gap + 2 * Duration <= SessionRefreshThreshold
    /\ SessionRefreshThreshold + Duration <= SessionTTL

-----------------------------------------------------------------------------
(* Properties. *)

\* Every variable has its type; no expiry is further away than SessionTTL.
TypeOK ==
    /\ present \in BOOLEAN
    /\ left \in -1 .. SessionTTL
    /\ req \in [Requests -> [phase : {"idle", "check", "delete", "refresh"},
                             left : -1 .. SessionTTL, age : 0 .. Duration]]
    /\ promised \in -1 .. SessionTTL
    /\ quiet \in 0 .. LongQuiet
    /\ loggedOut \in BOOLEAN
    /\ regular \in BOOLEAN

\* A session that was deleted, by a logout or as expired, never comes back,
\* whatever refreshes are still in flight.
DeletedIsFinal == [][~present => ~present']_vars

\* A session nobody used for longer than SessionTTL (and the time one request
\* takes) lets nobody in any more, whatever is still in flight.
AbandonedIsDead == [][quiet = LongQuiet => quiet' = LongQuiet]_vars

\* A player who comes back at least every Gap is never logged out, whatever
\* requests of theirs run at once, unless they log out or a refresh fails.
ActiveStaysIn ==
    regular /\ ~loggedOut =>
        present /\ \A r \in Requests : req[r].phase # "delete"

\* A promised expiry is broken, short of a logout, only within two request
\* durations of the refresh that promised it, by a request that read the session
\* before: a player who was refreshed and is still in after that stays in.
PromiseIsKept ==
    [][present /\ ~present' /\ ~loggedOut' =>
         promised < 0 \/ promised >= SessionTTL - 2 * Duration]_vars

\* Once a request has slid the expiry, the session lasts until the new expiry
\* unless the player logs out.
RefreshHolds == promised >= 0 /\ ~loggedOut => present
=============================================================================
