-------------------------- MODULE SessionClockProofs --------------------------
(* Theorems about SessionClock, for any durations and number of requests.     *)
EXTENDS SessionClock, TLAPS

RequestType ==
    [phase : {"idle", "check", "delete", "refresh"},
     left : -1 .. SessionTTL, age : 0 .. Duration]

LEMMA IdleType == Idle \in RequestType
BY TimeAssumption DEF Idle, RequestType

LEMMA LaterType ==
    ASSUME NEW x \in -1 .. SessionTTL
    PROVE  Later(x) \in -1 .. SessionTTL
BY TimeAssumption DEF Later

\* The request r after each of its steps.
LEMMA TickedType ==
    ASSUME NEW q \in RequestType, q.age < Duration
    PROVE  [q EXCEPT !.left = Later(@), !.age = @ + 1] \in RequestType
<1>1. Later(q.left) \in -1 .. SessionTTL
  BY LaterType DEF RequestType
<1>2. q.age + 1 \in 0 .. Duration
  BY TimeAssumption DEF RequestType
<1> QED
  BY <1>1, <1>2 DEF RequestType

LEMMA InitType == Init => TypeOK
<1> SUFFICES ASSUME Init
             PROVE  TypeOK
  OBVIOUS
<1>1. req \in [Requests -> RequestType]
  BY IdleType DEF Init
<1>2. present \in BOOLEAN /\ loggedOut \in BOOLEAN /\ regular \in BOOLEAN
  BY Zenon DEF Init
<1>3. SessionTTL \in -1 .. SessionTTL /\ 0 \in 0 .. LongQuiet
  BY TimeAssumption DEF LongQuiet
<1> QED
  BY <1>1, <1>2, <1>3 DEF Init, TypeOK, RequestType

LEMMA StepType ==
    ASSUME TypeOK, [Next]_vars
    PROVE  TypeOK'
<1>0. req \in [Requests -> RequestType] /\ LongQuiet \in Nat \ {0}
  BY TimeAssumption DEF TypeOK, RequestType, LongQuiet
<1> USE TimeAssumption
<1>m. -1 \in -1 .. SessionTTL
  OBVIOUS
<1>1. ASSUME NEW r \in Requests, Read(r)
      PROVE  TypeOK'
  <2>1. [phase |-> "check", left |-> left, age |-> 0] \in RequestType
    BY DEF TypeOK, RequestType
  <2>2. req' \in [Requests -> RequestType]
    BY <1>0, <1>1, <2>1 DEF Read
  <2> QED
    BY <1>1, <2>2 DEF Read, TypeOK, RequestType
<1>2. ASSUME NEW r \in Requests, Check(r)
      PROVE  TypeOK'
  <2>1. /\ [req[r] EXCEPT !.phase = "delete"] \in RequestType
        /\ [req[r] EXCEPT !.phase = "refresh", !.left = SessionTTL] \in RequestType
    <3>1. req[r] \in RequestType /\ SessionTTL \in -1 .. SessionTTL
      BY <1>0
    <3> QED
      BY <3>1 DEF RequestType
  <2>2. req' \in [Requests -> RequestType]
    BY <1>0, <1>2, <2>1, IdleType DEF Check, LetThrough
  <2>3. quiet' \in 0 .. LongQuiet
    BY <1>0, <1>2 DEF Check, LetThrough, TypeOK
  <2> QED
    BY <1>2, <2>2, <2>3 DEF Check, TypeOK, RequestType, LongQuiet
<1>3. ASSUME NEW r \in Requests, DeleteSession(r) \/ DeleteFails(r)
      PROVE  TypeOK'
  <2>1. req' \in [Requests -> RequestType]
    BY <1>0, <1>3, IdleType DEF DeleteSession, DeleteFails
  <2>2. present' \in BOOLEAN
    BY <1>3, Zenon DEF DeleteSession, DeleteFails, TypeOK
  <2> QED
    BY <1>3, <2>1, <2>2, <1>m DEF DeleteSession, DeleteFails, TypeOK, RequestType, LongQuiet
<1>4. ASSUME NEW r \in Requests, RefreshSession(r)
      PROVE  TypeOK'
  <2>1. req' \in [Requests -> RequestType] /\ quiet' \in 0 .. LongQuiet
    BY <1>0, <1>4, IdleType DEF RefreshSession, LetThrough
  <2>2. req[r].left \in -1 .. SessionTTL
    BY <1>0 DEF RequestType
  <2> QED
    BY <1>4, <2>1, <2>2 DEF RefreshSession, TypeOK, RequestType, LongQuiet
<1>5. ASSUME NEW r \in Requests, RefreshFails(r)
      PROVE  TypeOK'
  <2>1. req' \in [Requests -> RequestType] /\ quiet' \in 0 .. LongQuiet
    BY <1>0, <1>5, IdleType DEF RefreshFails, LetThrough
  <2>2. regular' \in BOOLEAN
    BY <1>5, Zenon DEF RefreshFails
  <2> QED
    BY <1>5, <2>1, <2>2 DEF RefreshFails, TypeOK, RequestType, LongQuiet
<1>6. CASE Logout
  <2>1. present' \in BOOLEAN /\ loggedOut' \in BOOLEAN
    BY <1>6, Zenon DEF Logout
  <2> QED
    BY <1>6, <2>1, <1>m DEF Logout, TypeOK, LongQuiet
<1>7. CASE Tick
  <2>1. req' \in [Requests -> RequestType]
    BY <1>0, <1>7, IdleType, TickedType DEF Tick
  <2>2. left' \in -1 .. SessionTTL /\ promised' \in -1 .. SessionTTL
    <3>1. left \in -1 .. SessionTTL /\ promised \in -1 .. SessionTTL
      BY DEF TypeOK
    <3>2. left' = Later(left) /\ promised' = Later(promised)
      BY <1>7 DEF Tick
    <3> QED
      BY <3>1, <3>2, LaterType
  <2>3. quiet' \in 0 .. LongQuiet
    <3>1. quiet' = IF quiet < LongQuiet THEN quiet + 1 ELSE quiet
      BY <1>7, Zenon DEF Tick
    <3>2. quiet \in 0 .. LongQuiet
      BY DEF TypeOK
    <3> QED
      BY <1>0, <3>1, <3>2
  <2>4. regular' \in BOOLEAN
    BY <1>7, Zenon DEF Tick
  <2> QED
    BY <1>7, <2>1, <2>2, <2>3, <2>4 DEF Tick, TypeOK, RequestType, LongQuiet
<1>8. CASE UNCHANGED vars
  BY <1>8 DEF vars, TypeOK, LongQuiet
<1> QED
  BY <1>1, <1>2, <1>3, <1>4, <1>5, <1>6, <1>7, <1>8 DEF Next

\* Every variable has its type, and no expiry is more than SessionTTL away.
THEOREM TypeCorrect == Spec => []TypeOK
<1>1. Init => TypeOK
  BY InitType
<1>2. TypeOK /\ [Next]_vars => TypeOK'
  BY StepType
<1> QED
  BY <1>1, <1>2, PTL DEF Spec

\* No refresh in flight brings a deleted session back.
THEOREM DeletedStaysDeleted == Spec => DeletedIsFinal
<1>1. [Next]_vars => [~present => ~present']_vars
  <2> SUFFICES ASSUME Next, ~present
               PROVE  ~present'
    BY DEF vars
  <2>1. ASSUME NEW r \in Requests, Read(r) \/ Check(r) \/ DeleteFails(r) \/ RefreshFails(r)
        PROVE  ~present'
    BY <2>1, Zenon DEF Read, Check, DeleteFails, RefreshFails
  <2>2. ASSUME NEW r \in Requests, DeleteSession(r) \/ RefreshSession(r)
        PROVE  ~present'
    BY <2>2, Zenon DEF DeleteSession, DeleteFails, RefreshSession
  <2>3. CASE Logout \/ Tick
    BY <2>3, Zenon DEF Logout, Tick
  <2> QED
    BY <2>1, <2>2, <2>3, Zenon DEF Next
<1> QED
  BY <1>1, PTL DEF Spec, DeletedIsFinal

-----------------------------------------------------------------------------
(* The abandoned session.  However long the browser is quiet, an unexpired  *)
(* expiry, in the row or read from it, is no further away than what was left *)
(* of SessionTTL; and a refresh in flight was begun before it ran out.       *)

FadingRequest(q) ==
    /\ q.phase = "check" => q.left < 0 \/ q.left + quiet <= SessionTTL
    /\ q.phase = "refresh" => quiet <= SessionTTL + q.age

FadingInv ==
    /\ TypeOK
    /\ left < 0 \/ left + quiet <= SessionTTL
    /\ \A r \in Requests : FadingRequest(req[r])

LEMMA FadingInit == Init => FadingInv
<1> SUFFICES ASSUME Init
             PROVE  FadingInv
  OBVIOUS
<1> QED
  BY InitType, TimeAssumption DEF Init, FadingInv, FadingRequest, Idle

LEMMA FadingStep ==
    ASSUME FadingInv, [Next]_vars
    PROVE  FadingInv'
<1>t. TypeOK /\ TypeOK'
  BY StepType DEF FadingInv
<1>0. /\ req \in [Requests -> RequestType] /\ req' \in [Requests -> RequestType]
      /\ quiet \in Nat /\ quiet' \in Nat
      /\ left \in -1 .. SessionTTL /\ left' \in -1 .. SessionTTL
  BY <1>t, TimeAssumption DEF TypeOK, RequestType, LongQuiet
<1> USE TimeAssumption
<1>1. ASSUME NEW r \in Requests, Read(r)
      PROVE  FadingInv'
  <2>1. \A s \in Requests : FadingRequest(req[s])'
    BY <1>0, <1>1 DEF Read, FadingInv, FadingRequest
  <2> QED
    BY <1>t, <1>1, <2>1 DEF Read, FadingInv
<1>2. ASSUME NEW r \in Requests, Check(r)
      PROVE  FadingInv'
  <2>1. req[r] \in RequestType /\ FadingRequest(req[r])
    BY <1>0 DEF FadingInv
  <2>2. left' < 0 \/ left' + quiet' <= SessionTTL
    BY <1>0, <1>2 DEF Check, LetThrough, FadingInv
  <2>3. ASSUME NEW s \in Requests, s # r
        PROVE  FadingRequest(req[s])'
    <3>1. req[s] \in RequestType /\ FadingRequest(req[s]) /\ req'[s] = req[s]
      BY <1>0, <1>2, <2>3 DEF Check, LetThrough, FadingInv
    <3>2. quiet' = quiet \/ quiet' = 0
      BY <1>2 DEF Check, LetThrough
    <3> QED
      BY <1>0, <3>1, <3>2 DEF FadingRequest, RequestType
  <2>4. FadingRequest(req[r])'
    <3>1. CASE Expired(req[r].left)
      BY <1>0, <1>2, <2>1, <3>1 DEF Check, FadingRequest, RequestType
    <3>2. CASE ~Expired(req[r].left) /\ Near(req[r].left)
      <4>1. /\ req'[r] = [req[r] EXCEPT !.phase = "refresh", !.left = SessionTTL]
            /\ quiet' = quiet
        BY <1>0, <1>2, <3>2 DEF Check, RequestType
      <4>2. quiet <= SessionTTL
        BY <1>0, <1>2, <2>1, <3>2 DEF Check, FadingRequest, RequestType, Expired
      <4> QED
        BY <1>0, <2>1, <4>1, <4>2 DEF FadingRequest, RequestType
    <3>3. CASE ~Expired(req[r].left) /\ ~Near(req[r].left)
      BY <1>0, <1>2, <3>3 DEF Check, LetThrough, FadingRequest, Idle
    <3> QED
      BY <3>1, <3>2, <3>3
  <2> QED
    BY <1>t, <2>2, <2>3, <2>4 DEF FadingInv
<1>3. ASSUME NEW r \in Requests, DeleteSession(r) \/ DeleteFails(r)
      PROVE  FadingInv'
  <2>1. \A s \in Requests : FadingRequest(req[s])'
    BY <1>0, <1>3 DEF DeleteSession, DeleteFails, FadingInv, FadingRequest, Idle
  <2> QED
    BY <1>t, <1>3, <2>1 DEF DeleteSession, DeleteFails, FadingInv
<1>4. ASSUME NEW r \in Requests, RefreshSession(r) \/ RefreshFails(r)
      PROVE  FadingInv'
  <2>1. left' < 0 \/ left' + quiet' <= SessionTTL
    <3>1. quiet' = 0
      BY <1>4, Zenon DEF RefreshSession, RefreshFails, LetThrough
    <3>2. left' \in Int /\ left' <= SessionTTL
      BY <1>0
    <3>3. \A m, n \in Int : m <= SessionTTL /\ n = 0 => m + n <= SessionTTL
      OBVIOUS
    <3>4. quiet' \in Int
      BY <1>0
    <3> QED
      BY <3>1, <3>2, <3>3, <3>4, Zenon
  <2>2. ASSUME NEW s \in Requests
        PROVE  FadingRequest(req[s])'
    <3>1. req'[s] = Idle \/ req'[s] = req[s]
      BY <1>0, <1>4 DEF RefreshSession, RefreshFails, LetThrough
    <3>2. quiet' = 0
      BY <1>4, Zenon DEF RefreshSession, RefreshFails, LetThrough
    <3>3. req[s] \in RequestType
      BY <1>0
    <3> QED
      BY <1>0, <3>1, <3>2, <3>3 DEF FadingRequest, RequestType, Idle
  <2> QED
    BY <1>t, <2>1, <2>2 DEF FadingInv
<1>5. CASE Logout
  BY <1>t, <1>5 DEF Logout, FadingInv, FadingRequest
<1>6. CASE Tick
  <2>0. /\ left' = Later(left)
        /\ quiet' = IF quiet < LongQuiet THEN quiet + 1 ELSE quiet
    BY <1>6, Zenon DEF Tick
  <2>1. quiet' <= quiet + 1
    BY <1>0, <2>0
  <2>2. left' < 0 \/ left' + quiet' <= SessionTTL
    BY <1>0, <2>0, <2>1 DEF Later, FadingInv
  <2>3. ASSUME NEW s \in Requests
        PROVE  FadingRequest(req[s])'
    <3>1. CASE req[s].phase = "idle"
      BY <1>6, <3>1 DEF Tick, FadingRequest, Idle
    <3>2. CASE req[s].phase # "idle"
      <4>1. /\ req[s] \in RequestType /\ FadingRequest(req[s])
            /\ req'[s] = [req[s] EXCEPT !.left = Later(@), !.age = @ + 1]
        BY <1>0, <1>6, <3>2 DEF Tick, FadingInv
      <4>2. /\ req'[s].phase = req[s].phase
            /\ req'[s].left = Later(req[s].left)
            /\ req'[s].age = req[s].age + 1
        BY <4>1 DEF RequestType
      <4> QED
        BY <1>0, <2>1, <4>1, <4>2 DEF FadingRequest, RequestType, Later
    <3> QED
      BY <3>1, <3>2
  <2> QED
    BY <1>t, <2>2, <2>3 DEF FadingInv
<1>7. CASE UNCHANGED vars
  BY <1>t, <1>7 DEF vars, FadingInv, FadingRequest
<1> QED
  BY <1>1, <1>2, <1>3, <1>4, <1>5, <1>6, <1>7 DEF Next

\* A session nobody used for longer than SessionTTL lets nobody in any more.
THEOREM AbandonedStaysDead == Spec => AbandonedIsDead
<1>1. FadingInv /\ [Next]_vars => [quiet = LongQuiet => quiet' = LongQuiet]_vars
  <2> SUFFICES ASSUME FadingInv, Next, quiet = LongQuiet
               PROVE  quiet' = quiet
    BY DEF vars
  <2>1. req \in [Requests -> RequestType] /\ quiet = SessionTTL + Duration + 1
    BY DEF FadingInv, TypeOK, RequestType, LongQuiet
  <2>2. ASSUME NEW r \in Requests, Check(r)
        PROVE  quiet' = quiet
    <3>1. Expired(req[r].left)
      BY <2>1, <2>2, TimeAssumption
         DEF Check, FadingInv, FadingRequest, RequestType, Expired
    <3> QED
      BY <2>2, <3>1 DEF Check
  <2>3. ASSUME NEW r \in Requests
        PROVE  req[r].phase # "refresh"
    BY <2>1, TimeAssumption DEF FadingInv, FadingRequest, RequestType
  <2>4. CASE Tick
    <3>1. quiet' = IF quiet < LongQuiet THEN quiet + 1 ELSE quiet
      BY <2>4, Zenon DEF Tick
    <3> QED
      BY <2>1, <3>1, TimeAssumption DEF LongQuiet
  <2> QED
    BY <2>2, <2>3, <2>4
       DEF Next, Read, DeleteSession, DeleteFails, RefreshSession, RefreshFails,
           Logout
<1> QED
  BY <1>1, FadingInit, FadingStep, PTL DEF Spec, AbandonedIsDead

-----------------------------------------------------------------------------
(* The active player. *)

\* What a request in flight knows of the row: a read is no newer than Gap ago,
\* the row it read was only ever refreshed, and a new expiry is as old as the
\* request.
ActiveRequest(q) ==
    /\ q.phase # "delete"
    /\ q.phase = "check" =>
         /\ q.left + q.age >= SessionRefreshThreshold - Duration - Gap
         /\ \/ left >= q.left
            \/ left >= SessionTTL - Duration - q.age
    /\ q.phase = "refresh" => q.left + q.age >= SessionTTL

ActiveState ==
    /\ present
    /\ quiet <= Gap
    /\ left >= SessionRefreshThreshold - Duration - quiet
    /\ \A r \in Requests : ActiveRequest(req[r])

ActiveInv == TypeOK /\ (regular /\ ~loggedOut => ActiveState)

LEMMA ActiveInit ==
    ASSUME ActiveEnough, Init
    PROVE  ActiveInv
BY InitType, TimeAssumption
   DEF Init, ActiveInv, ActiveState, ActiveRequest, ActiveEnough, Idle

LEMMA ActiveStep ==
    ASSUME ActiveEnough, ActiveInv, [Next]_vars
    PROVE  ActiveInv'
<1>t. TypeOK /\ TypeOK'
  BY StepType DEF ActiveInv
<1> SUFFICES ASSUME regular', ~loggedOut'
             PROVE  ActiveState'
  BY <1>t DEF ActiveInv
<1>0. /\ req \in [Requests -> RequestType] /\ req' \in [Requests -> RequestType]
      /\ quiet \in Nat /\ quiet' \in Nat
      /\ left \in -1 .. SessionTTL /\ left' \in -1 .. SessionTTL
  BY <1>t, TimeAssumption DEF TypeOK, RequestType, LongQuiet
<1>s. ActiveState
  <2>1. ASSUME Next
        PROVE  regular /\ ~loggedOut
    <3>0. regular \in BOOLEAN /\ loggedOut \in BOOLEAN
      BY <1>t DEF TypeOK
    <3>1. ASSUME NEW r \in Requests, Read(r) \/ Check(r) \/ DeleteFails(r)
          PROVE  regular' = regular /\ loggedOut' = loggedOut
      BY <3>1, Zenon DEF Read, Check, DeleteFails
    <3>2. ASSUME NEW r \in Requests, DeleteSession(r) \/ RefreshSession(r)
          PROVE  regular' = regular /\ loggedOut' = loggedOut
      BY <3>2, Zenon DEF DeleteSession, DeleteFails, RefreshSession
    <3>3. ASSUME NEW r \in Requests, RefreshFails(r)
          PROVE  regular' = FALSE
      BY <3>3, Zenon DEF RefreshFails
    <3>4. ASSUME Logout
          PROVE  loggedOut' = TRUE
      BY <3>4, Zenon DEF Logout
    <3>5. ASSUME Tick
          PROVE  regular' = (regular /\ quiet < Gap) /\ loggedOut' = loggedOut
      BY <3>5, Zenon DEF Tick
    <3> QED
      BY <2>1, <3>0, <3>1, <3>2, <3>3, <3>4, <3>5 DEF Next
  <2>2. CASE UNCHANGED vars
    BY <2>2 DEF vars, ActiveInv
  <2> QED
    BY <2>1, <2>2 DEF ActiveInv
<1> USE TimeAssumption DEF ActiveEnough
<1>1. ASSUME NEW r \in Requests, Read(r)
      PROVE  ActiveState'
  <2>1. ASSUME NEW s \in Requests, s # r
        PROVE  ActiveRequest(req[s])'
    BY <1>s, <1>0, <1>1, <2>1 DEF Read, ActiveState, ActiveRequest
  <2>2. ActiveRequest(req[r])'
    BY <1>s, <1>0, <1>1 DEF Read, ActiveState, ActiveRequest
  <2> QED
    BY <1>s, <1>t, <1>1, <2>1, <2>2 DEF Read, ActiveState
<1>2. ASSUME NEW r \in Requests, Check(r)
      PROVE  ActiveState'
  <2>1. req[r] \in RequestType /\ ActiveRequest(req[r])
    BY <1>s, <1>0 DEF ActiveState
  <2>2. ~Expired(req[r].left)
    BY <1>s, <1>2, <2>1 DEF Check, ActiveRequest, RequestType, Expired
  <2>3. ASSUME NEW s \in Requests, s # r
        PROVE  ActiveRequest(req[s])'
    BY <1>s, <1>0, <1>2, <2>3 DEF Check, LetThrough, ActiveState, ActiveRequest
  <2>4. CASE Near(req[r].left)
    <3>1. /\ req'[r] = [req[r] EXCEPT !.phase = "refresh", !.left = SessionTTL]
          /\ UNCHANGED <<quiet, left, present>>
      BY <1>s, <1>0, <1>2, <2>2, <2>4 DEF Check, RequestType
    <3>2. ActiveRequest(req[r])'
      BY <2>1, <3>1 DEF ActiveRequest, RequestType
    <3> QED
      BY <1>s, <1>t, <2>3, <3>1, <3>2 DEF ActiveState
  <2>5. CASE ~Near(req[r].left)
    <3>1. req'[r] = Idle /\ quiet' = 0 /\ UNCHANGED <<left, present>>
      BY <1>s, <1>0, <1>2, <2>2, <2>5 DEF Check, LetThrough
    <3>2. left >= SessionRefreshThreshold - Duration
      BY <1>s, <1>0, <1>2, <2>1, <2>5 DEF Check, ActiveRequest, RequestType, Near
    <3>3. ActiveRequest(req[r])'
      BY <3>1 DEF ActiveRequest, Idle
    <3> QED
      BY <1>s, <1>t, <1>0, <2>3, <3>1, <3>2, <3>3 DEF ActiveState
  <2> QED
    BY <2>4, <2>5
<1>3. ASSUME NEW r \in Requests, DeleteSession(r) \/ DeleteFails(r)
      PROVE  ActiveState'
  BY <1>s, <1>3 DEF DeleteSession, DeleteFails, ActiveState, ActiveRequest
<1>4. ASSUME NEW r \in Requests, RefreshSession(r)
      PROVE  ActiveState'
  <2>1. req[r] \in RequestType /\ req[r].left >= SessionTTL - Duration
    BY <1>s, <1>0, <1>4 DEF RefreshSession, ActiveState, ActiveRequest, RequestType
  <2>2. left' = req[r].left /\ quiet' = 0 /\ present' = present
    BY <1>s, <1>4 DEF RefreshSession, LetThrough, ActiveState
  <2>3. ASSUME NEW s \in Requests
        PROVE  ActiveRequest(req[s])'
    <3>1. CASE s = r
      BY <1>s, <1>0, <1>4, <3>1 DEF RefreshSession, LetThrough, ActiveRequest, Idle
    <3>2. CASE s # r
      <4>1. req'[s] = req[s] /\ req[s] \in RequestType /\ ActiveRequest(req[s])
        BY <1>s, <1>0, <1>4, <3>2 DEF RefreshSession, LetThrough, ActiveState
      <4> QED
        BY <1>s, <1>0, <2>1, <2>2, <4>1 DEF ActiveRequest, RequestType
    <3> QED
      BY <3>1, <3>2
  <2> QED
    BY <1>s, <1>t, <1>0, <2>1, <2>2, <2>3 DEF ActiveState, RequestType
<1>5. CASE Tick
  <2>0. /\ left' = Later(left) /\ present' = present
        /\ quiet' = IF quiet < LongQuiet THEN quiet + 1 ELSE quiet
    BY <1>5, Zenon DEF Tick
  <2>1. left' >= left - 1 /\ present' = present
    BY <1>s, <1>0, <2>0 DEF Later
  <2>2. /\ quiet' <= Gap
        /\ left' >= SessionRefreshThreshold - Duration - quiet'
    <3>0. quiet < Gap
      BY <1>5, Zenon DEF Tick
    <3>1. quiet + 1 <= Gap /\ quiet < LongQuiet
      BY <1>s, <1>0, <3>0 DEF LongQuiet
    <3>2. quiet' = quiet + 1
      BY <2>0, <3>1
    <3> QED
      BY <1>s, <1>0, <2>1, <3>1, <3>2 DEF ActiveState
  <2>3. ASSUME NEW s \in Requests
        PROVE  ActiveRequest(req[s])'
    <3>1. CASE req[s].phase = "idle"
      BY <1>5, <3>1 DEF Tick, ActiveRequest, Idle
    <3>2. CASE req[s].phase # "idle"
      <4>1. /\ req[s] \in RequestType /\ ActiveRequest(req[s])
            /\ req'[s] = [req[s] EXCEPT !.left = Later(@), !.age = @ + 1]
            /\ left' = Later(left)
        BY <1>s, <1>0, <1>5, <3>2 DEF Tick, ActiveState
      <4>2. /\ req'[s].phase = req[s].phase
            /\ req'[s].left = Later(req[s].left)
            /\ req'[s].age = req[s].age + 1
        BY <4>1 DEF RequestType
      <4> QED
        BY <1>s, <1>0, <4>1, <4>2 DEF ActiveRequest, RequestType, Later
    <3> QED
      BY <3>1, <3>2
  <2> QED
    BY <1>s, <1>t, <2>1, <2>2, <2>3 DEF ActiveState
<1>6. /\ \A r \in Requests : ~RefreshFails(r)
      /\ ~Logout
  BY Zenon DEF RefreshFails, Logout
<1>7. CASE UNCHANGED vars
  BY <1>s, <1>7 DEF vars, ActiveState, ActiveRequest
<1> QED
  BY <1>1, <1>2, <1>3, <1>4, <1>5, <1>6, <1>7 DEF Next

\* A player who comes back at least every Gap is never logged out, however
\* many of their requests run at once, as long as the pause and two requests
\* fit in the refresh threshold, a refresh reaches beyond it and none fails.
THEOREM ActivePlayersStayIn ==
    ASSUME ActiveEnough
    PROVE  Spec => []ActiveStaysIn
<1>1. Init => ActiveInv
  BY ActiveInit
<1>2. ActiveInv /\ [Next]_vars => ActiveInv'
  BY ActiveStep
<1>3. ActiveInv => ActiveStaysIn
  BY DEF ActiveInv, ActiveState, ActiveRequest, ActiveStaysIn
<1> QED
  BY <1>1, <1>2, <1>3, PTL DEF Spec

-----------------------------------------------------------------------------
(* The promised expiry. *)

\* The promise was made no longer ago than age and one request duration.
Fresh(age) == SessionTTL - promised <= Duration + age

\* A new expiry was computed no longer ago than its request is old; an expiry read
\* is the one promised, unless another has been promised since.
PromiseRequest(q) ==
    /\ q.phase = "refresh" => SessionTTL - q.left <= q.age
    /\ q.phase = "check" => q.left = promised \/ Fresh(q.age)
    /\ q.phase = "delete" => promised < 0 \/ Fresh(q.age)

PromiseInv ==
    /\ TypeOK
    /\ present => left = promised
    /\ \A r \in Requests : PromiseRequest(req[r])

LEMMA PromiseStep ==
    ASSUME PromiseInv, [Next]_vars
    PROVE  PromiseInv'
<1>0. /\ req \in [Requests -> RequestType]
      /\ left \in -1 .. SessionTTL /\ promised \in -1 .. SessionTTL
  BY DEF PromiseInv, TypeOK, RequestType
<1>t. TypeOK'
  BY StepType DEF PromiseInv
<1> USE TimeAssumption
<1>1. ASSUME NEW r \in Requests, Read(r)
      PROVE  PromiseInv'
  BY <1>t, <1>0, <1>1 DEF Read, PromiseInv, PromiseRequest, Fresh
<1>2. ASSUME NEW r \in Requests, Check(r)
      PROVE  PromiseInv'
  <2>1. req[r] \in RequestType /\ PromiseRequest(req[r]) /\ req[r].phase = "check"
    BY <1>0, <1>2 DEF Check, PromiseInv
  <2>2. UNCHANGED <<present, left, promised>>
    BY <1>2 DEF Check
  <2>3. ASSUME NEW s \in Requests, s # r
        PROVE  PromiseRequest(req[s])'
    <3>1. req'[s] = req[s]
      BY <1>0, <1>2, <2>3 DEF Check, LetThrough
    <3> QED
      BY <2>2, <3>1 DEF PromiseInv, PromiseRequest, Fresh
  <2>4. PromiseRequest(req[r])'
    <3>1. \/ Expired(req[r].left) /\ req'[r] = [req[r] EXCEPT !.phase = "delete"]
          \/ req'[r] = [req[r] EXCEPT !.phase = "refresh", !.left = SessionTTL]
          \/ req'[r] = Idle
      BY <1>0, <1>2 DEF Check, LetThrough
    <3>2. CASE Expired(req[r].left) /\ req'[r] = [req[r] EXCEPT !.phase = "delete"]
      <4>1. req'[r].phase = "delete" /\ req'[r].age = req[r].age
        BY <2>1, <3>2 DEF RequestType
      <4>2. promised < 0 \/ Fresh(req[r].age)
        BY <2>1, <3>2 DEF PromiseRequest, Expired
      <4> QED
        BY <2>2, <4>1, <4>2 DEF PromiseRequest, Fresh
    <3>3. CASE req'[r] = [req[r] EXCEPT !.phase = "refresh", !.left = SessionTTL]
      BY <2>1, <3>3 DEF PromiseRequest, RequestType
    <3>4. CASE req'[r] = Idle
      BY <3>4 DEF PromiseRequest, Idle
    <3> QED
      BY <3>1, <3>2, <3>3, <3>4
  <2> QED
    BY <1>t, <2>2, <2>3, <2>4 DEF PromiseInv
<1>3. ASSUME NEW r \in Requests, DeleteSession(r) \/ DeleteFails(r)
      PROVE  PromiseInv'
  <2>1. ASSUME NEW s \in Requests
        PROVE  PromiseRequest(req[s])'
    BY <1>0, <1>3 DEF DeleteSession, DeleteFails, PromiseInv, PromiseRequest, Fresh, Idle
  <2> QED
    BY <1>t, <1>3, <2>1 DEF DeleteSession, DeleteFails, PromiseInv
<1>4. ASSUME NEW r \in Requests, RefreshSession(r)
      PROVE  PromiseInv'
  <2>1. req[r] \in RequestType /\ SessionTTL - req[r].left <= Duration
    BY <1>0, <1>4 DEF RefreshSession, PromiseInv, PromiseRequest, RequestType
  <2>2. promised' = req[r].left /\ present' = present /\ (present => left' = req[r].left)
    BY <1>4 DEF RefreshSession
  <2>3. ASSUME NEW s \in Requests
        PROVE  PromiseRequest(req[s])'
    <3>1. CASE s = r
      BY <1>0, <1>4, <3>1 DEF RefreshSession, LetThrough, PromiseRequest, Idle
    <3>2. CASE s # r
      <4>1. req'[s] = req[s] /\ req[s] \in RequestType /\ PromiseRequest(req[s])
        BY <1>0, <1>4, <3>2 DEF RefreshSession, LetThrough, PromiseInv
      <4> QED
        BY <2>1, <2>2, <4>1 DEF PromiseRequest, Fresh, RequestType
    <3> QED
      BY <3>1, <3>2
  <2> QED
    BY <1>t, <2>2, <2>3 DEF PromiseInv
<1>5. ASSUME NEW r \in Requests, RefreshFails(r)
      PROVE  PromiseInv'
  <2>1. ASSUME NEW s \in Requests
        PROVE  PromiseRequest(req[s])'
    BY <1>0, <1>5 DEF RefreshFails, LetThrough, PromiseInv, PromiseRequest, Fresh, Idle
  <2> QED
    BY <1>t, <1>5, <2>1 DEF RefreshFails, PromiseInv
<1>6. CASE Logout
  BY <1>t, <1>6 DEF Logout, PromiseInv, PromiseRequest, Fresh
<1>7. CASE Tick
  <2>1. left' = Later(left) /\ promised' = Later(promised) /\ present' = present
    BY <1>7 DEF Tick
  <2>2. ASSUME NEW s \in Requests
        PROVE  PromiseRequest(req[s])'
    <3>1. CASE req[s].phase = "idle"
      BY <1>7, <3>1 DEF Tick, PromiseRequest, Idle
    <3>2. CASE req[s].phase # "idle"
      <4>1. /\ req[s] \in RequestType /\ PromiseRequest(req[s])
            /\ req'[s] = [req[s] EXCEPT !.left = Later(@), !.age = @ + 1]
        BY <1>0, <1>7, <3>2 DEF Tick, PromiseInv
      <4>2. /\ req'[s].phase = req[s].phase
            /\ req'[s].left = Later(req[s].left)
            /\ req'[s].age = req[s].age + 1
        BY <4>1 DEF RequestType
      <4> QED
        BY <1>0, <2>1, <4>1, <4>2 DEF PromiseRequest, Fresh, RequestType, Later
    <3> QED
      BY <3>1, <3>2
  <2> QED
    BY <1>t, <2>1, <2>2 DEF PromiseInv
<1>8. CASE UNCHANGED vars
  BY <1>t, <1>8 DEF vars, PromiseInv, PromiseRequest, Fresh
<1> QED
  BY <1>1, <1>2, <1>3, <1>4, <1>5, <1>6, <1>7, <1>8 DEF Next

\* What the refuted RefreshHolds leaves true: a session whose refresh lies further
\* back than two request durations lasts until the promised expiry, for any
\* number of requests in flight and any durations.
THEOREM PromisesAreKept == Spec => PromiseIsKept
<1>1. Init => PromiseInv
  BY InitType, TimeAssumption DEF Init, PromiseInv, PromiseRequest, Idle
<1>2. PromiseInv /\ [Next]_vars => PromiseInv'
  BY PromiseStep
<1>3. PromiseInv /\ [Next]_vars =>
        [present /\ ~present' /\ ~loggedOut' =>
           promised < 0 \/ promised >= SessionTTL - 2 * Duration]_vars
  <2> SUFFICES ASSUME PromiseInv, Next, present, ~present', ~loggedOut'
               PROVE  promised < 0 \/ promised >= SessionTTL - 2 * Duration
    BY DEF vars
  <2>1. PICK r \in Requests : DeleteSession(r)
    BY DEF Next, Read, Check, DeleteFails, RefreshSession, RefreshFails, Logout, Tick
  <2>2. req[r] \in RequestType /\ promised \in -1 .. SessionTTL
    BY DEF PromiseInv, TypeOK, RequestType
  <2>3. promised < 0 \/ Fresh(req[r].age)
    BY <2>1 DEF DeleteSession, DeleteFails, PromiseInv, PromiseRequest
  <2> QED
    BY <2>2, <2>3, TimeAssumption DEF Fresh, RequestType
<1> QED
  BY <1>1, <1>2, <1>3, PTL DEF Spec, PromiseIsKept
=============================================================================
