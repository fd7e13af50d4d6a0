--------------------------- MODULE MigrationsProofs ---------------------------
(* Proofs about db.Migrate, for any number of processes on one file.           *)
EXTENDS Migrations, TLAPS

Towards(p) == proc[p].phase \in {"mark", "run"}
Done(p) == proc[p].phase = "clean"

\* A process on its way to v finds the schema at v - 1 or beyond.
AtLeastThere ==
    \A p \in Procs : Towards(p) => proc[p].at \in 1 .. Latest /\ proc[p].at <= schema + 1

\* Only one process has run the body of the schema's version and not yet said
\* so; nobody is on the way to a later one.
OneHerald ==
    \A p \in Procs : Done(p) =>
        /\ dirty
        /\ schema = proc[p].at
        /\ \A q \in Procs : Towards(q) => proc[q].at <= schema
        /\ \A q \in Procs : Done(q) => q = p

\* A body about to succeed has been announced.
Announced ==
    \A p \in Procs : proc[p].phase = "run" /\ proc[p].at = schema + 1 => dirty

FileInv == CleanMeansCurrent /\ ReadyIsCurrent /\ AtLeastThere /\ OneHerald /\ Announced

-----------------------------------------------------------------------------
(* Types. *)

LEMMA TurnedType ==
    ASSUME NEW a, NEW From, NEW To, NEW b \in Turned(a, From, To)
    PROVE  b \in [To -> From \cup {None}]
BY DEF Turned

LEMMA BooleanStep ==
    dirty \in BOOLEAN /\ disturbed \in BOOLEAN /\ [Next]_vars =>
        dirty' \in BOOLEAN /\ disturbed' \in BOOLEAN
<1> SUFFICES ASSUME dirty \in BOOLEAN, disturbed \in BOOLEAN, [Next]_vars
             PROVE  dirty' \in BOOLEAN /\ disturbed' \in BOOLEAN
  OBVIOUS
<1>1. dirty' \in {TRUE, FALSE, dirty}
  BY DEF Next, Migrate, Start, ReadVersion, SetDirty, Run, SetClean, Stop, StepDown,
         WriteTool, DeleteLevel, LoadSeed, Write, file, vars
<1>2. disturbed' = disturbed \/ disturbed' \in BOOLEAN
  BY DEF Next, Migrate, Start, ReadVersion, SetDirty, Run, SetClean, Stop, StepDown,
         WriteTool, DeleteLevel, LoadSeed, Write, file, vars
<1>3. dirty' \in BOOLEAN
  BY <1>1, Zenon
<1>4. disturbed' \in BOOLEAN
  BY <1>2, Zenon
<1> QED
  BY <1>3, <1>4

LEMMA TypeStep == TypeOK /\ CleanMeansCurrent /\ [Next]_vars => TypeOK'
<1> SUFFICES ASSUME TypeOK, CleanMeansCurrent, [Next]_vars
             PROVE  TypeOK'
  OBVIOUS
<1>0. dirty' \in BOOLEAN /\ disturbed' \in BOOLEAN
  BY BooleanStep DEF TypeOK
<1> USE <1>0 DEF TypeOK, Latest
<1>1. ASSUME NEW p \in Procs, Start(p)
      PROVE  TypeOK'
  BY <1>1 DEF Start, Go, file
<1>2. ASSUME NEW p \in Procs, ReadVersion(p)
      PROVE  TypeOK'
  BY <1>2 DEF ReadVersion, Go, Exit, Down, file
<1>3. ASSUME NEW p \in Procs, SetDirty(p)
      PROVE  TypeOK'
  BY <1>3 DEF SetDirty, Go
<1>4. ASSUME NEW p \in Procs, Run(p)
      PROVE  TypeOK'
  <2>1. CASE ~Runs(proc[p].at)
    BY <1>4, <2>1 DEF Run, Go, Exit, Down
  <2>2. CASE Runs(proc[p].at)
    <3>1. proc[p].at \in 1 .. Latest
      BY <2>2, <1>4 DEF Runs
    <3>2. schema' = proc[p].at /\ proc' = [proc EXCEPT ![p] = [phase |-> "clean", at |-> proc[p].at]]
      BY <1>4, <2>2 DEF Run, Transform, Go
    <3>3. unlocks' \in IF schema' = 2 THEN [Tools -> Levels \cup {None}]
                                      ELSE [Levels -> Tools \cup {None}]
      <4>1. CASE proc[p].at = 1
        BY <1>4, <2>2, <3>2, <4>1 DEF Run, Transform
      <4>2. CASE proc[p].at = 2
        <5>1. unlocks' \in UpBody(unlocks)
          BY <1>4, <2>2, <4>2 DEF Run, Transform
        <5> QED
          BY <5>1, <3>2, <4>2, TurnedType DEF UpBody
      <4> QED
        BY <3>1, <4>1, <4>2
    <3> QED
      BY <3>1, <3>2, <3>3, <1>4 DEF Run
  <2> QED
    BY <2>1, <2>2
<1>5. ASSUME NEW p \in Procs, SetClean(p)
      PROVE  TypeOK'
  <2>1. proc[p].at \in 0 .. 2
    BY <1>5
  <2>2. proc' \in [Procs -> [phase : {"down", "open", "mark", "run", "clean", "ready"},
                             at : 0 .. 2]]
    BY <1>5, <2>1 DEF SetClean, Go
  <2> QED
    BY <1>5, <2>1, <2>2 DEF SetClean
<1>6. ASSUME NEW p \in Procs, Stop(p)
      PROVE  TypeOK'
  BY <1>6 DEF Stop, Exit, Down, file
<1>7. ASSUME StepDown
      PROVE  TypeOK'
  <2>1. unlocks' \in [Levels -> Tools \cup {None}]
    BY <1>7, TurnedType DEF StepDown, DownBody
  <2>2. schema = 2 /\ version' = 1 /\ schema' = 1
    BY <1>7 DEF StepDown, CleanMeansCurrent
  <2> QED
    BY <1>7, <2>1, <2>2 DEF StepDown
<1>8. ASSUME NEW b \in [Tools -> Levels \cup {None}], Write(b)
      PROVE  TypeOK'
  <2>1. /\ schema' = 2 /\ unlocks' \in [Tools -> Levels \cup {None}]
        /\ UNCHANGED <<version, proc>>
    BY <1>8 DEF Write
  <2>2. origin' \subseteq Levels \X Tools
    BY <1>8, <2>1 DEF Write, Pairs
  <2> QED
    BY <2>1, <2>2
<1>9. CASE UNCHANGED vars
  BY <1>9 DEF vars
<1>10. ASSUME NEW t \in Tools, NEW l \in Levels \cup {None}, WriteTool(t, l)
       PROVE  TypeOK'
  BY <1>8, <1>10 DEF WriteTool, Write
<1>11. ASSUME NEW l \in Levels, DeleteLevel(l)
       PROVE  TypeOK'
  BY <1>8, <1>11 DEF DeleteLevel, Write
<1> QED
  BY <1>1, <1>2, <1>3, <1>4, <1>5, <1>6, <1>7, <1>8, <1>9, <1>10, <1>11
     DEF Next, Migrate, LoadSeed

-----------------------------------------------------------------------------
(* The version table. *)

LEMMA FileStep == TypeOK /\ FileInv /\ [Next]_vars => FileInv'
<1> SUFFICES ASSUME TypeOK, FileInv, [Next]_vars
             PROVE  FileInv'
  OBVIOUS
<1> USE DEF FileInv, CleanMeansCurrent, ReadyIsCurrent, AtLeastThere, OneHerald,
            Announced, Towards, Done, Latest
<1>0. /\ proc \in [Procs -> [phase : {"down", "open", "mark", "run", "clean", "ready"},
                             at : 0 .. 2]]
      /\ schema \in 0 .. 2 /\ version \in 0 .. 2
  BY DEF TypeOK
<1>1. ASSUME NEW p \in Procs, Start(p)
      PROVE  FileInv'
  BY <1>0, <1>1 DEF Start, Go, file
<1>2. ASSUME NEW p \in Procs, ReadVersion(p)
      PROVE  FileInv'
  BY <1>0, <1>2 DEF ReadVersion, Go, Exit, Down, file
<1>3. ASSUME NEW p \in Procs, SetDirty(p)
      PROVE  FileInv'
  BY <1>0, <1>3 DEF SetDirty, Go
<1>4. ASSUME NEW p \in Procs, Run(p)
      PROVE  FileInv'
  <2>1. CASE ~Runs(proc[p].at)
    BY <1>0, <1>4, <2>1 DEF Run, Exit, Down
  <2>2. CASE Runs(proc[p].at)
    <3>1. /\ proc[p].phase = "run" /\ proc[p].at = schema + 1 /\ schema' = schema + 1
          /\ proc' = [proc EXCEPT ![p] = [phase |-> "clean", at |-> schema + 1]]
          /\ version' = version /\ dirty' = dirty /\ dirty
      BY <1>0, <1>4, <2>2 DEF Run, Runs, Transform, Go
    <3>2. \A q \in Procs : ~Done(q)
      BY <1>0, <3>1
    <3>3. \A q \in Procs : proc[q].phase # "ready"
      BY <1>0, <3>1
    <3> QED
      BY <1>0, <3>1, <3>2, <3>3
  <2> QED
    BY <2>1, <2>2
<1>5. ASSUME NEW p \in Procs, SetClean(p)
      PROVE  FileInv'
  BY <1>0, <1>5 DEF SetClean, Go
<1>6. ASSUME NEW p \in Procs, Stop(p)
      PROVE  FileInv'
  BY <1>0, <1>6 DEF Stop, Exit, Down, file
<1>7. ASSUME StepDown
      PROVE  FileInv'
  BY <1>0, <1>7 DEF StepDown, Down
<1>8. ASSUME UNCHANGED <<version, dirty, schema, proc>>
      PROVE  FileInv'
  BY <1>8
<1> QED
  BY <1>1, <1>2, <1>3, <1>4, <1>5, <1>6, <1>7, <1>8
     DEF Next, Migrate, WriteTool, DeleteLevel, LoadSeed, Write, vars

LEMMA InitialState == Init => TypeOK /\ FileInv
<1> SUFFICES ASSUME Init
             PROVE  TypeOK /\ FileInv
  OBVIOUS
<1>1. dirty \in BOOLEAN /\ disturbed \in BOOLEAN
  BY Zenon DEF Init
<1>2. TypeOK
  BY <1>1 DEF Init, TypeOK, Pairs, Latest, Down
<1>3. FileInv
  BY DEF Init, Down, FileInv, CleanMeansCurrent, ReadyIsCurrent, AtLeastThere, OneHerald,
         Announced, Towards, Done, Latest
<1> QED
  BY <1>2, <1>3

LEMMA Invariant == Safe => [](TypeOK /\ FileInv)
<1>1. TypeOK /\ FileInv /\ [Next]_vars => (TypeOK /\ FileInv)'
  BY TypeStep, FileStep DEF FileInv
<1> QED
  BY InitialState, <1>1, PTL DEF Safe

\* The columns of the version table, the assignments and the processes have
\* their types in every reachable state.
THEOREM TypeCorrect == Safe => []TypeOK
BY Invariant, PTL

\* A file marked clean has the schema of its version, for any number of
\* processes that start, fail and die in db.Migrate together.
THEOREM CleanIsCurrent == Safe => []CleanMeansCurrent
<1>1. FileInv => CleanMeansCurrent
  BY DEF FileInv
<1> QED
  BY Invariant, <1>1, PTL

\* Whoever gets through db.Migrate works on the latest schema.
THEOREM ReadyOnLatest == Safe => []ReadyIsCurrent
<1>1. FileInv => ReadyIsCurrent
  BY DEF FileInv
<1> QED
  BY Invariant, <1>1, PTL

-----------------------------------------------------------------------------
(* The data. *)

\* A new file has nothing to carry.
NothingYet == schema = 0 => origin = {}

OneToOne(P) == \A a, b \in P : a[1] = b[1] \/ a[2] = b[2] => a = b
Carries(P, Q) == \A a \in P : \E b \in Q : a[1] = b[1] \/ a[2] = b[2]

\* What a migration has written, no migration thins out again.
CarryInv ==
    /\ AssignmentsCarried
    /\ Pairs = origin \/ OneToOne(Pairs)
    /\ NothingYet

\* A thinner set that carries P carries what P does, if P is all there is or
\* has nothing left to choose from.
LEMMA Thinned ==
    ASSUME NEW P, NEW Q, NEW O,
           Q \subseteq P, P \subseteq O, Carries(O, P), Carries(P, Q),
           P = O \/ OneToOne(P)
    PROVE  Q \subseteq O /\ Carries(O, Q)
<1>1. CASE P = O
  BY <1>1
<1>2. CASE OneToOne(P)
  <2>1. P \subseteq Q
    BY <1>2 DEF Carries, OneToOne
  <2> QED
    BY <2>1
<1> QED
  BY <1>1, <1>2

\* The way up: of the levels of a tool one is kept.
LEMMA TurnedUp ==
    ASSUME TypeOK, schema = 1, schema' = 2, unlocks' \in UpBody(unlocks)
    PROVE  Pairs' \subseteq Pairs /\ Carries(Pairs, Pairs') /\ OneToOne(Pairs')
<1>1. /\ unlocks \in [Levels -> Tools \cup {None}]
      /\ unlocks' \in [Tools -> Levels \cup {None}]
  BY TurnedType DEF TypeOK, UpBody
<1>2. \A t \in Tools : IF \E l \in Levels : unlocks[l] = t
                         THEN unlocks'[t] \in Levels /\ unlocks[unlocks'[t]] = t
                         ELSE unlocks'[t] = None
  BY DEF UpBody, Turned
<1>3. /\ Pairs = {<<l, unlocks[l]>> : l \in {l \in Levels : unlocks[l] # None}}
      /\ Pairs' = {<<unlocks'[t], t>> : t \in {t \in Tools : unlocks'[t] # None}}
  BY DEF Pairs
<1>4. Pairs' \subseteq Pairs
  BY <1>1, <1>2, <1>3, NoneAssumption
<1>5. Carries(Pairs, Pairs')
  <2> SUFFICES ASSUME NEW l \in Levels, unlocks[l] # None
               PROVE  \E b \in Pairs' : b[2] = unlocks[l]
    BY <1>3 DEF Carries
  <2>1. unlocks[l] \in Tools
    BY <1>1
  <2>2. unlocks'[unlocks[l]] \in Levels
    BY <1>2, <2>1
  <2>3. <<unlocks'[unlocks[l]], unlocks[l]>> \in Pairs'
    BY <1>3, <2>1, <2>2, NoneAssumption
  <2> QED
    BY <2>3
<1>6. OneToOne(Pairs')
  BY <1>3, <1>4 DEF OneToOne
<1> QED
  BY <1>4, <1>5, <1>6

\* The way down: of the tools of a level one is kept.
LEMMA TurnedDown ==
    ASSUME TypeOK, schema = 2, schema' = 1, unlocks' \in DownBody(unlocks)
    PROVE  Pairs' \subseteq Pairs /\ Carries(Pairs, Pairs') /\ OneToOne(Pairs')
<1>1. /\ unlocks \in [Tools -> Levels \cup {None}]
      /\ unlocks' \in [Levels -> Tools \cup {None}]
  BY TurnedType DEF TypeOK, DownBody
<1>2. \A l \in Levels : IF \E t \in Tools : unlocks[t] = l
                          THEN unlocks'[l] \in Tools /\ unlocks[unlocks'[l]] = l
                          ELSE unlocks'[l] = None
  BY DEF DownBody, Turned
<1>3. /\ Pairs = {<<unlocks[t], t>> : t \in {t \in Tools : unlocks[t] # None}}
      /\ Pairs' = {<<l, unlocks'[l]>> : l \in {l \in Levels : unlocks'[l] # None}}
  BY DEF Pairs
<1>4. Pairs' \subseteq Pairs
  BY <1>1, <1>2, <1>3, NoneAssumption
<1>5. Carries(Pairs, Pairs')
  <2> SUFFICES ASSUME NEW t \in Tools, unlocks[t] # None
               PROVE  \E b \in Pairs' : b[1] = unlocks[t]
    BY <1>3 DEF Carries
  <2>1. unlocks[t] \in Levels
    BY <1>1
  <2>2. unlocks'[unlocks[t]] \in Tools
    BY <1>2, <2>1
  <2>3. <<unlocks[t], unlocks'[unlocks[t]]>> \in Pairs'
    BY <1>3, <2>1, <2>2, NoneAssumption
  <2> QED
    BY <2>3
<1>6. OneToOne(Pairs')
  BY <1>3, <1>4 DEF OneToOne
<1> QED
  BY <1>4, <1>5, <1>6

LEMMA CarryStep == TypeOK /\ FileInv /\ CarryInv /\ [Next]_vars => CarryInv'
<1> SUFFICES ASSUME TypeOK, FileInv, CarryInv, [Next]_vars
             PROVE  CarryInv'
  OBVIOUS
<1>0. /\ Pairs \subseteq origin /\ Carries(origin, Pairs)
      /\ Pairs = origin \/ OneToOne(Pairs)
  BY DEF CarryInv, AssignmentsCarried, Carries
<1>1. CASE UNCHANGED <<schema, unlocks, origin>>
  <2>1. Pairs' = Pairs
    BY <1>1 DEF Pairs
  <2> QED
    BY <1>1, <2>1 DEF CarryInv, AssignmentsCarried, NothingYet, OneToOne
<1>2. ASSUME origin' = origin, schema' # 0,
             Pairs' \subseteq Pairs, Carries(Pairs, Pairs'), OneToOne(Pairs')
      PROVE  CarryInv'
  <2>1. Pairs' \subseteq origin /\ Carries(origin, Pairs')
    BY <1>0, <1>2, Thinned
  <2> QED
    BY <1>2, <2>1 DEF CarryInv, AssignmentsCarried, NothingYet, Carries, OneToOne
<1>3. ASSUME NEW p \in Procs, Run(p), Runs(proc[p].at)
      PROVE  CarryInv'
  <2>1. /\ schema' = schema + 1 /\ proc[p].at = schema + 1 /\ schema' \in {1, 2}
        /\ schema \in 0 .. 2 /\ origin' = origin
    BY <1>3 DEF Run, Runs, Transform, TypeOK, Latest
  <2>2. CASE schema = 0
    <3>1. origin = {} /\ unlocks' = [l \in Levels |-> None] /\ schema' = 1
      BY <1>3, <2>1, <2>2 DEF Run, Transform, CarryInv, NothingYet
    <3>2. Pairs = {} /\ Pairs' = {}
      BY <1>0, <3>1 DEF Pairs
    <3> QED
      BY <1>2, <2>1, <3>2 DEF Carries, OneToOne
  <2>3. CASE schema = 1
    <3>1. unlocks' \in UpBody(unlocks)
      BY <1>3, <2>1, <2>3 DEF Run, Transform
    <3> QED
      BY <1>2, <2>1, <2>3, <3>1, TurnedUp
  <2> QED
    BY <2>1, <2>2, <2>3
<1>4. ASSUME StepDown
      PROVE  CarryInv'
  <2>1. /\ schema = 2 /\ schema' = 1 /\ origin' = origin
        /\ unlocks' \in DownBody(unlocks)
    BY <1>4 DEF StepDown, FileInv, CleanMeansCurrent, Latest
  <2> QED
    BY <1>2, <2>1, TurnedDown
<1>5. ASSUME NEW b, Write(b)
      PROVE  CarryInv'
  <2>1. origin' = Pairs' /\ schema' = 2
    BY <1>5 DEF Write
  <2> QED
    BY <2>1 DEF CarryInv, AssignmentsCarried, NothingYet
<1> QED
  BY <1>1, <1>3, <1>4, <1>5
     DEF Next, Migrate, Start, ReadVersion, SetDirty, Run, SetClean, Stop, WriteTool,
         DeleteLevel, LoadSeed, file, vars

\* The assignments somebody made survive any number of ways up and down but for
\* the ones that shared their level or their tool with one that stays: the first
\* migration after a write makes them one to one, and from then on nothing is
\* lost, however many processes migrate and die.
THEOREM AssignmentsAreCarried == Safe => []AssignmentsCarried
<1>1. Init => CarryInv
  BY DEF Init, CarryInv, AssignmentsCarried, NothingYet, Pairs
<1>2. CarryInv => AssignmentsCarried
  BY DEF CarryInv
<1> QED
  BY <1>1, <1>2, Invariant, CarryStep, PTL DEF Safe

-----------------------------------------------------------------------------
(* The undisturbed start. *)

\* As long as nobody dies in a migration or starts into one, one process at most
\* migrates, the file is dirty in its hands only, and the body it comes to is
\* the next one.
Alone ==
    /\ \A p, q \in Procs : Migrating(p) /\ Migrating(q) => p = q
    /\ (\A p \in Procs : ~Migrating(p)) => ~dirty
    /\ \A p \in Procs :
         /\ proc[p].phase \in {"open", "mark"} => ~dirty
         /\ Towards(p) => proc[p].at = schema + 1

AloneInv == ~disturbed => Alone

LEMMA AloneStep == TypeOK /\ FileInv /\ AloneInv /\ [Next]_vars => AloneInv'
<1> SUFFICES ASSUME TypeOK, FileInv, AloneInv, [Next]_vars, ~disturbed'
             PROVE  Alone'
  BY DEF AloneInv
<1>0. /\ proc \in [Procs -> [phase : {"down", "open", "mark", "run", "clean", "ready"},
                             at : 0 .. 2]]
      /\ schema \in 0 .. 2 /\ version \in 0 .. 2
      /\ ~dirty => schema = version
      /\ \A p \in Procs : Done(p) => schema = proc[p].at
  BY DEF TypeOK, Latest, FileInv, CleanMeansCurrent, OneHerald
<1>a. ~disturbed /\ Alone
  <2>1. ASSUME NEW p \in Procs, Start(p) \/ Stop(p)
        PROVE  ~disturbed
    BY <2>1 DEF Start, Stop
  <2>2. ASSUME NEW p \in Procs, Migrate(p)
        PROVE  ~disturbed
    BY <2>2 DEF Migrate, ReadVersion, SetDirty, Run, SetClean
  <2>3. ASSUME StepDown \/ UNCHANGED vars \/ \E b : Write(b)
        PROVE  ~disturbed
    BY <2>3 DEF StepDown, Write, vars
  <2> QED
    BY <2>1, <2>2, <2>3 DEF Next, WriteTool, DeleteLevel, LoadSeed, AloneInv
<1> USE <1>0, <1>a DEF Alone, Migrating, Towards, Done
<1>1. ASSUME NEW p \in Procs, Start(p)
      PROVE  Alone'
  <2>1. /\ \A q \in Procs : ~Migrating(q)
        /\ ~dirty' /\ schema' = schema
        /\ proc' = [proc EXCEPT ![p] = [phase |-> "open", at |-> 0]]
    BY <1>1 DEF Start, Go, file
  <2> QED
    BY <2>1
<1>2. ASSUME NEW p \in Procs, ReadVersion(p)
      PROVE  Alone'
  BY <1>2 DEF ReadVersion, Go, file, Latest
<1>3. ASSUME NEW p \in Procs, SetDirty(p)
      PROVE  Alone'
  BY <1>3 DEF SetDirty, Go
<1>4. ASSUME NEW p \in Procs, Run(p)
      PROVE  Alone'
  BY <1>4 DEF Run, Runs, Transform, Go
<1>5. ASSUME NEW p \in Procs, SetClean(p)
      PROVE  Alone'
  BY <1>5 DEF SetClean, Go
<1>6. ASSUME NEW p \in Procs, Stop(p)
      PROVE  Alone'
  BY <1>6 DEF Stop, Exit, Down, file
<1>7. ASSUME StepDown
      PROVE  Alone'
  BY <1>7 DEF StepDown, Down
<1>8. ASSUME UNCHANGED <<dirty, schema, proc>>
      PROVE  Alone'
  BY <1>8
<1> QED
  BY <1>1, <1>2, <1>3, <1>4, <1>5, <1>6, <1>7, <1>8
     DEF Next, Migrate, WriteTool, DeleteLevel, LoadSeed, Write, vars

\* A start that is left alone is never turned away: neither by a dirty file nor
\* by a body that fails on the schema it finds.
THEOREM LeftAloneItServes == Safe => UndisturbedIsServed
<1>1. Init => AloneInv
  BY DEF Init, Down, AloneInv, Alone, Migrating, Towards
<1>2. TypeOK /\ FileInv /\ AloneInv /\ AloneInv' /\ [Next]_vars =>
        [\A p \in Procs : Migrating(p) /\ ~disturbed' => proc'[p] # Down]_vars
  <2> SUFFICES ASSUME TypeOK, AloneInv, Next, NEW p \in Procs, Migrating(p), ~disturbed'
               PROVE  proc'[p] # Down
    BY DEF vars
  <2>0. proc \in [Procs -> [phase : {"down", "open", "mark", "run", "clean", "ready"},
                             at : 0 .. 2]]
    BY DEF TypeOK, Latest
  <2>1. ASSUME NEW q \in Procs, Start(q) \/ Stop(q)
        PROVE  proc'[p] # Down
    <3>1. proc[p] # Down
      BY DEF Migrating, Down
    <3>2. CASE Start(q)
      BY <2>0, <3>1, <3>2 DEF Start, Go, Down
    <3>3. CASE Stop(q)
      <4>1. ~Migrating(q)
        BY <3>3, Zenon DEF Stop
      <4> QED
        BY <2>0, <3>1, <3>3, <4>1 DEF Stop, Exit
    <3> QED
      BY <2>1, <3>2, <3>3
  <2>2. ASSUME NEW q \in Procs, Migrate(q)
        PROVE  proc'[p] # Down
    <3>1. Alone
      BY <2>2 DEF Migrate, ReadVersion, SetDirty, Run, SetClean, AloneInv
    <3> QED
      BY <2>0, <2>2, <3>1
         DEF Migrate, ReadVersion, SetDirty, Run, SetClean, Go, Exit, Down, Runs, Alone,
             Migrating, Towards, TypeOK, Latest
  <2>3. CASE StepDown
    BY <2>3 DEF StepDown, Migrating, Down
  <2>4. ASSUME NEW b, Write(b)
        PROVE  proc'[p] # Down
    BY <2>4 DEF Write, Migrating, Down
  <2> QED
    BY <2>1, <2>2, <2>3, <2>4 DEF Next, WriteTool, DeleteLevel, LoadSeed
<1> QED
  BY <1>1, <1>2, Invariant, AloneStep, PTL DEF Safe, UndisturbedIsServed
=============================================================================
