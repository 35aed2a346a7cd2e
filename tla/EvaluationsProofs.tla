------------------------- MODULE EvaluationsProofs -------------------------
(***************************************************************************)
(* What an evaluation reuses changes nothing: the Jacobian is that of the  *)
(* serial loop, for any threads and columns; the patches of a wheel are    *)
(* those of its pose, for any models, outlines and stamps; and screening   *)
(* loses no patch's length, for any circles and depths.                    *)
(***************************************************************************)
EXTENDS MCEvaluations, Sequences, FiniteSets, FiniteSetTheorems, SequenceTheorems,
        NaturalsInduction, WellFoundedInduction, TLAPS

(***************************************************************************)
(* Proved for any number of threads, columns and interfaces, and whatever  *)
(* the threads kept from before.  The inductive invariant says that a kept *)
(* result can only be used for its own input, that the threads hold the    *)
(* source's inputs and, in a batch, its hints, and that each column is     *)
(* waiting, taken, or settled.                                             *)
(***************************************************************************)
Settled(c) ==
    IF c \in batch.bad THEN c \in failures ELSE derivs[c] = Exact(batch.state, c)

WorkersFollow ==
    \A w \in Threads :
        /\ worker[w].held = source.held
        /\ phase = "columns" => worker[w].hints = source.hints

NoneIsLost ==
    /\ phase # "idle" => failures \subseteq batch.bad
    /\ phase = "columns" =>
         \A c \in 1 .. Columns : c \in todo \/ (\E w \in Threads : column[w] = c) \/ Settled(c)
    /\ phase = "done" => \A c \in 1 .. Columns : Settled(c)

BatchInv == TypeOK /\ WorkersFollow /\ NoneIsLost
-----------------------------------------------------------------------------
LEMMA Numbers == Workers \in Nat \ {0} /\ Columns \in Nat \ {0} /\ Interfaces \in Nat
BY SomeWork

Caches == [Wheels -> Entries \cup {None}]

\* A kept result is of the input its key was made from, and the key tells inputs
\* apart.
LEMMA EntriesAreOfTheirKeys ==
  ASSUME NEW entry \in Entries, NEW i \in Wheels, NEW p, NEW h, Hit(entry, ContactInput(i, p, h))
  PROVE  entry.result = ContactInput(i, p, h)
<1>1. PICK j \in Wheels, s \in States, c \in 0 .. Columns, g \in Hints :
        entry = Entry(ContactInput(j, Point(s, c), g))
  BY DEF Entries
<1> DEFINE mine == ContactInput(j, Point(s, c), g)
           wanted == ContactInput(i, p, h)
<1>2. entry.result = mine /\ entry.key = <<mine.pose, mine.wheel>>
  BY <1>1 DEF Entry, Key
<1>3. <<mine.pose, mine.wheel>> = <<wanted.pose, wanted.wheel>>
  BY <1>2 DEF Hit, Key
<1>4. mine.pose = wanted.pose /\ mine.wheel = wanted.wheel
  <2> HIDE DEF mine, wanted
  <2>1. QED  BY <1>3
<1>5. /\ mine = [pose |-> mine.pose, wheel |-> mine.wheel]
      /\ wanted = [pose |-> wanted.pose, wheel |-> wanted.wheel]
  BY DEF ContactInput
<1>6. QED  BY <1>2, <1>4, <1>5

\* Whatever was kept, an evaluation has the results of exactly its inputs.
LEMMA EvaluationsAreExact ==
  ASSUME NEW cache \in Caches, NEW wheels \in SUBSET Wheels, NEW s \in States,
         NEW c \in 0 .. Columns, NEW h \in Hints
  PROVE  /\ Evaluated(cache, wheels, Point(s, c), h) \in Caches
         /\ \A i \in wheels :
              /\ Evaluated(cache, wheels, Point(s, c), h)[i] \in Entries
              /\ Evaluated(cache, wheels, Point(s, c), h)[i].result
                   = ContactInput(i, Point(s, c), h)
<1> DEFINE p == Point(s, c)
           after == Evaluated(cache, wheels, p, h)
<1>1. after = [i \in Wheels |->
                 IF i \in wheels /\ ~ Hit(cache[i], ContactInput(i, p, h))
                 THEN Entry(ContactInput(i, p, h)) ELSE cache[i]]
  BY DEF Evaluated
<1>2. \A i \in Wheels : Entry(ContactInput(i, p, h)) \in Entries
  BY DEF Entries
<1>3. after \in Caches
  BY <1>1, <1>2 DEF Caches
<1>4. ASSUME NEW i \in wheels
      PROVE  after[i] \in Entries /\ after[i].result = ContactInput(i, p, h)
  <2>1. CASE Hit(cache[i], ContactInput(i, p, h))
    <3>1. after[i] = cache[i] /\ cache[i] \in Entries
      BY <1>1, <2>1 DEF Caches, Hit
    <3>2. QED  BY <2>1, <3>1, EntriesAreOfTheirKeys
  <2>2. CASE ~ Hit(cache[i], ContactInput(i, p, h))
    <3>1. after[i] = Entry(ContactInput(i, p, h))
      BY <1>1, <2>2
    <3>2. QED  BY <1>2, <3>1 DEF Entry
  <2>3. QED  BY <2>1, <2>2
<1>5. QED  BY <1>3, <1>4

LEMMA SeededIsACache ==
  ASSUME NEW from \in Caches, NEW to \in Caches
  PROVE  Seeded(from, to) \in Caches
BY DEF Seeded, Caches

\* The derivatives a thread computes with the source's hints and held inputs are
\* those of the serial loop.
LEMMA DerivativesAreExact ==
  ASSUME NEW context \in Contexts, NEW s \in States, NEW c \in 1 .. Columns,
         source \in Contexts, context.hints = source.hints, context.held = source.held
  PROVE  Derivatives(context, Point(s, c)) = Exact(s, c) /\ Exact(s, c) \in Outcomes
<1> DEFINE p == Point(s, c)
<1>1. c \in 0 .. Columns /\ context.cache \in Caches /\ context.hints \in Hints
      /\ source.held \in Inputs
  BY Numbers DEF Contexts, Caches
<1>2. \A i \in Wheels :
        /\ Evaluated(context.cache, Wheels, p, context.hints)[i] \in Entries
        /\ Evaluated(context.cache, Wheels, p, context.hints)[i].result
             = ContactInput(i, p, context.hints)
  BY <1>1, EvaluationsAreExact
<1>3. Derivatives(context, p) = Exact(s, c)
  BY <1>2 DEF Derivatives, Exact
<1>4. [i \in Wheels |-> ContactInput(i, p, source.hints)]
        \in [Wheels -> {entry.result : entry \in Entries}]
  BY <1>2
<1>5. p \in [base : States, moved : 1 .. Columns]
  BY DEF Point
<1>6. Exact(s, c) \in Outcomes
  BY <1>1, <1>4, <1>5 DEF Exact, Outcomes
<1>7. QED  BY <1>3, <1>6
-----------------------------------------------------------------------------
LEMMA BatchInit == Init => BatchInv
<1> SUFFICES ASSUME Init
             PROVE  BatchInv
  OBVIOUS
<1> USE Numbers
<1>1. PICK h \in Hints, u \in Inputs :
        /\ source = [hints |-> h, held |-> u, cache |-> Empty]
        /\ worker = [w \in Threads |-> source]
  BY DEF Init
<1>2. Empty \in Caches
  BY DEF Empty, Caches
<1>3. source \in Contexts /\ worker \in [Threads -> Contexts]
  BY <1>1, <1>2 DEF Contexts, Caches
<1>4. TypeOK
  BY <1>3 DEF Init, TypeOK
<1>5. WorkersFollow /\ NoneIsLost
  BY <1>1 DEF Init, WorkersFollow, NoneIsLost
<1>6. QED  BY <1>4, <1>5 DEF BatchInv

LEMMA BatchStep == BatchInv /\ [Next]_vars => BatchInv'
<1> SUFFICES ASSUME BatchInv, [Next]_vars
             PROVE  BatchInv'
  OBVIOUS
<1> USE Numbers
<1>1. /\ source \in Contexts /\ source.cache \in Caches /\ source.hints \in Hints
      /\ source.held \in Inputs
      /\ worker \in [Threads -> Contexts]
      /\ \A w \in Threads : worker[w].cache \in Caches /\ worker[w].hints \in Hints
                            /\ worker[w].held \in Inputs
  BY DEF BatchInv, TypeOK, Contexts, Caches
<1>2. ASSUME NEW context \in Contexts, NEW cache \in Caches, NEW after,
             after = [context EXCEPT !.cache = cache]
      PROVE  /\ after \in Contexts
             /\ after.hints = context.hints /\ after.held = context.held /\ after.cache = cache
  BY <1>2 DEF Contexts, Caches
<1>3. ASSUME NEW s \in States, SourceEvaluates(s)
      PROVE  BatchInv'
  <2>1. PICK wheels \in SUBSET Wheels :
          source' = [source EXCEPT !.cache =
                       Evaluated(source.cache, wheels, Point(s, 0), source.hints)]
    BY <1>3 DEF SourceEvaluates
  <2>2. /\ phase' = "idle"
        /\ UNCHANGED <<worker, column, batch, team, todo, derivs, failures>>
    BY <1>3 DEF SourceEvaluates
  <2>3. Evaluated(source.cache, wheels, Point(s, 0), source.hints) \in Caches
    <3>1. 0 \in 0 .. Columns
      OBVIOUS
    <3>2. QED  BY <1>1, <3>1, EvaluationsAreExact
  <2>4. source' \in Contexts /\ source'.held = source.held
    BY <1>1, <1>2, <2>1, <2>3
  <2>5. TypeOK'
    BY <2>2, <2>4 DEF BatchInv, TypeOK
  <2>6. WorkersFollow' /\ NoneIsLost'
    BY <2>2, <2>4 DEF BatchInv, WorkersFollow, NoneIsLost
  <2>7. QED  BY <2>5, <2>6 DEF BatchInv
<1>4. ASSUME NEW h \in Hints, HintsMove(h)
      PROVE  BatchInv'
  <2>1. /\ source' = [source EXCEPT !.hints = h] /\ phase' = "idle"
        /\ UNCHANGED <<worker, column, batch, team, todo, derivs, failures>>
    BY <1>4 DEF HintsMove
  <2>2. source' \in Contexts /\ source'.held = source.held
    BY <1>1, <2>1 DEF Contexts
  <2>3. TypeOK'
    BY <2>1, <2>2 DEF BatchInv, TypeOK
  <2>4. WorkersFollow' /\ NoneIsLost'
    BY <2>1, <2>2 DEF BatchInv, WorkersFollow, NoneIsLost
  <2>5. QED  BY <2>3, <2>4 DEF BatchInv
<1>5. ASSUME NEW u \in Inputs, Synchronize(u)
      PROVE  BatchInv'
  <2>1. /\ source' = [source EXCEPT !.held = u] /\ phase' = "idle"
        /\ worker' = [w \in Threads |-> [worker[w] EXCEPT !.held = u]]
        /\ UNCHANGED <<column, batch, team, todo, derivs, failures>>
    BY <1>5 DEF Synchronize
  <2>2. ASSUME NEW context \in Contexts, NEW after, after = [context EXCEPT !.held = u]
        PROVE  after \in Contexts /\ after.held = u
    BY <2>2 DEF Contexts
  <2>3. source' \in Contexts /\ source'.held = u
    BY <1>1, <2>1, <2>2
  <2>4. /\ worker' \in [Threads -> Contexts]
        /\ \A w \in Threads : worker'[w].held = u
    BY <1>1, <2>1, <2>2
  <2>5. TypeOK'
    BY <2>1, <2>3, <2>4 DEF BatchInv, TypeOK
  <2>6. WorkersFollow' /\ NoneIsLost'
    BY <2>1, <2>3, <2>4 DEF BatchInv, WorkersFollow, NoneIsLost
  <2>7. QED  BY <2>5, <2>6 DEF BatchInv
<1>6. ASSUME NEW s \in States, BeginBatch(s)
      PROVE  BatchInv'
  <2>1. PICK bad \in SUBSET (1 .. Columns), last \in Threads :
          batch' = [state |-> s, bad |-> bad] /\ team' = 0 .. last
    BY <1>6 DEF BeginBatch
  <2>2. /\ worker' = [w \in Threads |-> [worker[w] EXCEPT !.hints = source.hints]]
        /\ todo' = 1 .. Columns /\ failures' = {} /\ phase' = "columns"
        /\ derivs' = [c \in 1 .. Columns |-> None]
        /\ UNCHANGED <<source, column>>
    BY <1>6 DEF BeginBatch
  <2>3. ASSUME NEW context \in Contexts, NEW after,
               after = [context EXCEPT !.hints = source.hints]
        PROVE  after \in Contexts /\ after.hints = source.hints /\ after.held = context.held
    BY <1>1, <2>3 DEF Contexts
  <2>4. /\ worker' \in [Threads -> Contexts]
        /\ \A w \in Threads : /\ worker'[w].hints = source.hints
                              /\ worker'[w].held = worker[w].held
    BY <1>1, <2>2, <2>3
  <2>5. team' \in SUBSET Threads
    BY <2>1 DEF Threads
  <2>6. TypeOK'
    BY <2>1, <2>2, <2>4, <2>5 DEF BatchInv, TypeOK
  <2>7. WorkersFollow' /\ NoneIsLost'
    BY <2>2, <2>4 DEF BatchInv, WorkersFollow, NoneIsLost
  <2>8. QED  BY <2>6, <2>7 DEF BatchInv
<1>7. ASSUME NEW w \in Threads, Take(w)
      PROVE  BatchInv'
  <2>1. PICK c \in todo : column' = [column EXCEPT ![w] = c] /\ todo' = todo \ {c}
    BY <1>7 DEF Take
  <2>2. /\ column[w] = 0 /\ phase = "columns"
        /\ worker' = [worker EXCEPT ![w].cache = Seeded(source.cache, worker[w].cache)]
        /\ UNCHANGED <<source, batch, team, derivs, failures, phase>>
    BY <1>7 DEF Take
  <2>3. /\ worker' \in [Threads -> Contexts]
        /\ \A v \in Threads : /\ worker'[v].hints = worker[v].hints
                              /\ worker'[v].held = worker[v].held
    BY <1>1, <1>2, <2>2, SeededIsACache
  <2>4. /\ todo \in SUBSET (1 .. Columns) /\ column \in [Threads -> 0 .. Columns]
    BY DEF BatchInv, TypeOK
  <2>5. TypeOK'
    BY <2>1, <2>2, <2>3, <2>4 DEF BatchInv, TypeOK
  <2>6. WorkersFollow'
    BY <2>2, <2>3 DEF BatchInv, WorkersFollow
  <2>7. NoneIsLost'
    <3>1. ASSUME NEW d \in 1 .. Columns
          PROVE  d \in todo' \/ (\E v \in Threads : column'[v] = d) \/ Settled(d)'
      <4>1. Settled(d)' <=> Settled(d)
        BY <2>2 DEF Settled, Exact
      <4>2. \A v \in Threads : column[v] = d => column'[v] = d
        BY <2>1, <2>2, <2>4
      <4>3. d \in todo => d \in todo' \/ column'[w] = d
        BY <2>1, <2>4
      <4>4. QED  BY <2>2, <4>1, <4>2, <4>3 DEF BatchInv, NoneIsLost
    <3>2. QED  BY <2>2, <3>1 DEF BatchInv, NoneIsLost
  <2>8. QED  BY <2>5, <2>6, <2>7 DEF BatchInv
<1>8. ASSUME NEW w \in Threads, Calc(w)
      PROVE  BatchInv'
  <2> DEFINE c == column[w]
             p == Point(batch.state, c)
  <2>1. /\ c # 0 /\ phase = "columns" /\ column' = [column EXCEPT ![w] = 0]
        /\ UNCHANGED <<source, batch, team, todo, phase>>
    BY <1>8 DEF Calc
  <2>2. /\ column \in [Threads -> 0 .. Columns] /\ c \in 1 .. Columns /\ c \in 0 .. Columns
        /\ batch.state \in States /\ derivs \in [1 .. Columns -> Outcomes \cup {None}]
        /\ failures \in SUBSET (1 .. Columns)
    BY <2>1 DEF BatchInv, TypeOK
  <2>3. worker[w].held = source.held /\ worker[w].hints = source.hints
    BY <2>1 DEF BatchInv, WorkersFollow
  <2>4. Derivatives(worker[w], p) = Exact(batch.state, c) /\ Exact(batch.state, c) \in Outcomes
    BY <1>1, <2>2, <2>3, DerivativesAreExact
  <2>5. \E wheels \in SUBSET Wheels :
          worker' = [worker EXCEPT ![w].cache =
                       Evaluated(worker[w].cache, wheels, p, worker[w].hints)]
    <3>1. \A reached \in 0 .. Interfaces : 1 .. reached \in SUBSET Wheels
      BY DEF Wheels
    <3>2. CASE c \in batch.bad
      BY <1>8, <3>1, <3>2 DEF Calc, Thrown
    <3>3. CASE c \notin batch.bad
      BY <1>8, <3>3 DEF Calc, Written
    <3>4. QED  BY <3>2, <3>3
  <2>6. PICK wheels \in SUBSET Wheels :
          worker' = [worker EXCEPT ![w].cache =
                       Evaluated(worker[w].cache, wheels, p, worker[w].hints)]
    BY <2>5
  <2>7. Evaluated(worker[w].cache, wheels, p, worker[w].hints) \in Caches
    BY <1>1, <2>2, EvaluationsAreExact
  <2>8. /\ worker' \in [Threads -> Contexts]
        /\ \A v \in Threads : /\ worker'[v].hints = worker[v].hints
                              /\ worker'[v].held = worker[v].held
    BY <1>1, <1>2, <2>6, <2>7
  <2>9. IF c \in batch.bad
        THEN failures' = failures \cup {c} /\ derivs' = derivs
        ELSE failures' = failures /\ derivs' = [derivs EXCEPT ![c] = Exact(batch.state, c)]
    BY <1>8, <2>4 DEF Calc, Thrown, Written
  <2>10. derivs' \in [1 .. Columns -> Outcomes \cup {None}] /\ failures' \in SUBSET (1 .. Columns)
    BY <2>2, <2>4, <2>9
  <2>11. column' \in [Threads -> 0 .. Columns]
    BY <2>1, <2>2
  <2>12. TypeOK'
    BY <2>1, <2>8, <2>10, <2>11 DEF BatchInv, TypeOK
  <2>13. WorkersFollow'
    BY <2>1, <2>8 DEF BatchInv, WorkersFollow
  <2>14. NoneIsLost'
    <3>1. ASSUME NEW d \in 1 .. Columns, d = c \/ Settled(d)
          PROVE  Settled(d)'
      <4>1. batch' = batch /\ Exact(batch.state, d)' = Exact(batch.state, d)
        BY <2>1 DEF Exact
      <4>2. IF d \in batch.bad THEN d \in failures' ELSE derivs'[d] = Exact(batch.state, d)
        BY <2>2, <2>9, <3>1 DEF Settled
      <4>3. QED  BY <4>1, <4>2 DEF Settled
    <3>2. ASSUME NEW d \in 1 .. Columns
          PROVE  d \in todo' \/ (\E v \in Threads : column'[v] = d) \/ Settled(d)'
      <4>1. CASE d = c \/ Settled(d)
        BY <3>1, <4>1
      <4>2. CASE d \in todo
        BY <2>1, <4>2
      <4>3. ASSUME NEW v \in Threads, column[v] = d, d # c
            PROVE  column'[v] = d
        BY <2>1, <2>2, <4>3
      <4>4. QED  BY <2>1, <4>1, <4>2, <4>3 DEF BatchInv, NoneIsLost
    <3>3. failures' \subseteq batch'.bad
      BY <2>1, <2>9 DEF BatchInv, NoneIsLost
    <3>4. QED  BY <2>1, <3>2, <3>3 DEF NoneIsLost
  <2>15. QED  BY <2>12, <2>13, <2>14 DEF BatchInv
<1>9. CASE EndBatch
  <2>1. /\ phase = "columns" /\ todo = {} /\ phase' = "done"
        /\ \A w \in Threads : column[w] = 0
        /\ UNCHANGED <<source, worker, column, batch, team, todo, derivs, failures>>
    BY <1>9 DEF EndBatch
  <2>2. TypeOK'
    BY <2>1 DEF BatchInv, TypeOK
  <2>3. WorkersFollow'
    BY <2>1 DEF BatchInv, WorkersFollow
  <2>4. \A c \in 1 .. Columns : Settled(c)
    BY <2>1 DEF BatchInv, NoneIsLost
  <2>5. NoneIsLost'
    BY <2>1, <2>4 DEF BatchInv, NoneIsLost, Settled, Exact
  <2>6. QED  BY <2>2, <2>3, <2>5 DEF BatchInv
<1>10. CASE UNCHANGED vars
  <2>1. UNCHANGED <<source, worker, column, batch, team, todo, derivs, failures, phase>>
    BY <1>10 DEF vars
  <2>2. TypeOK'
    BY <2>1 DEF BatchInv, TypeOK
  <2>3. WorkersFollow' /\ NoneIsLost'
    BY <2>1 DEF BatchInv, WorkersFollow, NoneIsLost, Settled, Exact
  <2>4. QED  BY <2>2, <2>3 DEF BatchInv
<1>11. QED
  BY <1>3, <1>4, <1>5, <1>6, <1>7, <1>8, <1>9, <1>10 DEF Next

THEOREM BatchInvariance == Spec => []BatchInv
BY BatchInit, BatchStep, PTL DEF Spec

\* Whatever the team, the order of the columns and the results the threads kept, a
\* batch comes out as the serial loop would.
THEOREM LikeTheLoop == Spec => []SameAsTheLoop
<1>1. BatchInv => SameAsTheLoop
  BY DEF BatchInv, NoneIsLost, Settled, SameAsTheLoop, TypeOK
<1>2. QED  BY <1>1, BatchInvariance, PTL
-----------------------------------------------------------------------------
\* A set of numbers has a least member,
LEMMA Least ==
  ASSUME NEW T, T \subseteq Nat, T # {}
  PROVE  \E n \in T : \A m \in T : n <= m
<1> DEFINE Less == {p \in Nat \X Nat : p[1] < p[2]}
<1>1. IsWellFoundedOn(Less, Nat)
  BY NatLessThanWellFounded DEF OpToRel
<1>2. PICK n \in T : \A m \in T : <<m, n>> \notin Less
  <2> HIDE DEF Less
  <2>1. QED  BY <1>1, WFMin
<1>3. ASSUME NEW m \in T  PROVE n <= m
  <2>1. m \in Nat /\ n \in Nat /\ <<m, n>> \in Nat \X Nat /\ <<m, n>>[1] = m /\ <<m, n>>[2] = n
    OBVIOUS
  <2>2. ~ (m < n)
    BY <1>2, <2>1
  <2>3. QED  BY <2>1, <2>2
<1>4. QED  BY <1>3

\* which proves a claim about each number, given as the set of those it holds for.
LEMMA Induction ==
  ASSUME NEW T, 0 \in T, \A n \in Nat : n \in T => n + 1 \in T
  PROVE  \A n \in Nat : n \in T
<1> DEFINE S == {n \in Nat : n \notin T}
<1> SUFFICES ASSUME S # {}  PROVE FALSE
  OBVIOUS
<1>1. PICK n \in S : \A m \in S : n <= m
  <2>1. S \subseteq Nat
    OBVIOUS
  <2> HIDE DEF S
  <2>2. QED  BY <2>1, Least
<1>2. n \in Nat /\ n # 0
  OBVIOUS
<1>3. n - 1 \in Nat /\ ~ (n <= n - 1) /\ (n - 1) + 1 = n
  BY <1>2
<1>4. n - 1 \in T
  BY <1>1, <1>3
<1>5. QED  BY <1>3, <1>4


\* What a loop keeps from each turn to the next holds of its whole way.
LEMMA LoopKeeps ==
  ASSUME NEW n \in Nat, NEW T, NEW f, f[0] \in T[0],
         \A i \in 1..n : f[i - 1] \in T[i - 1] => f[i] \in T[i]
  PROVE  \A i \in 0..n : f[i] \in T[i]
<1> DEFINE K == {i \in Nat : i <= n => f[i] \in T[i]}
<1>1. 0 \in K
  OBVIOUS
<1>2. ASSUME NEW i \in Nat, i \in K  PROVE i + 1 \in K
  <2> SUFFICES ASSUME i + 1 <= n  PROVE f[i + 1] \in T[i + 1]
    OBVIOUS
  <2>1. i + 1 \in 1..n /\ (i + 1) - 1 = i /\ f[i] \in T[i]
    BY <1>2
  <2>2. f[(i + 1) - 1] \in T[(i + 1) - 1] => f[i + 1] \in T[i + 1]
    BY <2>1
  <2>3. QED  BY <2>1, <2>2
<1>3. \A i \in Nat : i \in K
  <2> HIDE DEF K
  <2>1. QED  BY <1>1, <1>2, Induction
<1>4. QED  BY <1>3

\* f is what a loop goes through that starts with x and in turn i applies F[i].
IsLoop(f, n, x, F) == f = [i \in 0..n |-> IF i = 0 THEN x ELSE F[i][f[i - 1]]]

\* A loop whose turn i takes what T holds at i - 1 to what it holds at i can be run.
LEMMA LoopExists ==
  ASSUME NEW n \in Nat, NEW T, NEW x, x \in T[0], NEW F,
         \A i \in 1..n : \A s \in T[i - 1] : F[i][s] \in T[i]
  PROVE  \E f : IsLoop(f, n, x, F) /\ \A i \in 0..n : f[i] \in T[i]
<1> DEFINE Upto(f, k) == /\ f = [i \in 0..k |-> IF i = 0 THEN x ELSE F[i][f[i - 1]]]
                         /\ \A i \in 0..k : f[i] \in T[i]
           K == {k \in Nat : k <= n => \E f : Upto(f, k)}
<1>1. 0 \in K
  <2> DEFINE f == [i \in 0..0 |-> x]
  <2>1. f = [i \in 0..0 |-> IF i = 0 THEN x ELSE F[i][f[i - 1]]]
    OBVIOUS
  <2>2. \A i \in 0..0 : f[i] \in T[i]
    OBVIOUS
  <2> HIDE DEF f
  <2>3. QED  BY <2>1, <2>2
<1>2. ASSUME NEW k \in Nat, k \in K  PROVE k + 1 \in K
  <2> SUFFICES ASSUME k + 1 <= n  PROVE \E f : Upto(f, k + 1)
    OBVIOUS
  <2>1. PICK f : Upto(f, k)
    BY <1>2
  <2> DEFINE g == [i \in 0..(k + 1) |-> IF i = k + 1 THEN F[k + 1][f[k]] ELSE f[i]]
  <2>2. \A i \in 0..k : g[i] = f[i]
    OBVIOUS
  <2>3. g[k + 1] = F[k + 1][f[k]]
    OBVIOUS
  <2>4. ASSUME NEW i \in 0..(k + 1)
        PROVE  g[i] = IF i = 0 THEN x ELSE F[i][g[i - 1]]
    <3>1. CASE i = k + 1
      <4>1. i # 0 /\ i - 1 = k /\ k \in 0..k
        BY <3>1
      <4>2. QED  BY <3>1, <4>1, <2>2, <2>3
    <3>2. CASE i # k + 1
      <4>1. i \in 0..k /\ (i # 0 => i - 1 \in 0..k)
        BY <3>2
      <4>2. f[i] = IF i = 0 THEN x ELSE F[i][f[i - 1]]
        <5>1. f = [j \in 0..k |-> IF j = 0 THEN x ELSE F[j][f[j - 1]]]
          BY <2>1
        <5>2. QED  BY <4>1, <5>1
      <4>3. QED  BY <4>1, <4>2, <2>2
    <3>3. QED  BY <3>1, <3>2
  <2>5. \A i \in 0..(k + 1) : g[i] \in T[i]
    <3>1. k + 1 \in 1..n /\ f[k] \in T[k] /\ (k + 1) - 1 = k
      BY <2>1
    <3>2. F[k + 1][f[k]] \in T[k + 1]
      BY <3>1
    <3>3. \A i \in 0..k : f[i] \in T[i]
      BY <2>1
    <3>4. \A i \in 0..(k + 1) : i # k + 1 => i \in 0..k
      OBVIOUS
    <3>5. QED  BY <3>2, <3>3, <3>4, <2>2, <2>3
  <2>6. g = [i \in 0..(k + 1) |-> IF i = 0 THEN x ELSE F[i][g[i - 1]]]
    <3>1. g = [i \in 0..(k + 1) |-> g[i]]
      OBVIOUS
    <3> HIDE DEF g
    <3>2. QED  BY <3>1, <2>4
  <2> HIDE DEF g
  <2>7. QED  BY <2>5, <2>6
<1>3. \A k \in Nat : k \in K
  <2> HIDE DEF K
  <2>1. QED  BY <1>1, <1>2, Induction
<1>4. n \in K
  BY <1>3
<1>5. QED  BY <1>4 DEF IsLoop
-----------------------------------------------------------------------------
(***************************************************************************)
(* The length of a patch.                                                  *)
(***************************************************************************)
LEMMA LengthNumbers ==
  /\ Stations \in Nat \ {0} /\ MaxBisections \in Nat \ {0} /\ Resolution \in Nat \ {0}
  /\ Limit \in Nat \ {0} /\ Screening \in Nat
  /\ \A circle \in Circles : /\ circle.radius \in Nat /\ circle.radius <= Resolution
                             /\ circle.step \in Nat \ {0}
<1>1. Circles \subseteq Length!Circle /\ \A circle \in Circles : circle.radius <= Resolution
  BY EvaluationAssumptions DEF Length!LengthAssumption
<1>2. \A circle \in Length!Circle : circle.radius \in Nat /\ circle.step \in Nat \ {0}
  BY DEF Length!Circle
<1>3. QED  BY <1>1, <1>2, EvaluationAssumptions DEF Length!LengthAssumption

LEMMA LargerOf ==
  ASSUME NEW a \in Int, NEW b \in Int
  PROVE  Length!Max({a, b}) = IF a >= b THEN a ELSE b
<1> DEFINE m == IF a >= b THEN a ELSE b
<1>1. m \in {a, b} /\ \A y \in {a, b} : m >= y
  OBVIOUS
<1>2. \A x \in {a, b} : (\A y \in {a, b} : x >= y) => x = m
  OBVIOUS
<1>3. QED  BY <1>1, <1>2 DEF Length!Max

LEMMA LeastOf ==
  ASSUME NEW S, S \subseteq Nat, S # {}
  PROVE  Length!Min(S) \in S /\ \A y \in S : Length!Min(S) <= y
<1>1. \E x \in S : \A y \in S : x <= y
  BY Least
<1>2. QED  BY <1>1 DEF Length!Min

\* The brackets a bisection goes through.
Between == {b \in [outside : Nat, inside : Nat, count : Nat] : b.inside < b.outside}

Turn(side, radius, target, b) ==
  IF Length!Open(radius, target, b) THEN Length!Halved(side, b) ELSE b

\* Halving an open bracket leaves a bracket, no further out.
LEMMA TurnNarrows ==
  ASSUME NEW side, NEW radius \in Nat, radius <= Resolution, NEW target \in Nat, NEW b \in Between
  PROVE  /\ Turn(side, radius, target, b) \in Between
         /\ Turn(side, radius, target, b).outside <= b.outside
         /\ Turn(side, radius, target, b).count >= b.count
<1> USE LengthNumbers
<1> DEFINE middle == (b.outside + b.inside) \div 2
<1>1. /\ b.outside \in Nat /\ b.inside \in Nat /\ b.count \in Nat /\ b.inside < b.outside
      /\ b = [outside |-> b.outside, inside |-> b.inside, count |-> b.count]
  BY DEF Between
<1>2. CASE ~ Length!Open(radius, target, b)
  BY <1>1, <1>2 DEF Turn
<1>3. CASE Length!Open(radius, target, b)
  <2>1. radius * (b.outside - b.inside) > Resolution
    BY <1>3 DEF Length!Open
  <2>2. b.outside - b.inside # 1
    <3>1. radius * 1 = radius
      OBVIOUS
    <3>2. QED  BY <2>1, <3>1, <1>1
  <2>3. middle \in Nat /\ b.inside < middle /\ middle < b.outside
    <3>1. b.outside - b.inside >= 2
      BY <2>2, <1>1
    <3>2. QED  BY <3>1, <1>1
  <2>4. Turn(side, radius, target, b) = Length!Halved(side, b)
    BY <1>3 DEF Turn
  <2>5. Length!Halved(side, b) =
          IF side[middle] = "inside"
          THEN [outside |-> b.outside, inside |-> middle, count |-> b.count + 1]
          ELSE [outside |-> middle, inside |-> b.inside, count |-> b.count + 1]
    <3>1. CASE side[middle] = "inside"
      <4>1. Length!Halved(side, b) = [b EXCEPT !.inside = middle, !.count = b.count + 1]
        BY <3>1 DEF Length!Halved
      <4>2. QED  BY <1>1, <3>1, <4>1
    <3>2. CASE side[middle] # "inside"
      <4>1. Length!Halved(side, b) = [b EXCEPT !.outside = middle, !.count = b.count + 1]
        BY <3>2 DEF Length!Halved
      <4>2. QED  BY <1>1, <3>2, <4>1
    <3>3. QED  BY <3>1, <3>2
  <2> HIDE DEF middle
  <2>6. Length!Halved(side, b) \in Between
    BY <2>3, <2>5, <1>1 DEF Between
  <2>7. /\ Length!Halved(side, b).outside <= b.outside
        /\ Length!Halved(side, b).count >= b.count
    BY <2>3, <2>5, <1>1
  <2>8. QED  BY <2>4, <2>6, <2>7
<1>4. QED  BY <1>2, <1>3

\* The brackets of a bisection, as a function.
Bisection(after, side, radius, b, target) ==
  after = [k \in 0..MaxBisections |->
             IF k = 0 THEN b ELSE Turn(side, radius, target, after[k - 1])]

LEMMA RefinedIsLast ==
  ASSUME NEW side, NEW radius \in Nat, radius <= Resolution, NEW target \in Nat, NEW b \in Between
  PROVE  \E after : /\ Bisection(after, side, radius, b, target)
                    /\ Length!Refined(side, radius, b, target) = after[MaxBisections]
                    /\ \A k \in 0..MaxBisections : after[k] \in Between
<1> USE LengthNumbers
<1> DEFINE n == MaxBisections
           T == [k \in 0..n |-> Between]
           F == [k \in 1..n |-> [s \in Between |-> Turn(side, radius, target, s)]]
           Body(f) == [k \in 0..n |-> IF k = 0 THEN b ELSE Turn(side, radius, target, f[k - 1])]
           after == CHOOSE f : f = Body(f)
<1>1. n \in Nat /\ b \in T[0]
  OBVIOUS
<1>2. \A k \in 1..n : \A s \in T[k - 1] : F[k][s] \in T[k]
  BY TurnNarrows
<1>3. \E f : f = Body(f)
  <2>1. PICK f : IsLoop(f, n, b, F) /\ \A k \in 0..n : f[k] \in T[k]
    <3> HIDE DEF T, F, n
    <3>1. QED  BY <1>1, <1>2, LoopExists
  <2>2. ASSUME NEW k \in 0..n
        PROVE  (IF k = 0 THEN b ELSE F[k][f[k - 1]]) = IF k = 0 THEN b ELSE Turn(side, radius, target, f[k - 1])
    <3> SUFFICES ASSUME k # 0  PROVE F[k][f[k - 1]] = Turn(side, radius, target, f[k - 1])
      OBVIOUS
    <3>1. k \in 1..n /\ k - 1 \in 0..n
      OBVIOUS
    <3>2. f[k - 1] \in Between
      BY <2>1, <3>1
    <3>3. QED  BY <3>1, <3>2
  <2>3. f = Body(f)
    <3>1. [k \in 0..n |-> IF k = 0 THEN b ELSE F[k][f[k - 1]]] = Body(f)
      BY <2>2
    <3>2. QED  BY <2>1, <3>1 DEF IsLoop
  <2>4. QED  BY <2>3
<1>4. after = Body(after)
  BY <1>3
<1>5. Length!Refined(side, radius, b, target) = after[n]
  BY DEF Length!Refined, Turn
<1>6. \A k \in 0..n : after[k] \in Between
  <2>1. after[0] \in T[0]
    <3> HIDE DEF after
    <3>1. QED  BY <1>4
  <2>2. ASSUME NEW k \in 1..n, after[k - 1] \in T[k - 1]  PROVE after[k] \in T[k]
    <3> HIDE DEF after
    <3>1. k \in 0..n /\ k - 1 \in 0..n /\ k # 0 /\ after[k - 1] \in Between
      BY <2>2
    <3>2. after[k] = Turn(side, radius, target, after[k - 1])
      BY <1>4, <3>1
    <3>3. QED  BY <3>1, <3>2, TurnNarrows
  <2> HIDE DEF after
  <2>3. \A k \in 0..n : after[k] \in T[k]
    <3> HIDE DEF T, n
    <3>1. QED  BY <1>1, <2>1, <2>2, LoopKeeps
  <2>4. QED  BY <2>3
<1>7. Bisection(after, side, radius, b, target)
  <2> HIDE DEF after
  <2>1. QED  BY <1>4 DEF Bisection
<1> HIDE DEF after
<1>8. QED  BY <1>5, <1>6, <1>7

\* A bisection that is stopped early has not come further in.
LEMMA DeeperIsNarrower ==
  ASSUME NEW side, NEW radius \in Nat, radius <= Resolution, NEW target \in Nat, NEW b \in Between
  PROVE  LET full == Length!Refined(side, radius, b, MaxBisections)
             part == Length!Refined(side, radius, b, target)
         IN  full \in Between /\ part \in Between /\ full.outside <= part.outside
<1> USE LengthNumbers
<1> DEFINE n == MaxBisections
<1>1. PICK f : /\ Bisection(f, side, radius, b, n)
               /\ Length!Refined(side, radius, b, n) = f[n]
               /\ \A k \in 0..n : f[k] \in Between
  BY RefinedIsLast
<1>2. PICK g : /\ Bisection(g, side, radius, b, target)
               /\ Length!Refined(side, radius, b, target) = g[n]
               /\ \A k \in 0..n : g[k] \in Between
  BY RefinedIsLast
<1> DEFINE Behind(p) == /\ p[1] \in Between /\ p[2] \in Between
                        /\ \/ p[1] = p[2]
                           \/ p[2].count >= target /\ p[1].outside <= p[2].outside
           T == [k \in 0..n |-> {p \in Between \X Between : Behind(p)}]
           h == [k \in 0..n |-> <<f[k], g[k]>>]
<1>3. f[0] = b /\ g[0] = b
  BY <1>1, <1>2 DEF Bisection
<1>4. h[0] \in T[0]
  BY <1>3
<1>5. ASSUME NEW k \in 1..n, h[k - 1] \in T[k - 1]  PROVE h[k] \in T[k]
  <2>1. k \in 0..n /\ k - 1 \in 0..n /\ k # 0
    OBVIOUS
  <2> DEFINE x == f[k - 1]
             y == g[k - 1]
  <2>2. x \in Between /\ y \in Between /\ Behind(<<x, y>>)
    BY <1>5, <2>1
  <2>3. f[k] = Turn(side, radius, n, x) /\ g[k] = Turn(side, radius, target, y)
    BY <1>1, <1>2, <2>1 DEF Bisection
  <2>4. /\ f[k] \in Between /\ f[k].outside <= x.outside
        /\ g[k] \in Between /\ g[k].count >= y.count
    <3> HIDE DEF x, y
    <3>1. QED  BY <2>2, <2>3, TurnNarrows
  <2>5. \A c \in Between : c.outside \in Nat /\ c.count \in Nat /\ c.inside \in Nat
    BY DEF Between
  <2>6. CASE x = y /\ Length!Open(radius, target, y)
    <3>1. Length!Open(radius, n, x)
      BY <2>6 DEF Length!Open
    <3>2. f[k] = g[k]
      BY <2>3, <2>6, <3>1 DEF Turn
    <3>3. QED  BY <2>1, <2>4, <3>2
  <2>7. CASE x = y /\ ~ Length!Open(radius, target, y)
    <3>1. g[k] = y
      BY <2>3, <2>7 DEF Turn
    <3>2. CASE Length!Open(radius, n, x)
      <4>1. y.count >= target
        BY <2>2, <2>5, <2>7, <3>2 DEF Length!Open
      <4>2. f[k].outside <= y.outside
        BY <2>4, <2>7
      <4>3. QED  BY <2>1, <2>4, <3>1, <4>1, <4>2
    <3>3. CASE ~ Length!Open(radius, n, x)
      <4>1. f[k] = x
        BY <2>3, <3>3 DEF Turn
      <4>2. QED  BY <2>1, <2>4, <2>7, <3>1, <4>1
    <3>4. QED  BY <3>2, <3>3
  <2>8. CASE y.count >= target /\ x.outside <= y.outside
    <3>1. ~ Length!Open(radius, target, y)
      BY <2>2, <2>5, <2>8 DEF Length!Open
    <3>2. g[k] = y
      BY <2>3, <3>1 DEF Turn
    <3>3. f[k].outside <= y.outside
      BY <2>2, <2>4, <2>5, <2>8
    <3>4. QED  BY <2>1, <2>4, <2>8, <3>2, <3>3
  <2>9. QED  BY <2>2, <2>6, <2>7, <2>8
<1>6. n \in Nat /\ n \in 0..n
  OBVIOUS
<1>7. \A k \in 0..n : h[k] \in T[k]
  <2> HIDE DEF T, h, n
  <2>1. QED  BY <1>4, <1>5, <1>6, LoopKeeps
<1>8. Behind(<<f[n], g[n]>>)
  BY <1>6, <1>7
<1>9. \A c \in Between : c.outside \in Nat
  BY DEF Between
<1> HIDE DEF h, T
<1>10. QED  BY <1>1, <1>2, <1>8, <1>9

\* Along the silhouette, a chord is never longer than the bound at any depth.
LEMMA ChordIsBounded ==
  ASSUME NEW circle \in Circles, Length!Bracketed(circle), NEW depth \in Nat
  PROVE  /\ Length!Chord(circle) \in Nat
         /\ Length!Bound(circle, Length!Crossings(circle, depth)) \in Nat
         /\ Length!Chord(circle) <= Length!Bound(circle, Length!Crossings(circle, depth))
<1> USE LengthNumbers
<1> DEFINE r == circle.radius
           n == MaxBisections
           Starts(side) == Length!Bracket(side, circle.step)
<1>1. ASSUME NEW side, Length!Outside(side, circle.step) # {}  PROVE Starts(side) \in Between
  <2>1. Length!Outside(side, circle.step) \subseteq Nat \ {0}
    BY DEF Length!Outside, Length!Tried
  <2>2. Length!Min(Length!Outside(side, circle.step)) \in Nat \ {0}
    BY <1>1, <2>1, LeastOf
  <2>3. QED  BY <2>2 DEF Length!Bracket, Between
<1>2. Starts(circle.behind) \in Between /\ Starts(circle.ahead) \in Between
  BY <1>1 DEF Length!Bracketed
<1> DEFINE bf == Length!Refined(circle.behind, r, Starts(circle.behind), n)
           bp == Length!Refined(circle.behind, r, Starts(circle.behind), depth)
           af == Length!Refined(circle.ahead, r, Starts(circle.ahead), n)
           ap == Length!Refined(circle.ahead, r, Starts(circle.ahead), depth)
<1>3. /\ bf \in Between /\ bp \in Between /\ bf.outside <= bp.outside
      /\ af \in Between /\ ap \in Between /\ af.outside <= ap.outside
  <2> HIDE DEF Starts
  <2>1. QED  BY <1>2, DeeperIsNarrower
<1>4. Length!Chord(circle) = r * (bf.outside + bf.inside + af.outside + af.inside)
  BY DEF Length!Chord, Length!Crossings
<1>5. Length!Bound(circle, Length!Crossings(circle, depth)) = 2 * r * (bp.outside + ap.outside)
  BY DEF Length!Bound, Length!Crossings
<1> HIDE DEF bf, bp, af, ap
<1> DEFINE x == bf.outside + bf.inside + af.outside + af.inside
           y == 2 * (bp.outside + ap.outside)
<1>6. x \in Nat /\ y \in Nat /\ x <= y /\ bp.outside + ap.outside \in Nat
  BY <1>3 DEF Between
<1>7. r \in Nat
  OBVIOUS
<1>8. 2 * r * (bp.outside + ap.outside) = r * y
  <2>1. \A c \in Nat : 2 * r * c = r * (2 * c)
    BY <1>7
  <2>2. QED  BY <1>6, <2>1
<1> HIDE DEF x, y, r
<1>9. r * x \in Nat /\ r * y \in Nat /\ r * x <= r * y
  BY <1>6, <1>7
<1>10. QED  BY <1>4, <1>5, <1>8, <1>9 DEF x

\* The stations that were among the first n: the deepest one, and the others from the first on.
FirstStations(n, first) ==
  IF n = 0 THEN {}
  ELSE IF n - 1 <= first THEN {first} \cup 0..(n - 2) ELSE 0..(n - 1)

LengthInv ==
  /\ order \in 0..Stations /\ deepest \in 0..(Stations - 1)
  /\ longest \in Nat /\ best = longest
  /\ taken = FirstStations(order, deepest)

LEMMA LengthStarts == Length!Init => LengthInv
<1> SUFFICES ASSUME Length!Init  PROVE LengthInv
  OBVIOUS
<1> USE LengthNumbers
<1>1. QED  BY DEF Length!Init, LengthInv, FirstStations

LEMMA ResolveKeeps ==
  ASSUME LengthInv, NEW circle \in Circles, Length!Resolve(circle)
  PROVE  LengthInv'
<1> USE LengthNumbers
<1>1. /\ order \in Nat /\ order < Stations /\ order' = order + 1 /\ deepest' = deepest
      /\ deepest \in Nat /\ deepest < Stations /\ longest \in Nat /\ best = longest
      /\ taken = FirstStations(order, deepest) /\ taken' = taken \cup {Length!Station}
  BY DEF LengthInv, Length!Resolve
<1>2. taken' = FirstStations(order', deepest')
  <2>1. CASE order = 0
    <3>1. Length!Station = deepest /\ order' = 1 /\ taken = {}
      BY <1>1, <2>1 DEF Length!Station, FirstStations
    <3>2. FirstStations(order', deepest') = {deepest} \cup 0..(-1)
      BY <1>1, <3>1 DEF FirstStations
    <3>3. QED  BY <1>1, <3>1, <3>2
  <2>2. CASE order # 0 /\ order - 1 >= deepest
    <3>1. Length!Station = order
      BY <2>2 DEF Length!Station
    <3>2. taken = 0..(order - 1)
      <4>1. CASE order - 1 = deepest
        <5>1. taken = {order - 1} \cup 0..(order - 2)
          BY <1>1, <2>2, <4>1 DEF FirstStations
        <5>2. QED  BY <1>1, <2>2, <5>1
      <4>2. CASE order - 1 # deepest
        BY <1>1, <2>2, <4>2 DEF FirstStations
      <4>3. QED  BY <4>1, <4>2
    <3>3. FirstStations(order', deepest') = 0..order
      BY <1>1, <2>2 DEF FirstStations
    <3>4. QED  BY <1>1, <3>1, <3>2, <3>3
  <2>3. CASE order # 0 /\ ~ (order - 1 >= deepest)
    <3>1. Length!Station = order - 1
      BY <2>3 DEF Length!Station
    <3>2. taken = {deepest} \cup 0..(order - 2)
      BY <1>1, <2>3 DEF FirstStations
    <3>3. FirstStations(order', deepest') = {deepest} \cup 0..(order - 1)
      BY <1>1, <2>3 DEF FirstStations
    <3>4. 0..(order - 2) \cup {order - 1} = 0..(order - 1)
      BY <1>1, <2>3
    <3>5. QED  BY <1>1, <3>1, <3>2, <3>3, <3>4
  <2>4. QED  BY <2>1, <2>2, <2>3
<1>3. longest' \in Nat /\ best' = longest'
  <2>1. CASE ~ Length!Bracketed(circle)
    BY <1>1, <2>1 DEF Length!Resolve
  <2>2. CASE Length!Bracketed(circle)
    <3>1. Length!Chord(circle) \in Nat
      <4>1. 0 \in Nat
        OBVIOUS
      <4>2. QED  BY <2>2, <4>1, ChordIsBounded
    <3>2. Length!Max({longest, Length!Chord(circle)})
            = IF longest >= Length!Chord(circle) THEN longest ELSE Length!Chord(circle)
      BY <1>1, <3>1, LargerOf
    <3>3. CASE ~ Length!ScreenedOut(circle)
      BY <1>1, <2>2, <3>1, <3>2, <3>3 DEF Length!Resolve
    <3>4. CASE Length!ScreenedOut(circle)
      <4>1. PICK depth \in 0..Screening : Length!Bound(circle, Length!Crossings(circle, depth)) <= longest
        BY <3>4 DEF Length!ScreenedOut
      <4>2. /\ Length!Bound(circle, Length!Crossings(circle, depth)) \in Nat
            /\ Length!Chord(circle) <= Length!Bound(circle, Length!Crossings(circle, depth))
        BY <2>2, ChordIsBounded
      <4>3. Length!Chord(circle) <= longest
        BY <1>1, <3>1, <4>1, <4>2
      <4>4. QED  BY <1>1, <2>2, <3>1, <3>2, <3>4, <4>3 DEF Length!Resolve
    <3>5. QED  BY <3>3, <3>4
  <2>3. QED  BY <2>1, <2>2
<1>4. QED  BY <1>1, <1>2, <1>3 DEF LengthInv

LEMMA LengthSteps == LengthInv /\ (Length!Next \/ UNCHANGED lengthVars) => LengthInv'
<1> SUFFICES ASSUME LengthInv, Length!Next \/ UNCHANGED lengthVars  PROVE LengthInv'
  OBVIOUS
<1>1. CASE Length!Next
  BY <1>1, ResolveKeeps DEF Length!Next
<1>2. CASE UNCHANGED lengthVars
  BY <1>2 DEF lengthVars, LengthInv, FirstStations
<1>3. QED  BY <1>1, <1>2

LEMMA NothingIsScreened == LengthInv => Length!ScreeningChangesNothing
<1> SUFFICES ASSUME LengthInv, order = Stations
             PROVE  taken = 0..(Stations - 1) /\ longest = best
  BY DEF Length!ScreeningChangesNothing
<1> USE LengthNumbers
<1>1. taken = FirstStations(Stations, deepest) /\ deepest \in 0..(Stations - 1)
  BY DEF LengthInv
<1>2. CASE Stations - 1 <= deepest
  <2>1. deepest = Stations - 1 /\ taken = {Stations - 1} \cup 0..(Stations - 2)
    BY <1>1, <1>2 DEF FirstStations
  <2>2. {Stations - 1} \cup 0..(Stations - 2) = 0..(Stations - 1)
    OBVIOUS
  <2>3. QED  BY <2>1, <2>2 DEF LengthInv
<1>3. CASE ~ (Stations - 1 <= deepest)
  BY <1>1, <1>3 DEF FirstStations, LengthInv
<1>4. QED  BY <1>2, <1>3
-----------------------------------------------------------------------------
(***************************************************************************)
(* Contact geometry. Lists of numbers in their order: a finite set of      *)
(* numbers is in one such list, which has as many entries as the set       *)
(* members; and a loop that keeps what there is room for keeps the first.  *)
(***************************************************************************)
LEMMA CountsAlike == \A S : Geometry!Cardinality(S) = Cardinality(S)
BY DEF Geometry!Cardinality, Cardinality, Geometry!IsFiniteSet, IsFiniteSet

\* How many members of S come no later than x.
Rank(S, x) == Cardinality({y \in S : y <= x})

LEMMA RanksDiffer ==
  ASSUME NEW S, S \subseteq Int, IsFiniteSet(S)
  PROVE  /\ Cardinality(S) \in Nat
         /\ \A x \in S : Rank(S, x) \in 1..Cardinality(S)
         /\ \A x, y \in S : x < y => Rank(S, x) < Rank(S, y)
         /\ \A x, y \in S : Rank(S, x) = Rank(S, y) => x = y
<1> DEFINE Upto(y) == {z \in S : z <= y}
<1>1. Cardinality(S) \in Nat
  BY FS_CardinalityType
<1>2. ASSUME NEW y \in S
      PROVE  IsFiniteSet(Upto(y)) /\ Cardinality(Upto(y)) \in 1..Cardinality(S)
  <2>1. Upto(y) \in SUBSET S /\ y \in Upto(y)
    OBVIOUS
  <2> HIDE DEF Upto
  <2>2. IsFiniteSet(Upto(y)) /\ Cardinality(Upto(y)) <= Cardinality(S)
    BY <2>1, FS_Subset
  <2>3. Cardinality(Upto(y)) \in Nat
    BY <2>2, FS_CardinalityType
  <2>4. Cardinality(Upto(y)) # 0
    BY <2>1, <2>2, FS_EmptySet
  <2>5. QED  BY <1>1, <2>2, <2>3, <2>4
<1>3. ASSUME NEW x \in S, NEW y \in S, x < y  PROVE Cardinality(Upto(x)) < Cardinality(Upto(y))
  <2>1. Upto(x) \in SUBSET Upto(y) /\ y \in Upto(y) /\ y \notin Upto(x)
    <3>1. x \in Int /\ y \in Int /\ x < y /\ \A z \in S : z \in Int
      BY <1>3
    <3>2. \A z \in S : z <= x => z <= y
      BY <3>1
    <3>3. ~ (y <= x) /\ y <= y
      BY <3>1
    <3>4. QED  BY <3>2, <3>3
  <2> HIDE DEF Upto
  <2>2. IsFiniteSet(Upto(y)) /\ Cardinality(Upto(x)) \in Nat /\ Cardinality(Upto(y)) \in Nat
    BY <1>1, <1>2
  <2>3. /\ Cardinality(Upto(x)) <= Cardinality(Upto(y))
        /\ Cardinality(Upto(y)) = Cardinality(Upto(x)) => Upto(y) = Upto(x)
    BY <2>1, <2>2, FS_Subset
  <2>4. QED  BY <2>1, <2>2, <2>3
<1> HIDE DEF Upto
<1>4. \A y : Rank(S, y) = Cardinality(Upto(y))
  BY DEF Rank, Upto
<1>5. ASSUME NEW x \in S, NEW y \in S, Rank(S, x) = Rank(S, y)  PROVE x = y
  <2>1. Rank(S, x) \in Int /\ x \in Int /\ y \in Int
    BY <1>1, <1>2, <1>4
  <2>2. ~ (x < y) /\ ~ (y < x)
    BY <1>3, <1>4, <1>5, <2>1
  <2>3. QED  BY <2>1, <2>2
<1>6. QED  BY <1>1, <1>2, <1>3, <1>4, <1>5

\* Each rank is one member's.
LEMMA EachRank ==
  ASSUME NEW S, S \subseteq Int, IsFiniteSet(S), NEW k \in 1..Cardinality(S)
  PROVE  \E x \in S : Rank(S, x) = k
<1> DEFINE f == [x \in S |-> Rank(S, x)]
           n == Cardinality(S)
<1>1. n \in Nat
  BY FS_CardinalityType
<1>2. f \in [S -> 1..n]
  BY RanksDiffer
<1>3. f \in Injection(S, 1..n)
  <2>1. \A x, y \in S : f[x] = f[y] => x = y
    BY RanksDiffer
  <2> HIDE DEF f
  <2>2. QED  BY <1>2, <2>1 DEF Injection, IsInjective
<1>4. IsFiniteSet(1..n) /\ Cardinality(1..n) = n
  BY <1>1, FS_Interval
<1>5. f \in Surjection(S, 1..n)
  <2> HIDE DEF f
  <2>1. QED  BY <1>3, <1>4, FS_Injection
<1>6. QED  BY <1>5 DEF Surjection

Ascends(s) == \A i, j \in 1..Len(s) : i < j => s[i] < s[j]

Members(s) == {s[i] : i \in 1..Len(s)}

\* Ascending lists the members of a finite set, in their order,
LEMMA AscendingLists ==
  ASSUME NEW S, S \subseteq Int, IsFiniteSet(S)
  PROVE  LET s == Geometry!Ascending(S)
         IN  /\ s \in Seq(S) /\ Len(s) = Cardinality(S) /\ Members(s) = S /\ Ascends(s)
             /\ \A k \in 1..Len(s) : Rank(S, s[k]) = k
<1> DEFINE n == Cardinality(S)
           s == Geometry!Ascending(S)
<1>1. n \in Nat
  BY FS_CardinalityType
<1>2. s = [k \in 1..n |-> CHOOSE x \in S : Rank(S, x) = k]
  BY DEF Geometry!Ascending, Rank, Geometry!Cardinality, Cardinality, Geometry!IsFiniteSet,
         IsFiniteSet
<1>3. \A k \in 1..n : s[k] \in S /\ Rank(S, s[k]) = k
  BY <1>2, EachRank
<1>4. s \in Seq(S) /\ Len(s) = n
  <2>1. s \in [1..n -> S]
    <3>1. s = [k \in 1..n |-> s[k]]
      BY <1>2
    <3> HIDE DEF s
    <3>2. QED  BY <1>3, <3>1
  <2> HIDE DEF s
  <2>2. QED  BY <1>1, <2>1
<1> HIDE DEF s
<1>5. Members(s) = S
  <2>1. ASSUME NEW x \in S  PROVE x \in Members(s)
    <3>1. Rank(S, x) \in 1..n
      BY RanksDiffer
    <3>2. /\ s[Rank(S, x)] \in S
          /\ Rank(S, s[Rank(S, x)]) = Rank(S, x)
      BY <1>3, <3>1
    <3>3. s[Rank(S, x)] = x
      BY <3>2, RanksDiffer
    <3>4. QED  BY <3>1, <3>3, <1>4 DEF Members
  <2>2. QED  BY <1>3, <1>4, <2>1 DEF Members
<1>6. Ascends(s)
  <2>1. ASSUME NEW i \in 1..n, NEW j \in 1..n, i < j  PROVE s[i] < s[j]
    <3>1. s[i] \in Int /\ s[j] \in Int /\ Rank(S, s[i]) = i /\ Rank(S, s[j]) = j
      BY <1>3
    <3>2. ~ (s[j] < s[i]) /\ s[i] # s[j]
      <4>1. s[j] \in S /\ s[i] \in S
        BY <1>3
      <4>2. s[j] < s[i] => Rank(S, s[j]) < Rank(S, s[i])
        BY <4>1, RanksDiffer
      <4>3. QED  BY <2>1, <3>1, <4>2
    <3>3. QED  BY <3>1, <3>2
  <2>2. QED  BY <1>4, <2>1 DEF Ascends
<1>7. QED  BY <1>3, <1>4, <1>5, <1>6 DEF s

FirstOnes(s, k) == {s[i] : i \in 1..k}

Differ(s, k) == \A i, j \in 1..k : s[i] = s[j] => i = j

\* The first k of a list without repetitions are k.
LEMMA FirstCount ==
  ASSUME NEW s, NEW k \in Nat, Differ(s, k)
  PROVE  IsFiniteSet(FirstOnes(s, k)) /\ Cardinality(FirstOnes(s, k)) = k
<1> DEFINE T == {s[i] : i \in 1..k}
           f == [i \in 1..k |-> s[i]]
<1>1. f \in Bijection(1..k, T)
  <2>1. f \in Surjection(1..k, T)
    BY DEF Surjection
  <2>2. \A i, j \in 1..k : f[i] = f[j] => i = j
    BY DEF Differ
  <2> HIDE DEF f
  <2>3. QED  BY <2>1, <2>2 DEF Bijection, Injection, IsInjective, Surjection
<1>2. IsFiniteSet(1..k) /\ Cardinality(1..k) = k
  BY FS_Interval
<1>3. ExistsBijection(1..k, T)
  BY <1>1 DEF ExistsBijection
<1> HIDE DEF T
<1>4. IsFiniteSet(T) /\ Cardinality(T) = Cardinality(1..k)
  BY <1>2, <1>3, FS_Bijection
<1>5. QED  BY <1>2, <1>4 DEF T, FirstOnes

\* and it is the only such list.
LEMMA AscendingIs ==
  ASSUME NEW s \in Seq(Int), Ascends(s)
  PROVE  /\ IsFiniteSet(Members(s)) /\ Cardinality(Members(s)) = Len(s)
         /\ s = Geometry!Ascending(Members(s))
<1> DEFINE n == Len(s)
           S == Members(s)
<1>1. n \in Nat /\ s \in [1..n -> Int] /\ S \subseteq Int
  BY LenProperties DEF Members
<1>2. ASSUME NEW k \in 0..n
      PROVE  LET T == {s[i] : i \in 1..k} IN IsFiniteSet(T) /\ Cardinality(T) = k
  <2>1. \A i \in 1..k : i \in 1..n /\ s[i] \in Int
    BY <1>1
  <2>2. Differ(s, k)
    <3>1. SUFFICES ASSUME NEW i \in 1..k, NEW j \in 1..k, i < j  PROVE s[i] # s[j]
      BY DEF Differ
    <3>2. QED  BY <2>1, <3>1 DEF Ascends
  <2>3. k \in Nat
    OBVIOUS
  <2>4. QED  BY <2>2, <2>3, FirstCount DEF FirstOnes
<1>3. IsFiniteSet(S) /\ Cardinality(S) = n
  <2>1. n \in 0..n /\ S = {s[i] : i \in 1..n}
    BY <1>1 DEF Members
  <2>2. QED  BY <1>2, <2>1
<1> DEFINE t == Geometry!Ascending(S)
<1>4. /\ t \in Seq(S) /\ Len(t) = n /\ Members(t) = S /\ Ascends(t)
      /\ \A k \in 1..n : t[k] \in S /\ Rank(S, t[k]) = k
  <2>1. S \subseteq Int /\ IsFiniteSet(S) /\ Cardinality(S) = n
    BY <1>1, <1>3
  <2> HIDE DEF S, n
  <2>2. /\ t \in Seq(S) /\ Len(t) = Cardinality(S) /\ Members(t) = S /\ Ascends(t)
        /\ \A k \in 1..Len(t) : Rank(S, t[k]) = k
    BY <2>1, AscendingLists
  <2> HIDE DEF t
  <2>3. \A k \in 1..n : t[k] \in S
    BY <2>1, <2>2, ElementOfSeq
  <2>4. QED  BY <2>1, <2>2, <2>3
<1> HIDE DEF t
<1>5. ASSUME NEW k \in 1..n  PROVE s[k] = t[k]
  <2>1. {y \in S : y <= s[k]} = {s[i] : i \in 1..k}
    <3>1. \A i \in 1..k : i \in 1..n /\ s[i] \in Int /\ s[i] <= s[k]
      BY <1>1 DEF Ascends
    <3>2. \A i \in 1..n : s[i] <= s[k] => i \in 1..k
      BY <1>1 DEF Ascends
    <3>3. QED  BY <3>1, <3>2 DEF Members
  <2>2. k \in 0..n
    OBVIOUS
  <2>3. Rank(S, s[k]) = k
    BY <1>2, <2>1, <2>2 DEF Rank
  <2>4. s[k] \in S /\ t[k] \in S /\ Rank(S, t[k]) = k
    BY <1>4 DEF Members
  <2> HIDE DEF S
  <2>5. \A x, y \in S : Rank(S, x) = Rank(S, y) => x = y
    BY <1>1, <1>3, RanksDiffer
  <2>6. QED  BY <2>3, <2>4, <2>5
<1>6. s = t
  <2>1. t \in Seq(Int)
    BY <1>1, <1>4, SeqMonotonic
  <2>2. QED  BY <1>4, <1>5, <2>1, SeqEqual
<1>7. QED  BY <1>3, <1>6 DEF t

\* A finite set of numbers has a least and a greatest member.
LEMMA Extremes ==
  ASSUME NEW S, S \subseteq Int, IsFiniteSet(S), S # {}
  PROVE  /\ Geometry!Min(S) \in S /\ \A y \in S : Geometry!Min(S) <= y
         /\ Geometry!Max(S) \in S /\ \A y \in S : Geometry!Max(S) >= y
<1> DEFINE s == Geometry!Ascending(S)
           n == Cardinality(S)
<1>1. s \in Seq(S) /\ Len(s) = n /\ Members(s) = S /\ Ascends(s)
  BY AscendingLists
<1>2. n \in Nat /\ n # 0
  BY FS_CardinalityType, FS_EmptySet
<1> HIDE DEF s, n
<1>3. 1 \in 1..n /\ n \in 1..n
  BY <1>2
<1>4. s[1] \in S /\ s[n] \in S
  BY <1>1, <1>3 DEF Members
<1>5. \A y \in S : s[1] <= y /\ s[n] >= y
  <2>1. SUFFICES ASSUME NEW i \in 1..n  PROVE s[1] <= s[i] /\ s[n] >= s[i]
    BY <1>1 DEF Members
  <2>2. s[i] \in S
    BY <1>1 DEF Members
  <2>3. (1 < i => s[1] < s[i]) /\ (i < n => s[i] < s[n])
    BY <1>1, <1>3 DEF Ascends
  <2>4. /\ i \in Int /\ n \in Int /\ 1 <= i /\ i <= n
        /\ s[1] \in Int /\ s[i] \in Int /\ s[n] \in Int
    <3>1. i \in Int /\ n \in Int /\ 1 <= i /\ i <= n
      BY <1>2
    <3>2. s[1] \in Int /\ s[i] \in Int /\ s[n] \in Int
      BY <1>4, <2>2
    <3>3. QED  BY <3>1, <3>2
  <2>5. QED  BY <2>3, <2>4
<1>6. QED  BY <1>4, <1>5 DEF Geometry!Min, Geometry!Max
-----------------------------------------------------------------------------
\* Of S, the first max members by their keys, while there is room for them.
Kept(list, S, max, key) ==
  /\ list \in Seq(S) /\ Len(list) <= max
  /\ \A i, j \in 1..Len(list) : i < j => key[list[i]] < key[list[j]]
  /\ \A x \in S : \/ x \in Members(list)
                  \/ Len(list) = max /\ \A i \in 1..Len(list) : key[list[i]] < key[x]

LEMMA KeptMore ==
  ASSUME NEW D, NEW S, S \subseteq D, NEW max \in Nat, NEW key \in [D -> Int], NEW list,
         Kept(list, S, max, key), NEW x \in D, \A y \in S : key[y] < key[x]
  PROVE  Kept(IF Len(list) < max THEN Append(list, x) ELSE list, S \cup {x}, max, key)
<1> DEFINE n == Len(list)
           more == Append(list, x)
<1>1. n \in Nat /\ list \in Seq(S \cup {x}) /\ n <= max
  BY SeqMonotonic DEF Kept
<1>2. \A i \in 1..n : list[i] \in S /\ key[list[i]] < key[x]
  BY DEF Kept
<1>3. CASE n < max
  <2>1. /\ more \in Seq(S \cup {x}) /\ Len(more) = n + 1 /\ more[n + 1] = x
        /\ \A i \in 1..n : more[i] = list[i]
    BY <1>1
  <2> HIDE DEF more
  <2>2. ASSUME NEW i \in 1..(n + 1), NEW j \in 1..(n + 1), i < j
        PROVE  key[more[i]] < key[more[j]]
    <3>1. i \in 1..n /\ more[i] = list[i]
      BY <1>1, <2>1, <2>2
    <3>2. CASE j = n + 1
      BY <1>2, <2>1, <3>1, <3>2
    <3>3. CASE j # n + 1
      <4>1. j \in 1..n
        BY <1>1, <3>3
      <4>2. QED  BY <2>1, <2>2, <3>1, <4>1 DEF Kept
    <3>4. QED  BY <3>2, <3>3
  <2>3. ASSUME NEW y \in S \cup {x}  PROVE y \in Members(more)
    <3>1. CASE y = x
      <4>1. n + 1 \in 1..Len(more)
        BY <1>1, <2>1
      <4>2. QED  BY <2>1, <3>1, <4>1 DEF Members
    <3>2. CASE y \in S
      <4>1. y \in Members(list)
        BY <1>3, <3>2, <1>1 DEF Kept
      <4>2. PICK i \in 1..n : y = list[i]
        BY <4>1 DEF Members
      <4>3. i \in 1..Len(more)
        BY <1>1, <2>1
      <4>4. QED  BY <2>1, <4>2, <4>3 DEF Members
    <3>3. QED  BY <3>1, <3>2
  <2>4. Len(more) <= max
    BY <1>1, <1>3, <2>1
  <2> HIDE DEF n
  <2>5. /\ \A i, j \in 1..Len(more) : i < j => key[more[i]] < key[more[j]]
        /\ more \in Seq(S \cup {x}) /\ Len(more) <= max
    BY <2>1, <2>2, <2>4
  <2>6. Kept(more, S \cup {x}, max, key)
    BY <2>3, <2>5 DEF Kept
  <2>7. QED  BY <1>3, <2>6 DEF more, n
<1>4. CASE ~ (n < max)
  <2>1. n = max
    BY <1>1, <1>4
  <2>2. QED  BY <1>1, <1>2, <1>4, <2>1 DEF Kept
<1>5. QED  BY <1>3, <1>4

\* The k-th kept is the k-th by its key, and what is not kept comes after max.
LEMMA KeptCounts ==
  ASSUME NEW S, IsFiniteSet(S), NEW max \in Nat, NEW key, \A x \in S : key[x] \in Int,
         NEW list, Kept(list, S, max, key)
  PROVE  /\ Cardinality(Members(list)) = Len(list) /\ Members(list) \subseteq S
         /\ \A k \in 1..Len(list) : Cardinality({y \in S : key[y] <= key[list[k]]}) = k
         /\ \A x \in S \ Members(list) : /\ Cardinality({y \in S : key[y] <= key[x]}) > max
                                         /\ Len(list) = max
<1> DEFINE n == Len(list)
<1>1. n \in Nat /\ n <= max /\ \A i \in 1..n : list[i] \in S /\ key[list[i]] \in Int
  BY DEF Kept
<1>2. Differ(list, n)
  <2>1. SUFFICES ASSUME NEW i \in 1..n, NEW j \in 1..n, i < j  PROVE list[i] # list[j]
    BY DEF Differ
  <2>2. key[list[i]] < key[list[j]] /\ key[list[i]] \in Int
    BY <1>1, <2>1 DEF Kept
  <2>3. QED  BY <2>2
<1>3. Members(list) \subseteq S
  BY <1>1 DEF Members
<1>4. Cardinality(Members(list)) = n
  BY <1>1, <1>2, FirstCount DEF Members, FirstOnes
<1>5. ASSUME NEW k \in 1..n  PROVE Cardinality({y \in S : key[y] <= key[list[k]]}) = k
  <2>1. {y \in S : key[y] <= key[list[k]]} = {list[i] : i \in 1..k}
    <3>1. ASSUME NEW i \in 1..k  PROVE list[i] \in S /\ key[list[i]] <= key[list[k]]
      <4>1. i \in 1..n /\ (i = k \/ i < k)
        BY <1>1
      <4>2. QED  BY <1>1, <4>1 DEF Kept
    <3>2. ASSUME NEW y \in S, key[y] <= key[list[k]]  PROVE \E i \in 1..k : y = list[i]
      <4>1. y \in Members(list)
        <5>1. ~ (key[list[k]] < key[y])
          BY <1>1, <3>2
        <5>2. QED  BY <5>1 DEF Kept
      <4>2. PICK i \in 1..n : y = list[i]
        BY <4>1 DEF Members
      <4>3. ~ (k < i)
        <5>1. k < i => key[list[k]] < key[list[i]]
          BY DEF Kept
        <5>2. QED  BY <1>1, <3>2, <4>2, <5>1
      <4>4. i \in 1..k
        BY <1>1, <4>3
      <4>5. QED  BY <4>2, <4>4
    <3>3. QED  BY <3>1, <3>2
  <2>2. k \in Nat /\ Differ(list, k)
    <3>1. \A i \in 1..k : i \in 1..n
      BY <1>1
    <3>2. QED  BY <1>2, <3>1 DEF Differ
  <2>3. QED  BY <2>1, <2>2, FirstCount DEF FirstOnes
<1>6. ASSUME NEW x \in S \ Members(list)
      PROVE  Cardinality({y \in S : key[y] <= key[x]}) > max /\ n = max
  <2> DEFINE T == {y \in S : key[y] <= key[x]}
  <2>1. n = max /\ \A i \in 1..n : key[list[i]] < key[x]
    BY DEF Kept
  <2>2. Members(list) \cup {x} \in SUBSET T
    <3>1. \A i \in 1..n : list[i] \in T
      BY <1>1, <2>1
    <3>2. x \in T
      OBVIOUS
    <3>3. QED  BY <3>1, <3>2 DEF Members
  <2>3. IsFiniteSet(T) /\ IsFiniteSet(Members(list))
    BY <1>3, FS_Subset
  <2> HIDE DEF T
  <2>4. Cardinality(Members(list) \cup {x}) = n + 1
    BY <1>4, <2>3, FS_AddElement
  <2>5. Cardinality(Members(list) \cup {x}) <= Cardinality(T) /\ Cardinality(T) \in Nat
    BY <2>2, <2>3, FS_Subset, FS_CardinalityType
  <2>6. QED  BY <1>1, <2>1, <2>4, <2>5 DEF T
<1>7. QED  BY <1>3, <1>4, <1>5, <1>6
-----------------------------------------------------------------------------
(***************************************************************************)
(* The envelope. The inductive invariant of the loop over the samples:     *)
(* after the first i of them, a bin bears the stamp of this solve just     *)
(* when one of them fell into it, and then it has the highest, the         *)
(* earliest of those.                                                      *)
(***************************************************************************)
LEMMA Quotient ==
  ASSUME NEW a \in Int, NEW w \in Nat \ {0}
  PROVE  /\ a \div w \in Int
         /\ w * (a \div w) <= a /\ a < w * (a \div w) + w
OBVIOUS

LEMMA QuotientGrows ==
  ASSUME NEW a \in Int, NEW b \in Int, a <= b, NEW w \in Nat \ {0}
  PROVE  /\ a \div w <= b \div w
         /\ a >= 0 => a \div w >= 0
<1> DEFINE x == a \div w
           y == b \div w
<1>1. x \in Int /\ y \in Int /\ w * x <= a /\ b < w * y + w /\ a < w * x + w
  BY Quotient
<1> HIDE DEF x, y
<1>2. ~ (x > y)
  <2>1. SUFFICES ASSUME x >= y + 1  PROVE FALSE
    BY <1>1
  <2>2. w * x >= w * (y + 1)
    BY <1>1, <2>1
  <2>3. w * (y + 1) = w * y + w
    BY <1>1
  <2>4. w * x \in Int /\ w * y \in Int
    BY <1>1
  <2>5. QED  BY <1>1, <2>2, <2>3, <2>4
<1>3. a >= 0 => x >= 0
  <2>1. SUFFICES ASSUME a >= 0, x + 1 <= 0  PROVE FALSE
    BY <1>1
  <2>2. w * (x + 1) <= w * 0 /\ w * 0 = 0
    BY <1>1, <2>1
  <2>3. w * (x + 1) = w * x + w /\ w * x \in Int
    BY <1>1
  <2>4. QED  BY <1>1, <2>1, <2>2, <2>3
<1>4. QED  BY <1>1, <1>2, <1>3 DEF x, y

Sample == [at : Int, height : Int]

LEMMA GeometryNumbers ==
  /\ NotFinite \notin Sample
  /\ \A m \in Model :
       /\ BinWidth[m] \in Nat \ {0} /\ Bins[m] \in Nat
       /\ IsFiniteSet(RailNodes[m]) /\ RailNodes[m] # {} /\ RailNodes[m] \subseteq Int
       /\ \A x \in Geometry!Min(RailNodes[m])..Geometry!Max(RailNodes[m]) : Rail[m][x] \in Int
  /\ Epsilon \in Nat /\ MergeTolerance \in Nat
  /\ MaxIslands \in Nat \ {0} /\ MaxPatches \in Nat \ {0}
  /\ GridStations \in Nat /\ GridStations >= 3 /\ Generations \in Nat /\ Generations > 1
<1>1. \A S : Geometry!IsFiniteSet(S) = IsFiniteSet(S)
  BY DEF Geometry!IsFiniteSet, IsFiniteSet
<1>2. QED  BY <1>1, EvaluationAssumptions DEF Geometry!GeometryAssumption, Sample

\* The projections of a wheel's outline that a model has bins for.
Projections(m) ==
  {o \in Seq(Sample \cup {NotFinite}) :
     Geometry!Valid(o) # {} => Geometry!BinCount(m, o) <= Bins[m]}

LEMMA OutlinesProject ==
  ASSUME NEW of \in Outlines, NEW m \in Model, NEW p \in Pose
  PROVE  of[m][p] \in Projections(m)
BY EvaluationAssumptions DEF Geometry!GeometryAssumption, Projections, Sample

\* Where a sample's bin is.
LEMMA BinsOfSamples ==
  ASSUME NEW m \in Model, NEW o \in Projections(m), Geometry!Valid(o) # {}
  PROVE  /\ IsFiniteSet(Geometry!Valid(o)) /\ Geometry!Valid(o) \subseteq 1..Len(o)
         /\ \A i \in Geometry!Valid(o) : o[i] \in Sample
         /\ Geometry!BinCount(m, o) \in 1..Bins[m]
         /\ \A i \in Geometry!Valid(o) : Geometry!BinOf(m, o, i) \in 1..Geometry!BinCount(m, o)
         /\ \A i, j \in Geometry!Valid(o) :
              o[i].at <= o[j].at => Geometry!BinOf(m, o, i) <= Geometry!BinOf(m, o, j)
<1> DEFINE V == Geometry!Valid(o)
           w == BinWidth[m]
           A == {o[i].at : i \in V}
           low == Geometry!Low(o)
           high == Geometry!High(o)
           count == Geometry!BinCount(m, o)
<1>1. w \in Nat \ {0} /\ Bins[m] \in Nat
  BY GeometryNumbers
<1>2. o \in Seq(Sample \cup {NotFinite}) /\ count <= Bins[m] /\ Len(o) \in Nat
  BY DEF Projections
<1>3. V \subseteq 1..Len(o) /\ \A i \in V : o[i] \in Sample /\ o[i].at \in Int
  BY <1>2 DEF Geometry!Valid, Sample
<1>4. IsFiniteSet(V)
  <2>1. IsFiniteSet(1..Len(o))
    BY <1>2, FS_Interval
  <2>2. QED  BY <1>3, <2>1, FS_Subset
<1> HIDE DEF V
<1>5. A \subseteq Int /\ IsFiniteSet(A) /\ A # {}
  <2>1. A \subseteq Int /\ A # {}
    BY <1>3 DEF V
  <2> DEFINE f == [i \in V |-> o[i].at]
  <2>2. f \in Surjection(V, A)
    BY DEF Surjection
  <2> HIDE DEF f, A
  <2>3. QED  BY <1>4, <2>1, <2>2, FS_Surjection
<1>6. low \in A /\ high \in A /\ \A x \in A : low <= x /\ x <= high
  <2>1. low = Geometry!Min(A) /\ high = Geometry!Max(A)
    BY DEF Geometry!Low, Geometry!High, V
  <2> HIDE DEF A, low, high
  <2>2. /\ Geometry!Min(A) \in A /\ \A y \in A : Geometry!Min(A) <= y
        /\ Geometry!Max(A) \in A /\ \A y \in A : Geometry!Max(A) >= y
    BY <1>5, Extremes
  <2>3. low \in Int /\ high \in Int /\ \A x \in A : x \in Int
    BY <1>5, <2>1, <2>2
  <2>4. QED  BY <2>1, <2>2, <2>3
<1> HIDE DEF low, high
<1>7. low \in Int /\ high \in Int /\ low <= high
  BY <1>5, <1>6
<1>8. \A i \in V : o[i].at \in Int /\ low <= o[i].at /\ o[i].at <= high
  BY <1>3, <1>6
<1> DEFINE q == (high - low + w - 1) \div w
<1>9. q \in Nat
  <2>1. high - low + w - 1 \in Int /\ high - low + w - 1 >= 0
    BY <1>1, <1>7
  <2> HIDE DEF q
  <2>2. QED  BY <1>1, <2>1, Quotient, QuotientGrows DEF q
<1>10. count = q + 1
  BY DEF Geometry!BinCount, Geometry!RoundUp, low, high
<1> HIDE DEF q, count
<1> DEFINE d(i) == (o[i].at - low) \div w
<1>11. ASSUME NEW i \in V  PROVE d(i) \in Nat
  <2>1. o[i].at - low \in Int /\ o[i].at - low >= 0
    BY <1>7, <1>8
  <2>2. QED  BY <1>1, <2>1, Quotient, QuotientGrows
<1>12. ASSUME NEW i \in V  PROVE Geometry!BinOf(m, o, i) = (IF d(i) <= q THEN d(i) ELSE q) + 1
  <2> DEFINE least == IF d(i) <= q THEN d(i) ELSE q
             T == {d(i), q}
  <2>1. Geometry!BinOf(m, o, i) = Geometry!Min({d(i), count - 1}) + 1
    BY DEF Geometry!BinOf, low, count
  <2>2. count - 1 = q
    BY <1>9, <1>10
  <2>3. Geometry!Min(T) = least
    <3>1. d(i) \in Nat /\ q \in Nat
      BY <1>9, <1>11
    <3> HIDE DEF d
    <3>2. least \in T /\ \A y \in T : least <= y
      BY <3>1
    <3>3. \A x \in T : (\A y \in T : x <= y) => x = least
      BY <3>1
    <3>4. QED  BY <3>2, <3>3 DEF Geometry!Min
  <2>4. QED  BY <2>1, <2>2, <2>3
<1>13. ASSUME NEW i \in V, NEW j \in V, o[i].at <= o[j].at  PROVE d(i) <= d(j)
  <2>1. o[i].at - low \in Int /\ o[j].at - low \in Int /\ o[i].at - low <= o[j].at - low
    BY <1>7, <1>8, <1>13
  <2>2. QED  BY <1>1, <2>1, QuotientGrows
<1> HIDE DEF d
<1>14. \A i \in V : Geometry!BinOf(m, o, i) \in 1..count
  BY <1>9, <1>10, <1>11, <1>12
<1>15. \A i, j \in V : o[i].at <= o[j].at => Geometry!BinOf(m, o, i) <= Geometry!BinOf(m, o, j)
  <2>1. SUFFICES ASSUME NEW i \in V, NEW j \in V, o[i].at <= o[j].at
                 PROVE  Geometry!BinOf(m, o, i) <= Geometry!BinOf(m, o, j)
    OBVIOUS
  <2>2. d(i) <= d(j) /\ d(i) \in Nat /\ d(j) \in Nat
    BY <1>11, <1>13, <2>1
  <2>3. QED  BY <1>9, <1>12, <2>2
<1>16. count \in 1..Bins[m]
  BY <1>1, <1>2, <1>9, <1>10
<1>17. QED  BY <1>3, <1>4, <1>14, <1>15, <1>16 DEF V, count

Bin == [stamp : Nat, sample : Nat, highest : Int]

\* Bins of which none was stamped after g.
BinsUpto(g) == {b \in Seq(Bin) : \A j \in 1..Len(b) : b[j].stamp <= g}

LEMMA GrownBins ==
  ASSUME NEW g \in Nat, NEW b \in BinsUpto(g), NEW size \in Nat
  PROVE  Geometry!Grown(b, size) \in BinsUpto(g) /\ Len(Geometry!Grown(b, size)) >= size
<1> DEFINE n == Len(b)
           more == Geometry!Max({0, size - n})
           rest == [i \in 1..more |-> Geometry!Unstamped]
           all == Geometry!Grown(b, size)
<1>1. b \in Seq(Bin) /\ n \in Nat /\ \A j \in 1..n : b[j].stamp <= g
  BY DEF BinsUpto
<1>2. more = IF size > n THEN size - n ELSE 0
  <2> DEFINE greatest == IF size > n THEN size - n ELSE 0
             T == {0, size - n}
  <2>1. greatest \in T /\ \A y \in T : greatest >= y
    BY <1>1
  <2>2. \A x \in T : (\A y \in T : x >= y) => x = greatest
    BY <1>1
  <2>3. QED  BY <2>1, <2>2 DEF Geometry!Max
<1> HIDE DEF more
<1>3. more \in Nat /\ n + more >= size
  BY <1>1, <1>2
<1>4. Geometry!Unstamped \in Bin /\ Geometry!Unstamped.stamp = 0
  BY DEF Geometry!Unstamped, Bin
<1>5. rest \in Seq(Bin) /\ Len(rest) = more /\ \A i \in 1..more : rest[i].stamp = 0
  BY <1>3, <1>4
<1>6. all = b \o rest
  BY DEF Geometry!Grown, more
<1> HIDE DEF rest, all, n
<1>7. /\ all \in Seq(Bin) /\ Len(all) = n + more
      /\ \A i \in 1..(n + more) : all[i] = IF i <= n THEN b[i] ELSE rest[i - n]
  BY <1>1, <1>5, <1>6, ConcatProperties DEF n
<1>8. ASSUME NEW i \in 1..(n + more)  PROVE all[i].stamp <= g
  <2>1. CASE i <= n
    <3>1. i \in 1..n
      BY <1>1, <1>3, <2>1
    <3>2. QED  BY <1>1, <1>7, <2>1, <3>1
  <2>2. CASE ~ (i <= n)
    <3>1. i - n \in 1..more
      BY <1>1, <1>3, <2>2
    <3>2. QED  BY <1>5, <1>7, <2>2, <3>1
  <2>3. QED  BY <2>1, <2>2
<1>9. QED  BY <1>3, <1>7, <1>8 DEF BinsUpto, all

\* A new stamp is later than those of the bins, also when the stamps start again.
LEMMA StampIsNew ==
  ASSUME NEW g \in 0..(Generations - 1), NEW b \in BinsUpto(g)
  PROVE  LET st == Geometry!Stamped(b, g)
         IN  /\ st.stamp \in 1..(Generations - 1)
             /\ st.bins \in BinsUpto(st.stamp - 1) /\ Len(st.bins) = Len(b)
<1> DEFINE st == Geometry!Stamped(b, g)
<1>1. Generations \in Nat /\ Generations > 1 /\ g \in Nat /\ g + 1 <= Generations
  BY GeometryNumbers
<1>2. b \in Seq(Bin) /\ Len(b) \in Nat /\ \A j \in 1..Len(b) : b[j].stamp <= g /\ b[j] \in Bin
  BY DEF BinsUpto
<1>3. DOMAIN b = 1..Len(b)
  BY <1>2
<1>4. CASE (g + 1) % Generations = 0
  <2> DEFINE c == [i \in 1..Len(b) |-> [b[i] EXCEPT !.stamp = 0]]
  <2>1. \A i \in 1..Len(b) : [b[i] EXCEPT !.stamp = 0] \in Bin /\ [b[i] EXCEPT !.stamp = 0].stamp = 0
    BY <1>2 DEF Bin
  <2>2. c \in [1..Len(b) -> Bin] /\ \A i \in 1..Len(b) : c[i].stamp = 0
    BY <2>1
  <2>3. c \in Seq(Bin) /\ Len(c) = Len(b)
    <3> HIDE DEF c
    <3>1. QED  BY <1>2, <2>2
  <2>4. st = [bins |-> c, stamp |-> 1]
    BY <1>3, <1>4 DEF Geometry!Stamped
  <2> HIDE DEF c, st
  <2>5. st.stamp = 1 /\ st.bins = c
    BY <2>4
  <2>6. c \in BinsUpto(0)
    BY <2>2, <2>3 DEF BinsUpto
  <2>7. /\ st.stamp \in 1..(Generations - 1) /\ st.bins \in BinsUpto(st.stamp - 1)
        /\ Len(st.bins) = Len(b)
    BY <1>1, <2>3, <2>5, <2>6
  <2>8. QED  BY <2>7 DEF st
<1>5. CASE (g + 1) % Generations # 0
  <2>1. g + 1 # Generations
    BY <1>1, <1>5
  <2>2. st = [bins |-> b, stamp |-> g + 1]
    BY <1>5 DEF Geometry!Stamped
  <2> HIDE DEF st
  <2>3. st.stamp = g + 1 /\ st.bins = b
    BY <2>2
  <2>4. (g + 1) - 1 = g /\ g + 1 \in 1..(Generations - 1)
    BY <1>1, <2>1
  <2>5. QED  BY <2>3, <2>4 DEF st
<1>6. QED  BY <1>4, <1>5

\* The samples up to the i-th that fall into a bin.
Into(m, o, i, bin) == {x \in Geometry!Valid(o) : x <= i /\ Geometry!BinOf(m, o, x) = bin}

\* A bin holds the highest of its samples up to the i-th, of those the earliest.
Holds(m, o, i, stamp, b, bin) ==
  /\ b[bin].stamp = stamp <=> Into(m, o, i, bin) # {}
  /\ Into(m, o, i, bin) # {} =>
       /\ b[bin].sample \in Into(m, o, i, bin) /\ b[bin].highest = o[b[bin].sample].height
       /\ \A x \in Into(m, o, i, bin) :
            \/ o[x].height < b[bin].highest
            \/ o[x].height = b[bin].highest /\ b[bin].sample <= x

BinsAfter(m, o, i, stamp, size) ==
  {b \in BinsUpto(stamp) :
     /\ Len(b) = size
     /\ \A bin \in 1..Geometry!BinCount(m, o) : Holds(m, o, i, stamp, b, bin)}

OneMore(m, o, i, stamp, b) ==
  IF o[i] = NotFinite THEN b
  ELSE Geometry!Offered(b, stamp, Geometry!BinOf(m, o, i), i, o[i].height)

LEMMA OfferKeeps ==
  ASSUME NEW m \in Model, NEW o \in Projections(m), Geometry!Valid(o) # {},
         NEW i \in 1..Len(o), NEW stamp \in Nat, NEW size \in Nat, size >= Bins[m],
         NEW b \in BinsAfter(m, o, i - 1, stamp, size)
  PROVE  OneMore(m, o, i, stamp, b) \in BinsAfter(m, o, i, stamp, size)
<1> DEFINE count == Geometry!BinCount(m, o)
           V == Geometry!Valid(o)
           here == Geometry!BinOf(m, o, i)
           new == [stamp |-> stamp, sample |-> i, highest |-> o[i].height]
           c == OneMore(m, o, i, stamp, b)
<1>1. /\ V \subseteq 1..Len(o) /\ \A x \in V : o[x] \in Sample /\ o[x].height \in Int
      /\ count \in 1..Bins[m] /\ \A x \in V : Geometry!BinOf(m, o, x) \in 1..count
  BY BinsOfSamples DEF Sample
<1>2. /\ b \in Seq(Bin) /\ Len(b) = size /\ \A j \in 1..size : b[j].stamp <= stamp
      /\ \A bin \in 1..count : Holds(m, o, i - 1, stamp, b, bin)
  BY DEF BinsAfter, BinsUpto
<1>3. /\ Bins[m] \in Nat /\ count \in Nat /\ i \in Nat /\ \A bin \in 1..count : bin \in 1..size
  BY <1>1, GeometryNumbers
<1>4. i \in V <=> o[i] # NotFinite
  BY DEF Geometry!Valid
<1>5. \A x \in V : x \in Nat /\ (x <= i <=> x <= i - 1 \/ x = i)
  BY <1>1, <1>3
<1>6. ASSUME NEW bin \in 1..count, i \notin V \/ bin # here
      PROVE  Into(m, o, i, bin) = Into(m, o, i - 1, bin)
  BY <1>5, <1>6 DEF Into
<1>7. CASE o[i] = NotFinite
  <2>1. c = b /\ i \notin V
    BY <1>4, <1>7 DEF OneMore
  <2>2. \A bin \in 1..count : Holds(m, o, i, stamp, b, bin)
    BY <1>2, <1>6, <2>1 DEF Holds
  <2>3. QED  BY <2>1, <2>2 DEF BinsAfter
<1>8. CASE o[i] # NotFinite
  <2>1. /\ i \in V /\ here \in 1..count /\ here \in 1..size /\ o[i].height \in Int
        /\ Into(m, o, i, here) = Into(m, o, i - 1, here) \cup {i}
        /\ i \in Into(m, o, i, here)
    BY <1>1, <1>3, <1>4, <1>5, <1>8 DEF Into
  <2>2. b[here] \in Bin
    BY <1>2, <2>1, ElementOfSeq
  <2>3. b[here].highest \in Int /\ b[here].stamp \in Nat
    BY <2>2 DEF Bin
  <2>4. new \in Bin
    BY <2>1, <1>3 DEF Bin
  <2> DEFINE wins == b[here].stamp # stamp \/ o[i].height > b[here].highest
  <2>5. c = IF wins THEN [b EXCEPT ![here] = new] ELSE b
    BY <1>8 DEF OneMore, Geometry!Offered
  <2>6. Holds(m, o, i - 1, stamp, b, here)
    BY <1>2, <2>1
  <2>7. CASE wins
    <3> DEFINE d == [b EXCEPT ![here] = new]
    <3>1. d \in Seq(Bin) /\ Len(d) = size /\ \A j \in 1..size : d[j] = IF j = here THEN new ELSE b[j]
      BY <1>2, <2>1, <2>4, ExceptSeq
    <3> HIDE DEF d
    <3>2. ASSUME NEW bin \in 1..count, bin # here  PROVE Holds(m, o, i, stamp, d, bin)
      <4>1. d[bin] = b[bin]
        BY <1>3, <3>1, <3>2
      <4>2. QED  BY <1>2, <1>6, <3>2, <4>1 DEF Holds
    <3>3. Holds(m, o, i, stamp, d, here)
      <4>1. d[here] = new
        BY <2>1, <3>1
      <4>2. ASSUME NEW x \in Into(m, o, i, here)
            PROVE  o[x].height < o[i].height \/ (o[x].height = o[i].height /\ i <= x)
        <5>1. CASE x = i
          BY <2>1, <5>1, <1>3
        <5>2. CASE x # i
          <6>1. x \in Into(m, o, i - 1, here) /\ x \in V
            BY <2>1, <5>2 DEF Into
          <6>2. b[here].stamp = stamp
            BY <2>6, <6>1 DEF Holds
          <6>3. o[x].height <= b[here].highest /\ o[i].height > b[here].highest
            BY <2>3, <2>6, <2>7, <6>1, <6>2, <1>1 DEF Holds
          <6>4. o[x].height \in Int
            BY <1>1, <6>1
          <6>5. o[x].height < o[i].height
            BY <2>1, <2>3, <6>3, <6>4
          <6>6. QED  BY <6>5
        <5>3. QED  BY <5>1, <5>2
      <4>3. new.stamp = stamp /\ new.sample = i /\ new.highest = o[i].height
        OBVIOUS
      <4> HIDE DEF new
      <4>4. QED  BY <2>1, <4>1, <4>2, <4>3 DEF Holds
    <3>4. \A j \in 1..size : d[j].stamp <= stamp
      <4>1. new.stamp <= stamp
        OBVIOUS
      <4> HIDE DEF new
      <4>2. QED  BY <1>2, <3>1, <4>1
    <3>5. d \in BinsAfter(m, o, i, stamp, size)
      BY <3>1, <3>2, <3>3, <3>4 DEF BinsAfter, BinsUpto
    <3>6. QED  BY <2>5, <2>7, <3>5 DEF d
  <2>8. CASE ~ wins
    <3>1. b[here].stamp = stamp /\ o[i].height <= b[here].highest
      BY <2>1, <2>3, <2>8
    <3>2. Holds(m, o, i, stamp, b, here)
      <4>1. b[here].sample \in Into(m, o, i - 1, here)
        BY <2>6, <3>1 DEF Holds
      <4>2. b[here].sample <= i
        BY <1>1, <1>3, <4>1 DEF Into
      <4>3. QED  BY <2>1, <2>3, <2>6, <3>1, <4>1, <4>2 DEF Holds
    <3>3. \A bin \in 1..count : bin # here => Holds(m, o, i, stamp, b, bin)
      BY <1>2, <1>6 DEF Holds
    <3>4. c = b
      BY <2>5, <2>8
    <3>5. QED  BY <3>2, <3>3, <3>4 DEF BinsAfter
  <2>9. QED  BY <2>7, <2>8
<1>9. QED  BY <1>7, <1>8

\* After all samples, each bin holds the best of its own.
LEMMA BinsHold ==
  ASSUME NEW m \in Model, NEW o \in Projections(m), Geometry!Valid(o) # {},
         NEW stamp \in Nat \ {0}, NEW b \in BinsUpto(stamp - 1), Len(b) >= Bins[m]
  PROVE  Geometry!Binned(m, o, b, stamp) \in BinsAfter(m, o, Len(o), stamp, Len(b))
<1> DEFINE n == Len(o)
           size == Len(b)
           T == [i \in 0..n |-> BinsAfter(m, o, i, stamp, size)]
           F == [i \in 1..n |-> [s \in T[i - 1] |-> OneMore(m, o, i, stamp, s)]]
           Body(f) == [i \in 0..n |-> IF i = 0 THEN b ELSE OneMore(m, o, i, stamp, f[i - 1])]
           after == CHOOSE f : f = Body(f)
<1>1. /\ o \in Seq(Sample \cup {NotFinite}) /\ n \in Nat
      /\ b \in Seq(Bin) /\ size \in Nat /\ \A j \in 1..size : b[j].stamp <= stamp - 1 /\ b[j] \in Bin
  BY DEF Projections, BinsUpto
<1>2. Geometry!BinCount(m, o) \in 1..Bins[m] /\ Bins[m] \in Nat /\ Geometry!Valid(o) \subseteq 1..n
  BY BinsOfSamples, GeometryNumbers
<1>3. b \in T[0]
  <2>1. \A j \in 1..size : b[j].stamp \in Nat /\ b[j].stamp < stamp /\ b[j].stamp <= stamp
    BY <1>1 DEF Bin
  <2>2. \A bin \in 1..Geometry!BinCount(m, o) : bin \in 1..size /\ Into(m, o, 0, bin) = {}
    BY <1>1, <1>2 DEF Into
  <2>3. \A bin \in 1..Geometry!BinCount(m, o) : Holds(m, o, 0, stamp, b, bin)
    BY <2>1, <2>2 DEF Holds
  <2>4. b \in BinsAfter(m, o, 0, stamp, size)
    BY <1>1, <2>1, <2>3 DEF BinsAfter, BinsUpto
  <2>5. QED  BY <1>1, <2>4
<1>4. ASSUME NEW i \in 1..n, NEW s \in T[i - 1]  PROVE OneMore(m, o, i, stamp, s) \in T[i]
  <2>1. i \in 0..n /\ i - 1 \in 0..n
    BY <1>1
  <2>2. s \in BinsAfter(m, o, i - 1, stamp, size)
    BY <2>1
  <2>3. OneMore(m, o, i, stamp, s) \in BinsAfter(m, o, i, stamp, size)
    BY <1>1, <2>2, OfferKeeps
  <2>4. QED  BY <2>1, <2>3
<1>5. \E f : f = Body(f)
  <2>1. \A i \in 1..n : \A s \in T[i - 1] : F[i][s] \in T[i]
    BY <1>4
  <2>2. PICK f : IsLoop(f, n, b, F) /\ \A i \in 0..n : f[i] \in T[i]
    <3> HIDE DEF T, F, n
    <3>1. QED  BY <1>1, <1>3, <2>1, LoopExists
  <2>3. ASSUME NEW i \in 0..n
        PROVE  (IF i = 0 THEN b ELSE F[i][f[i - 1]]) = IF i = 0 THEN b ELSE OneMore(m, o, i, stamp, f[i - 1])
    <3> SUFFICES ASSUME i # 0  PROVE F[i][f[i - 1]] = OneMore(m, o, i, stamp, f[i - 1])
      OBVIOUS
    <3>1. i \in 1..n /\ i - 1 \in 0..n
      BY <1>1
    <3>2. f[i - 1] \in T[i - 1]
      BY <2>2, <3>1
    <3> HIDE DEF T
    <3>3. QED  BY <3>1, <3>2
  <2>4. [i \in 0..n |-> IF i = 0 THEN b ELSE F[i][f[i - 1]]] = Body(f)
    <3> HIDE DEF F, T
    <3>1. QED  BY <2>3
  <2>5. f = Body(f)
    <3> HIDE DEF F, T
    <3>1. QED  BY <2>2, <2>4 DEF IsLoop
  <2>6. QED  BY <2>5
<1>6. after = Body(after)
  BY <1>5
<1>7. Geometry!Binned(m, o, b, stamp) = after[n]
  BY DEF Geometry!Binned, OneMore
<1> HIDE DEF after
<1>8. after[0] = b
  BY <1>1, <1>6
<1>9. ASSUME NEW i \in 1..n, after[i - 1] \in T[i - 1]  PROVE after[i] \in T[i]
  <2>1. i \in 0..n /\ i # 0
    BY <1>1
  <2>2. after[i] = OneMore(m, o, i, stamp, after[i - 1])
    BY <1>6, <2>1
  <2> HIDE DEF T
  <2>3. QED  BY <1>4, <1>9, <2>2
<1>10. \A i \in 0..n : after[i] \in T[i]
  <2> HIDE DEF T, n
  <2>1. QED  BY <1>1, <1>3, <1>8, <1>9, LoopKeeps
<1>11. n \in 0..n
  BY <1>1
<1>12. after[n] \in BinsAfter(m, o, n, stamp, size)
  <2>1. after[n] \in T[n]
    BY <1>10, <1>11
  <2>2. T[n] = BinsAfter(m, o, n, stamp, size)
    BY <1>11
  <2>3. QED  BY <2>1, <2>2
<1>13. QED  BY <1>7, <1>12

\* So the envelope is that of the samples, whatever the bins held before.
LEMMA EnvelopeIsTrue ==
  ASSUME NEW m \in Model, NEW o \in Projections(m), Geometry!Valid(o) # {},
         NEW stamp \in Nat, NEW size, NEW b \in BinsAfter(m, o, Len(o), stamp, size)
  PROVE  Geometry!Envelope(m, o, b, stamp) = Geometry!TrueEnvelope(m, o)
<1> DEFINE V == Geometry!Valid(o)
           count == Geometry!BinCount(m, o)
           In(bin) == {i \in V : Geometry!BinOf(m, o, i) = bin}
           Top(bin) == Geometry!Max({o[i].height : i \in In(bin)})
           Best(bin) == Geometry!Min({i \in In(bin) : o[i].height = Top(bin)})
           used == {bin \in 1..count : In(bin) # {}}
           stamped == {bin \in 1..count : b[bin].stamp = stamp}
           list == Geometry!Ascending(used)
<1>1. /\ V \subseteq 1..Len(o) /\ Len(o) \in Nat /\ \A x \in V : o[x] \in Sample /\ o[x].height \in Int
      /\ count \in Nat
  <2>1. Len(o) \in Nat
    BY DEF Projections
  <2>2. QED  BY <2>1, BinsOfSamples, GeometryNumbers DEF Sample
<1>2. ASSUME NEW bin  PROVE Into(m, o, Len(o), bin) = In(bin)
  BY <1>1 DEF Into
<1>3. \A bin \in 1..count : Holds(m, o, Len(o), stamp, b, bin)
  BY DEF BinsAfter
<1>4. used = stamped
  BY <1>2, <1>3 DEF Holds
<1>5. ASSUME NEW bin \in used
      PROVE  /\ Best(bin) = b[bin].sample
             /\ [at |-> o[b[bin].sample].at, height |-> b[bin].highest] = o[b[bin].sample]
  <2> DEFINE s == b[bin].sample
             h == b[bin].highest
             H == {o[i].height : i \in In(bin)}
             A == {i \in In(bin) : o[i].height = h}
  <2>1. /\ s \in In(bin) /\ h = o[s].height
        /\ \A x \in In(bin) : o[x].height < h \/ (o[x].height = h /\ s <= x)
    BY <1>2, <1>3 DEF Holds
  <2> HIDE DEF s, h
  <2>2. /\ s \in V /\ h \in Int /\ \A x \in In(bin) : x \in Int /\ o[x].height \in Int
    BY <1>1, <2>1
  <2>3. h \in H /\ (\A y \in H : y \in Int) /\ \A y \in H : h >= y
    BY <2>1, <2>2
  <2>4. Top(bin) = h
    <3> HIDE DEF H
    <3>1. \A x \in H : (\A y \in H : x >= y) => x = h
      BY <2>3
    <3>2. Geometry!Max(H) = h
      BY <2>3, <3>1 DEF Geometry!Max
    <3>3. QED  BY <3>2 DEF H
  <2>5. s \in A /\ (\A y \in A : y \in Int) /\ \A y \in A : s <= y
    BY <2>1, <2>2
  <2>6. Best(bin) = s
    <3>1. Best(bin) = Geometry!Min(A)
      BY <2>4
    <3> HIDE DEF A, Best
    <3>2. \A x \in A : (\A y \in A : x <= y) => x = s
      BY <2>5
    <3>3. Geometry!Min(A) = s
      BY <2>5, <3>2 DEF Geometry!Min
    <3>4. QED  BY <3>1, <3>3
  <2>7. o[s] \in Sample
    BY <1>1, <2>2
  <2>8. [at |-> o[s].at, height |-> o[s].height] = o[s]
    BY <2>7 DEF Sample
  <2> HIDE DEF Best
  <2>9. QED  BY <2>1, <2>6, <2>8 DEF s, h
<1>6. used \subseteq Int /\ IsFiniteSet(used)
  <2>1. used \in SUBSET (1..count) /\ IsFiniteSet(1..count) /\ 1..count \subseteq Int
    BY <1>1, FS_Interval
  <2> HIDE DEF used, count
  <2>2. IsFiniteSet(used)
    BY <2>1, FS_Subset
  <2>3. QED  BY <2>1, <2>2
<1>7. list \in Seq(used) /\ \A k \in DOMAIN list : list[k] \in used
  <2> HIDE DEF used
  <2>1. list \in Seq(used)
    BY <1>6, AscendingLists
  <2> HIDE DEF list
  <2>2. QED  BY <2>1
<1>8. Geometry!TrueEnvelope(m, o) = [k \in DOMAIN list |-> o[Best(list[k])]]
  BY DEF Geometry!TrueEnvelope
<1>9. Geometry!Envelope(m, o, b, stamp)
        = [k \in DOMAIN list |-> [at |-> o[b[list[k]].sample].at, height |-> b[list[k]].highest]]
  <2>1. list = Geometry!Ascending(stamped)
    <3> HIDE DEF used, stamped
    <3>1. QED  BY <1>4
  <2>2. QED  BY <2>1 DEF Geometry!Envelope
<1> HIDE DEF list, used, Best
<1>10. \A k \in DOMAIN list :
         [at |-> o[b[list[k]].sample].at, height |-> b[list[k]].highest] = o[Best(list[k])]
  BY <1>5, <1>7
<1>11. QED  BY <1>8, <1>9, <1>10

\* Points of an envelope, from left to right.
Envelopes == {e \in Seq(Sample) : \A i, j \in 1..Len(e) : i < j => e[i].at < e[j].at}

LEMMA TrueEnvelopeAscends ==
  ASSUME NEW m \in Model, NEW o \in Projections(m), Geometry!Valid(o) # {}
  PROVE  Geometry!TrueEnvelope(m, o) \in Envelopes
<1> DEFINE V == Geometry!Valid(o)
           count == Geometry!BinCount(m, o)
           In(bin) == {i \in V : Geometry!BinOf(m, o, i) = bin}
           Top(bin) == Geometry!Max({o[i].height : i \in In(bin)})
           Best(bin) == Geometry!Min({i \in In(bin) : o[i].height = Top(bin)})
           used == {bin \in 1..count : In(bin) # {}}
           list == Geometry!Ascending(used)
           e == Geometry!TrueEnvelope(m, o)
<1>1. /\ V \subseteq 1..Len(o) /\ Len(o) \in Nat /\ IsFiniteSet(V)
      /\ \A x \in V : o[x] \in Sample /\ o[x].height \in Int /\ o[x].at \in Int
      /\ count \in Nat
      /\ \A i, j \in V : o[i].at <= o[j].at => Geometry!BinOf(m, o, i) <= Geometry!BinOf(m, o, j)
  <2>1. Len(o) \in Nat
    BY DEF Projections
  <2>2. QED  BY <2>1, BinsOfSamples, GeometryNumbers DEF Sample
<1>2. used \subseteq Int /\ IsFiniteSet(used)
  <2>1. used \in SUBSET (1..count) /\ IsFiniteSet(1..count) /\ 1..count \subseteq Int
    BY <1>1, FS_Interval
  <2> HIDE DEF used, count
  <2>2. IsFiniteSet(used)
    BY <2>1, FS_Subset
  <2>3. QED  BY <2>1, <2>2
<1>3. ASSUME NEW bin \in used  PROVE Best(bin) \in In(bin)
  <2> DEFINE H == {o[i].height : i \in In(bin)}
             A == {i \in In(bin) : o[i].height = Top(bin)}
             f == [i \in In(bin) |-> o[i].height]
  <2>1. IsFiniteSet(In(bin))
    BY <1>1, FS_Subset
  <2>2. H # {} /\ H \subseteq Int
    BY <1>1
  <2>3. f \in Surjection(In(bin), H)
    BY DEF Surjection
  <2> HIDE DEF H, f
  <2>4. IsFiniteSet(H)
    <3> HIDE DEF In
    <3>1. QED  BY <2>1, <2>3, FS_Surjection
  <2>5. Geometry!Max(H) \in H
    BY <2>2, <2>4, Extremes
  <2>6. A # {} /\ A \subseteq Int
    <3>1. Top(bin) \in H
      BY <2>5 DEF H
    <3> HIDE DEF Top
    <3>2. QED  BY <1>1, <3>1 DEF H
  <2>7. A \in SUBSET In(bin)
    OBVIOUS
  <2>8. Best(bin) = Geometry!Min(A)
    OBVIOUS
  <2> HIDE DEF A, In, Best
  <2>9. IsFiniteSet(A)
    BY <2>1, <2>7, FS_Subset
  <2>10. Geometry!Min(A) \in A
    BY <2>6, <2>9, Extremes
  <2>11. QED  BY <2>7, <2>8, <2>10
<1>4. e = [k \in DOMAIN list |-> o[Best(list[k])]]
  BY DEF Geometry!TrueEnvelope
<1>5. list \in Seq(used) /\ Ascends(list) /\ \A k \in 1..Len(list) : list[k] \in used
  <2> HIDE DEF used
  <2>1. list \in Seq(used) /\ Ascends(list)
    BY <1>2, AscendingLists
  <2> HIDE DEF list
  <2>2. QED  BY <2>1
<1> HIDE DEF list, Best, e
<1>6. Len(list) \in Nat /\ DOMAIN list = 1..Len(list)
  BY <1>5
<1>7. \A k \in 1..Len(list) : /\ Best(list[k]) \in V /\ o[Best(list[k])] \in Sample
                              /\ Geometry!BinOf(m, o, Best(list[k])) = list[k]
  BY <1>1, <1>3, <1>5
<1>8. e \in [1..Len(list) -> Sample]
  BY <1>4, <1>6, <1>7
<1>9. e \in Seq(Sample) /\ Len(e) = Len(list)
  BY <1>6, <1>8
<1>10. ASSUME NEW i \in 1..Len(list), NEW j \in 1..Len(list), i < j  PROVE e[i].at < e[j].at
  <2> DEFINE x == Best(list[i])
             y == Best(list[j])
  <2>1. /\ x \in V /\ y \in V /\ Geometry!BinOf(m, o, x) = list[i] /\ Geometry!BinOf(m, o, y) = list[j]
        /\ e[i] = o[x] /\ e[j] = o[y]
    BY <1>4, <1>6, <1>7
  <2>2. list[i] < list[j] /\ list[i] \in Int /\ list[j] \in Int
    BY <1>2, <1>5, <1>10 DEF Ascends
  <2> HIDE DEF x, y
  <2>3. ~ (o[y].at <= o[x].at) /\ o[x].at \in Int /\ o[y].at \in Int
    BY <1>1, <2>1, <2>2
  <2>4. QED  BY <2>1, <2>3
<1>11. QED  BY <1>9, <1>10 DEF Envelopes, e
-----------------------------------------------------------------------------
(***************************************************************************)
(* The grid. The merge of two ascending lists is the ascending list of     *)
(* what is in either, so it has nothing to do with how the loop comes by   *)
(* it.                                                                     *)
(***************************************************************************)
\* A set of first numbers is as long as it has members.
LEMMA FirstNumbers ==
  ASSUME NEW n \in Nat, NEW B, B \subseteq 1..n, \A i \in B : \A j \in 1..i : j \in B
  PROVE  Cardinality(B) \in 0..n /\ B = 1..Cardinality(B)
<1>1. IsFiniteSet(B) /\ B \subseteq Int
  <2>1. IsFiniteSet(1..n) /\ B \in SUBSET (1..n) /\ B \subseteq Int
    BY FS_Interval
  <2>2. IsFiniteSet(B)
    BY <2>1, FS_Subset
  <2>3. QED  BY <2>1, <2>2
<1>2. CASE B = {}
  BY <1>2, FS_EmptySet
<1>3. CASE B # {}
  <2> DEFINE x == Geometry!Max(B)
  <2>1. x \in B /\ \A y \in B : x >= y
    BY <1>1, <1>3, Extremes
  <2> HIDE DEF x
  <2>2. x \in Nat /\ x <= n /\ x >= 1
    BY <2>1
  <2>3. \A y \in B : y \in Nat /\ y >= 1
    OBVIOUS
  <2>4. B = 1..x
    <3>1. \A y \in B : y \in 1..x
      BY <2>1, <2>2, <2>3
    <3>2. QED  BY <2>1, <3>1
  <2>5. Cardinality(1..x) = x
    BY <2>2, FS_Interval
  <2>6. QED  BY <2>2, <2>4, <2>5
<1>4. QED  BY <1>2, <1>3

LEMMA StretchIs ==
  ASSUME NEW e \in Envelopes, NEW lo \in Int, NEW hi \in Int, lo <= hi
  PROVE  LET s == Geometry!Stretch(e, lo..hi)
         IN  s \in Seq(Int) /\ Ascends(s) /\ Members(s) = {e[k].at : k \in DOMAIN e} \cap lo..hi
<1> DEFINE n == Len(e)
           before == {i \in DOMAIN e : \A x \in lo..hi : e[i].at < x}
           within == {i \in DOMAIN e : e[i].at \in lo..hi}
           p == Cardinality(before)
           q == Cardinality(before \cup within)
           s == Geometry!Stretch(e, lo..hi)
<1>1. /\ n \in Nat /\ DOMAIN e = 1..n /\ \A i \in 1..n : e[i].at \in Int
      /\ \A i, j \in 1..n : i < j => e[i].at < e[j].at
  <2>1. e \in Seq(Sample) /\ \A i, j \in 1..n : i < j => e[i].at < e[j].at
    BY DEF Envelopes
  <2>2. n \in Nat /\ DOMAIN e = 1..n /\ \A i \in 1..n : e[i] \in Sample
    BY <2>1
  <2>3. \A i \in 1..n : e[i].at \in Int
    BY <2>2 DEF Sample
  <2>4. QED  BY <2>1, <2>2, <2>3
<1>2. \A i \in 1..n : /\ i \in before <=> e[i].at < lo
                      /\ i \in within <=> lo <= e[i].at /\ e[i].at <= hi
                      /\ i \in before \cup within <=> e[i].at <= hi
  <2>1. SUFFICES ASSUME NEW i \in 1..n
                 PROVE  /\ i \in before <=> e[i].at < lo
                        /\ i \in within <=> lo <= e[i].at /\ e[i].at <= hi
    BY <1>1
  <2>2. e[i].at \in Int
    BY <1>1
  <2>3. lo \in lo..hi /\ \A x \in lo..hi : x \in Int /\ lo <= x
    OBVIOUS
  <2>4. (\A x \in lo..hi : e[i].at < x) <=> e[i].at < lo
    BY <2>2, <2>3
  <2>5. QED  BY <1>1, <2>2, <2>4
<1>3. \A i, j \in 1..n : j <= i => e[j].at <= e[i].at
  BY <1>1
<1>4. before \subseteq 1..n /\ within \subseteq 1..n
  BY <1>1
<1> HIDE DEF before, within, n
<1>5. \A i \in 1..n : \A j \in 1..i : j \in 1..n /\ j <= i
  BY <1>1
<1>6. p \in 0..n /\ before = 1..p
  <2>1. \A i \in before : \A j \in 1..i : j \in before
    BY <1>1, <1>2, <1>3, <1>4, <1>5
  <2>2. QED  BY <1>1, <1>4, <2>1, FirstNumbers
<1>7. q \in 0..n /\ before \cup within = 1..q
  <2>1. \A i \in before \cup within : \A j \in 1..i : j \in before \cup within
    BY <1>1, <1>2, <1>3, <1>4, <1>5
  <2>2. QED  BY <1>1, <1>4, <2>1, FirstNumbers
<1> HIDE DEF p, q
<1>8. \A i \in 1..n : i \in within <=> i \in 1..q /\ i \notin 1..p
  BY <1>1, <1>2, <1>6, <1>7
<1>9. p <= q
  <2>1. \A i \in 1..p : i \in 1..q
    BY <1>6, <1>7
  <2>2. SUFFICES ASSUME p > q  PROVE FALSE
    BY <1>1, <1>6, <1>7
  <2>3. p \in 1..p /\ p \notin 1..q
    BY <1>1, <1>6, <1>7, <2>2
  <2>4. QED  BY <2>1, <2>3
<1>10. within = (p + 1)..q
  <2>1. p \in Nat /\ q \in Nat /\ n \in Nat /\ q <= n
    BY <1>1, <1>6, <1>7
  <2>2. \A i \in within : i \in (p + 1)..q
    BY <1>4, <1>8, <2>1
  <2>3. \A i \in (p + 1)..q : i \in 1..n /\ i \in 1..q /\ i \notin 1..p
    BY <2>1
  <2>4. QED  BY <1>8, <2>2, <2>3
<1>11. Cardinality(within) = q - p
  <2>1. p + 1 \in Int /\ q \in Int
    BY <1>1, <1>6, <1>7
  <2>2. Cardinality((p + 1)..q) = IF p + 1 > q THEN 0 ELSE q - (p + 1) + 1
    BY <2>1, FS_Interval
  <2>3. p \in Nat /\ q \in Nat
    BY <1>1, <1>6, <1>7
  <2>4. QED  BY <1>9, <1>10, <2>2, <2>3
<1>12. s = [k \in 1..(q - p) |-> e[p + k].at]
  <2>1. \A T : Geometry!Cardinality(T) = Cardinality(T)
    BY CountsAlike
  <2>2. s = [k \in 1..Geometry!Cardinality(within) |-> e[Geometry!Cardinality(before) + k].at]
    BY DEF Geometry!Stretch, before, within
  <2> HIDE DEF s
  <2>3. QED  BY <1>11, <2>1, <2>2 DEF p
<1>13. \A k \in 1..(q - p) : p + k \in 1..n /\ p + k \in within
  BY <1>1, <1>6, <1>7, <1>10
<1>14. s \in Seq(Int) /\ Len(s) = q - p
  <2>1. s \in [1..(q - p) -> Int]
    BY <1>1, <1>12, <1>13
  <2> HIDE DEF s
  <2>2. q - p \in Nat
    BY <1>1, <1>6, <1>7, <1>9
  <2>3. QED  BY <2>1, <2>2
<1> HIDE DEF s
<1>15. Ascends(s)
  <2>1. SUFFICES ASSUME NEW i \in 1..(q - p), NEW j \in 1..(q - p), i < j  PROVE s[i] < s[j]
    BY <1>14 DEF Ascends
  <2>2. p + i < p + j /\ p + i \in 1..n /\ p + j \in 1..n
    BY <1>1, <1>6, <1>7, <1>13, <2>1
  <2>3. QED  BY <1>1, <1>12, <2>2
<1>16. Members(s) = {e[k].at : k \in DOMAIN e} \cap lo..hi
  <2>1. ASSUME NEW k \in 1..(q - p)  PROVE s[k] \in {e[j].at : j \in DOMAIN e} \cap lo..hi
    BY <1>1, <1>12, <1>13 DEF within
  <2>2. ASSUME NEW j \in 1..n, e[j].at \in lo..hi  PROVE e[j].at \in Members(s)
    <3>1. j \in within
      BY <1>1, <2>2 DEF within
    <3>2. j - p \in 1..(q - p) /\ p + (j - p) = j
      BY <1>1, <1>6, <1>7, <1>10, <3>1
    <3>3. s[j - p] = e[j].at
      BY <1>12, <3>2
    <3>4. QED  BY <1>14, <3>2, <3>3 DEF Members
  <2>3. QED  BY <1>1, <1>14, <2>1, <2>2 DEF Members
<1>17. QED  BY <1>14, <1>15, <1>16 DEF s
-----------------------------------------------------------------------------
\* A value no earlier than a grid is taken into it once.
LEMMA GridTakes ==
  ASSUME NEW grid \in Seq(Int), Ascends(grid), NEW v \in Int, \A x \in Members(grid) : x <= v
  PROVE  LET new == IF grid # <<>> /\ grid[Len(grid)] = v THEN grid ELSE Append(grid, v)
         IN  new \in Seq(Int) /\ Ascends(new) /\ Members(new) = Members(grid) \cup {v}
<1> DEFINE n == Len(grid)
           more == Append(grid, v)
<1>1. n \in Nat /\ \A i \in 1..n : grid[i] \in Int /\ grid[i] <= v
  BY DEF Members
<1>2. CASE grid # <<>> /\ grid[n] = v
  <2>1. n \in 1..n
    BY <1>1, <1>2, EmptySeq
  <2>2. v \in Members(grid)
    BY <1>2, <2>1 DEF Members
  <2>3. QED  BY <1>2, <2>2
<1>3. CASE ~ (grid # <<>> /\ grid[n] = v)
  <2>1. more \in Seq(Int) /\ Len(more) = n + 1 /\ more[n + 1] = v /\ \A i \in 1..n : more[i] = grid[i]
    BY <1>1
  <2>2. \A i \in 1..n : grid[i] < v
    <3>1. SUFFICES ASSUME NEW i \in 1..n  PROVE grid[i] # v
      BY <1>1
    <3>2. grid # <<>> /\ n \in 1..n
      BY <1>1, EmptySeq
    <3>3. grid[n] < v
      BY <1>1, <1>3, <3>2
    <3>4. i = n \/ i < n
      BY <1>1
    <3>5. grid[i] = grid[n] \/ grid[i] < grid[n]
      BY <3>2, <3>4 DEF Ascends
    <3>6. QED  BY <1>1, <3>2, <3>3, <3>5
  <2> HIDE DEF more
  <2>3. Ascends(more)
    <3>1. SUFFICES ASSUME NEW i \in 1..(n + 1), NEW j \in 1..(n + 1), i < j  PROVE more[i] < more[j]
      BY <2>1 DEF Ascends
    <3>2. i \in 1..n
      BY <1>1, <3>1
    <3>3. CASE j = n + 1
      BY <2>1, <2>2, <3>2, <3>3
    <3>4. CASE j # n + 1
      <4>1. j \in 1..n
        BY <1>1, <3>4
      <4>2. QED  BY <2>1, <3>1, <3>2, <4>1 DEF Ascends
    <3>5. QED  BY <3>3, <3>4
  <2>4. Members(more) = Members(grid) \cup {v}
    <3>1. \A i \in 1..(n + 1) : i = n + 1 \/ i \in 1..n
      BY <1>1
    <3>2. n + 1 \in 1..(n + 1) /\ \A i \in 1..n : i \in 1..(n + 1)
      BY <1>1
    <3>3. \A x : x \in Members(more) <=> \E i \in 1..(n + 1) : x = more[i]
      BY <2>1 DEF Members
    <3>4. \A x : x \in Members(grid) <=> \E i \in 1..n : x = grid[i]
      BY DEF Members
    <3>5. ASSUME NEW x \in Members(grid)  PROVE x \in Members(more)
      <4>1. PICK i \in 1..n : x = grid[i]
        BY <3>4
      <4>2. i \in 1..(n + 1) /\ x = more[i]
        BY <2>1, <3>2, <4>1
      <4>3. QED  BY <3>3, <4>2
    <3>6. v \in Members(more)
      BY <2>1, <3>2, <3>3
    <3>7. ASSUME NEW x \in Members(more), x # v  PROVE x \in Members(grid)
      <4>1. PICK i \in 1..(n + 1) : x = more[i]
        BY <3>3
      <4>2. i \in 1..n /\ x = grid[i]
        BY <2>1, <3>1, <3>7, <4>1
      <4>3. QED  BY <3>4, <4>2
    <3> HIDE DEF n
    <3>8. QED  BY <3>5, <3>6, <3>7
  <2>5. QED  BY <1>3, <2>1, <2>3, <2>4 DEF more
<1>4. QED  BY <1>2, <1>3

\* The first of two lists drawn so far, and their values in the grid.
DrawnSoFar(a, b, n) ==
  {s \in [a : 0..Len(a), b : 0..Len(b), grid : Seq(Int)] :
     /\ s.a + s.b = n
     /\ Ascends(s.grid) /\ Members(s.grid) = FirstOnes(a, s.a) \cup FirstOnes(b, s.b)
     /\ \A i \in 1..s.a, j \in (s.b + 1)..Len(b) : a[i] <= b[j]
     /\ \A i \in (s.a + 1)..Len(a), j \in 1..s.b : b[j] <= a[i]}

LEMMA DrawKeeps ==
  ASSUME NEW a \in Seq(Int), Ascends(a), NEW b \in Seq(Int), Ascends(b),
         NEW n \in 1..(Len(a) + Len(b)), NEW s \in DrawnSoFar(a, b, n - 1)
  PROVE  Geometry!Drawn(a, b, s) \in DrawnSoFar(a, b, n)
<1> DEFINE p == s.a
           q == s.b
           first == q = Len(b) \/ (p < Len(a) /\ a[p + 1] <= b[q + 1])
           v == IF first THEN a[p + 1] ELSE b[q + 1]
           grid == IF s.grid # <<>> /\ s.grid[Len(s.grid)] = v THEN s.grid ELSE Append(s.grid, v)
<1>1. /\ Len(a) \in Nat /\ Len(b) \in Nat /\ p \in 0..Len(a) /\ q \in 0..Len(b)
      /\ p + q = n - 1 /\ n \in Nat /\ n <= Len(a) + Len(b)
      /\ s.grid \in Seq(Int) /\ Ascends(s.grid)
      /\ Members(s.grid) = FirstOnes(a, p) \cup FirstOnes(b, q)
      /\ \A i \in 1..p, j \in (q + 1)..Len(b) : a[i] <= b[j]
      /\ \A i \in (p + 1)..Len(a), j \in 1..q : b[j] <= a[i]
  BY DEF DrawnSoFar
<1>2. /\ \A i \in 1..Len(a) : a[i] \in Int
      /\ \A i \in 1..Len(b) : b[i] \in Int
      /\ \A i, j \in 1..Len(a) : i < j => a[i] < a[j]
      /\ \A i, j \in 1..Len(b) : i < j => b[i] < b[j]
  BY DEF Ascends
<1>3. Geometry!Drawn(a, b, s)
        = [a |-> IF first THEN p + 1 ELSE p, b |-> IF first THEN q ELSE q + 1, grid |-> grid]
  BY DEF Geometry!Drawn
<1> HIDE DEF p, q
<1>4. CASE first
  <2>1. p + 1 \in 1..Len(a) /\ p + 1 \in (p + 1)..Len(a)
    <3>1. p < Len(a)
      BY <1>1, <1>4
    <3>2. QED  BY <1>1, <3>1
  <2>2. v = a[p + 1] /\ v \in Int
    BY <1>2, <1>4, <2>1
  <2>3. \A x \in Members(s.grid) : x <= v
    <3>1. \A i \in 1..p : a[i] <= a[p + 1]
      <4>1. SUFFICES ASSUME NEW i \in 1..p  PROVE a[i] <= a[p + 1]
        OBVIOUS
      <4>2. i \in 1..Len(a) /\ i < p + 1
        BY <1>1
      <4>3. QED  BY <1>2, <2>1, <4>2
    <3>2. \A j \in 1..q : b[j] <= a[p + 1]
      BY <1>1, <2>1
    <3>3. QED  BY <1>1, <2>2, <3>1, <3>2 DEF FirstOnes
  <2>4. grid \in Seq(Int) /\ Ascends(grid) /\ Members(grid) = Members(s.grid) \cup {v}
    <3> HIDE DEF v
    <3>1. QED  BY <1>1, <2>2, <2>3, GridTakes
  <2>5. FirstOnes(a, p + 1) = FirstOnes(a, p) \cup {v}
    <3>1. \A i \in 1..(p + 1) : i \in 1..p \/ i = p + 1
      BY <1>1
    <3>2. p + 1 \in 1..(p + 1) /\ \A i \in 1..p : i \in 1..(p + 1)
      BY <1>1
    <3> HIDE DEF v
    <3>3. QED  BY <2>2, <3>1, <3>2 DEF FirstOnes
  <2> HIDE DEF grid, v
  <2>6. Members(grid) = FirstOnes(a, p + 1) \cup FirstOnes(b, q)
    BY <1>1, <2>4, <2>5
  <2>7. ASSUME NEW i \in 1..(p + 1), NEW j \in (q + 1)..Len(b)  PROVE a[i] <= b[j]
    <3>1. CASE i = p + 1
      <4>1. q # Len(b) /\ a[p + 1] <= b[q + 1]
        BY <1>1, <1>4, <2>7
      <4>2. q + 1 \in 1..Len(b) /\ j \in 1..Len(b) /\ (q + 1 = j \/ q + 1 < j)
        BY <1>1, <2>7
      <4>3. b[q + 1] <= b[j] /\ b[q + 1] \in Int /\ b[j] \in Int
        BY <1>2, <4>2
      <4>4. QED  BY <1>2, <2>1, <3>1, <4>1, <4>3
    <3>2. CASE i # p + 1
      <4>1. i \in 1..p
        BY <1>1, <3>2
      <4>2. QED  BY <1>1, <4>1
    <3>3. QED  BY <3>1, <3>2
  <2>8. \A i \in (p + 2)..Len(a), j \in 1..q : b[j] <= a[i]
    <3>1. \A i \in (p + 2)..Len(a) : i \in (p + 1)..Len(a)
      BY <1>1
    <3>2. QED  BY <1>1, <3>1
  <2> DEFINE new == [a |-> p + 1, b |-> q, grid |-> grid]
  <2>9. Geometry!Drawn(a, b, s) = new
    BY <1>3, <1>4
  <2>10. new.a = p + 1 /\ new.b = q /\ new.grid = grid
    OBVIOUS
  <2>11. /\ new \in [a : 0..Len(a), b : 0..Len(b), grid : Seq(Int)]
         /\ (p + 1) + 1 = p + 2 /\ (p + 1) + q = n
    <3>1. p + 1 \in 0..Len(a) /\ q \in 0..Len(b) /\ (p + 1) + 1 = p + 2 /\ (p + 1) + q = n
      BY <1>1, <2>1
    <3>2. grid \in Seq(Int)
      BY <2>4
    <3>3. QED  BY <3>1, <3>2
  <2> HIDE DEF new
  <2>12. new \in DrawnSoFar(a, b, n)
    BY <2>4, <2>6, <2>7, <2>8, <2>10, <2>11 DEF DrawnSoFar
  <2>13. QED  BY <2>9, <2>12
<1>5. CASE ~ first
  <2>1. q + 1 \in 1..Len(b) /\ q + 1 \in (q + 1)..Len(b)
    <3>1. q < Len(b)
      BY <1>1, <1>5
    <3>2. QED  BY <1>1, <3>1
  <2>2. v = b[q + 1] /\ v \in Int
    BY <1>2, <1>5, <2>1
  <2>3. \A x \in Members(s.grid) : x <= v
    <3>1. \A j \in 1..q : b[j] <= b[q + 1]
      <4>1. SUFFICES ASSUME NEW j \in 1..q  PROVE b[j] <= b[q + 1]
        OBVIOUS
      <4>2. j \in 1..Len(b) /\ j < q + 1
        BY <1>1
      <4>3. QED  BY <1>2, <2>1, <4>2
    <3>2. \A i \in 1..p : a[i] <= b[q + 1]
      BY <1>1, <2>1
    <3>3. QED  BY <1>1, <2>2, <3>1, <3>2 DEF FirstOnes
  <2>4. grid \in Seq(Int) /\ Ascends(grid) /\ Members(grid) = Members(s.grid) \cup {v}
    <3> HIDE DEF v
    <3>1. QED  BY <1>1, <2>2, <2>3, GridTakes
  <2>5. FirstOnes(b, q + 1) = FirstOnes(b, q) \cup {v}
    <3>1. \A i \in 1..(q + 1) : i \in 1..q \/ i = q + 1
      BY <1>1
    <3>2. q + 1 \in 1..(q + 1) /\ \A i \in 1..q : i \in 1..(q + 1)
      BY <1>1
    <3> HIDE DEF v
    <3>3. QED  BY <2>2, <3>1, <3>2 DEF FirstOnes
  <2> HIDE DEF grid, v
  <2>6. Members(grid) = FirstOnes(a, p) \cup FirstOnes(b, q + 1)
    BY <1>1, <2>4, <2>5
  <2>7. ASSUME NEW i \in (p + 1)..Len(a), NEW j \in 1..(q + 1)  PROVE b[j] <= a[i]
    <3>1. CASE j = q + 1
      <4>1. p < Len(a)
        BY <1>1, <2>7
      <4>2. p + 1 \in 1..Len(a) /\ i \in 1..Len(a) /\ (p + 1 = i \/ p + 1 < i)
        BY <1>1, <2>7
      <4>3. a[p + 1] <= a[i] /\ a[p + 1] \in Int /\ a[i] \in Int
        BY <1>2, <4>2
      <4>4. b[q + 1] < a[p + 1]
        BY <1>2, <1>5, <2>1, <4>1, <4>3
      <4>5. QED  BY <1>2, <2>1, <3>1, <4>3, <4>4
    <3>2. CASE j # q + 1
      <4>1. j \in 1..q
        BY <1>1, <3>2
      <4>2. QED  BY <1>1, <4>1
    <3>3. QED  BY <3>1, <3>2
  <2>8. \A i \in 1..p, j \in (q + 2)..Len(b) : a[i] <= b[j]
    <3>1. \A j \in (q + 2)..Len(b) : j \in (q + 1)..Len(b)
      BY <1>1
    <3>2. QED  BY <1>1, <3>1
  <2> DEFINE new == [a |-> p, b |-> q + 1, grid |-> grid]
  <2>9. Geometry!Drawn(a, b, s) = new
    BY <1>3, <1>5
  <2>10. new.a = p /\ new.b = q + 1 /\ new.grid = grid
    OBVIOUS
  <2>11. /\ new \in [a : 0..Len(a), b : 0..Len(b), grid : Seq(Int)]
         /\ (q + 1) + 1 = q + 2 /\ p + (q + 1) = n
    <3>1. p \in 0..Len(a) /\ q + 1 \in 0..Len(b) /\ (q + 1) + 1 = q + 2 /\ p + (q + 1) = n
      BY <1>1, <2>1
    <3>2. grid \in Seq(Int)
      BY <2>4
    <3>3. QED  BY <3>1, <3>2
  <2> HIDE DEF new
  <2>12. new \in DrawnSoFar(a, b, n)
    BY <2>4, <2>6, <2>7, <2>8, <2>10, <2>11 DEF DrawnSoFar
  <2>13. QED  BY <2>9, <2>12
<1>6. QED  BY <1>4, <1>5

\* The merge of two ascending lists is one, of the values of both.
LEMMA MergedIs ==
  ASSUME NEW a \in Seq(Int), Ascends(a), NEW b \in Seq(Int), Ascends(b)
  PROVE  LET s == Geometry!Merged(a, b)
         IN  s \in Seq(Int) /\ Ascends(s) /\ Members(s) = Members(a) \cup Members(b)
<1> DEFINE n == Len(a) + Len(b)
           x == [a |-> 0, b |-> 0, grid |-> <<>>]
           T == [i \in 0..n |-> DrawnSoFar(a, b, i)]
           F == [i \in 1..n |-> [s \in T[i - 1] |-> Geometry!Drawn(a, b, s)]]
           Body(f) == [i \in 0..n |-> IF i = 0 THEN x ELSE Geometry!Drawn(a, b, f[i - 1])]
           after == CHOOSE f : f = Body(f)
<1>1. n \in Nat /\ Len(a) \in Nat /\ Len(b) \in Nat
  OBVIOUS
<1>2. x \in T[0]
  <2>1. <<>> \in Seq(Int) /\ Len(<<>>) = 0 /\ Ascends(<<>>)
    BY EmptySeq DEF Ascends
  <2>2. Members(<<>>) = {} /\ FirstOnes(a, 0) = {} /\ FirstOnes(b, 0) = {}
    BY <2>1 DEF Members, FirstOnes
  <2>3. x \in [a : 0..Len(a), b : 0..Len(b), grid : Seq(Int)] /\ x.a = 0 /\ x.b = 0 /\ x.grid = <<>>
    BY <1>1, <2>1
  <2> HIDE DEF x
  <2>4. x \in DrawnSoFar(a, b, 0)
    BY <2>1, <2>2, <2>3 DEF DrawnSoFar
  <2>5. QED  BY <1>1, <2>4
<1>3. ASSUME NEW i \in 1..n, NEW s \in T[i - 1]  PROVE Geometry!Drawn(a, b, s) \in T[i]
  <2>1. i \in 0..n /\ i - 1 \in 0..n
    BY <1>1
  <2>2. s \in DrawnSoFar(a, b, i - 1)
    BY <2>1
  <2>3. Geometry!Drawn(a, b, s) \in DrawnSoFar(a, b, i)
    BY <2>2, DrawKeeps
  <2>4. QED  BY <2>1, <2>3
<1>4. \E f : f = Body(f)
  <2>1. \A i \in 1..n : \A s \in T[i - 1] : F[i][s] \in T[i]
    BY <1>3
  <2>2. PICK f : IsLoop(f, n, x, F) /\ \A i \in 0..n : f[i] \in T[i]
    <3> HIDE DEF T, F, n, x
    <3>1. QED  BY <1>1, <1>2, <2>1, LoopExists
  <2>3. ASSUME NEW i \in 0..n
        PROVE  (IF i = 0 THEN x ELSE F[i][f[i - 1]]) = IF i = 0 THEN x ELSE Geometry!Drawn(a, b, f[i - 1])
    <3> SUFFICES ASSUME i # 0  PROVE F[i][f[i - 1]] = Geometry!Drawn(a, b, f[i - 1])
      OBVIOUS
    <3>1. i \in 1..n /\ i - 1 \in 0..n
      BY <1>1
    <3>2. f[i - 1] \in T[i - 1]
      BY <2>2, <3>1
    <3> HIDE DEF T
    <3>3. QED  BY <3>1, <3>2
  <2> HIDE DEF F, T
  <2>4. [i \in 0..n |-> IF i = 0 THEN x ELSE F[i][f[i - 1]]] = Body(f)
    BY <2>3
  <2>5. QED  BY <2>2, <2>4 DEF IsLoop
<1>5. after = Body(after)
  BY <1>4
<1>6. Geometry!Merged(a, b) = after[n].grid
  BY DEF Geometry!Merged
<1> HIDE DEF after
<1>7. after[0] = x
  BY <1>1, <1>5
<1>8. ASSUME NEW i \in 1..n, after[i - 1] \in T[i - 1]  PROVE after[i] \in T[i]
  <2>1. i \in 0..n /\ i # 0
    BY <1>1
  <2>2. after[i] = Geometry!Drawn(a, b, after[i - 1])
    BY <1>5, <2>1
  <2> HIDE DEF T
  <2>3. QED  BY <1>3, <1>8, <2>2
<1>9. \A i \in 0..n : after[i] \in T[i]
  <2> HIDE DEF T, n, x
  <2>1. QED  BY <1>1, <1>2, <1>7, <1>8, LoopKeeps
<1> DEFINE last == after[n]
<1>10. last \in DrawnSoFar(a, b, n)
  <2>1. n \in 0..n
    BY <1>1
  <2>2. T[n] = DrawnSoFar(a, b, n)
    BY <2>1
  <2>3. QED  BY <1>9, <2>1, <2>2
<1> HIDE DEF last
<1>11. /\ last.a \in 0..Len(a) /\ last.b \in 0..Len(b) /\ last.a + last.b = n
       /\ last.grid \in Seq(Int) /\ Ascends(last.grid)
       /\ Members(last.grid) = FirstOnes(a, last.a) \cup FirstOnes(b, last.b)
  BY <1>10 DEF DrawnSoFar
<1>12. last.a = Len(a) /\ last.b = Len(b)
  BY <1>1, <1>11
<1>13. QED  BY <1>6, <1>11, <1>12 DEF last, FirstOnes, Members

LEMMA OverlapIs ==
  ASSUME NEW m \in Model, NEW e \in Envelopes, Len(e) >= 1
  PROVE  \E lo, hi \in Int :
           /\ Geometry!Overlap(m, e) = lo..hi
           /\ e[1].at <= lo /\ hi <= e[Len(e)].at
           /\ Geometry!Min(RailNodes[m]) <= lo /\ hi <= Geometry!Max(RailNodes[m])
           /\ \A x \in lo..hi : Rail[m][x] \in Int
<1> DEFINE l == {e[1].at, Geometry!Min(RailNodes[m])}
           h == {e[Len(e)].at, Geometry!Max(RailNodes[m])}
<1>1. e[1].at \in Int /\ e[Len(e)].at \in Int
  <2>1. e[1] \in Sample /\ e[Len(e)] \in Sample
    BY DEF Envelopes
  <2>2. QED  BY <2>1 DEF Sample
<1>2. /\ Geometry!Min(RailNodes[m]) \in Int /\ Geometry!Max(RailNodes[m]) \in Int
      /\ \A x \in Geometry!Min(RailNodes[m])..Geometry!Max(RailNodes[m]) : Rail[m][x] \in Int
  <2>1. /\ IsFiniteSet(RailNodes[m]) /\ RailNodes[m] # {} /\ RailNodes[m] \subseteq Int
        /\ \A x \in Geometry!Min(RailNodes[m])..Geometry!Max(RailNodes[m]) : Rail[m][x] \in Int
    BY GeometryNumbers
  <2>2. Geometry!Min(RailNodes[m]) \in RailNodes[m] /\ Geometry!Max(RailNodes[m]) \in RailNodes[m]
    BY <2>1, Extremes
  <2>3. QED  BY <2>1, <2>2
<1>3. /\ IsFiniteSet(l) /\ l \subseteq Int /\ l # {}
      /\ IsFiniteSet(h) /\ h \subseteq Int /\ h # {}
  <2>1. ASSUME NEW x, NEW y  PROVE IsFiniteSet({x, y})
    <3>1. {x, y} = {x} \cup {y}
      OBVIOUS
    <3>2. IsFiniteSet({x})
      BY FS_Singleton
    <3>3. IsFiniteSet({x} \cup {y})
      BY <3>2, FS_AddElement
    <3>4. QED  BY <3>1, <3>3
  <2>2. QED  BY <1>1, <1>2, <2>1
<1>4. /\ Geometry!Max(l) \in l /\ \A y \in l : Geometry!Max(l) >= y
      /\ Geometry!Min(h) \in h /\ \A y \in h : Geometry!Min(h) <= y
  <2> HIDE DEF l, h
  <2>1. QED  BY <1>3, Extremes
<1> DEFINE lo == Geometry!Max(l)
           hi == Geometry!Min(h)
<1>5. Geometry!Overlap(m, e) = lo..hi
  BY DEF Geometry!Overlap
<1>6. /\ lo \in Int /\ hi \in Int /\ e[1].at <= lo /\ hi <= e[Len(e)].at
      /\ Geometry!Min(RailNodes[m]) <= lo /\ hi <= Geometry!Max(RailNodes[m])
  <2> HIDE DEF lo, hi
  <2>1. lo \in l /\ hi \in h /\ (\A y \in l : lo >= y) /\ \A y \in h : hi <= y
    BY <1>4 DEF lo, hi
  <2>2. lo \in Int /\ hi \in Int
    BY <1>1, <1>2, <2>1
  <2>3. e[1].at \in l /\ Geometry!Min(RailNodes[m]) \in l /\ e[Len(e)].at \in h /\ Geometry!Max(RailNodes[m]) \in h
    OBVIOUS
  <2> HIDE DEF l, h
  <2>4. QED  BY <1>1, <1>2, <2>1, <2>2, <2>3
<1> HIDE DEF lo, hi
<1>7. \A x \in lo..hi : x \in Geometry!Min(RailNodes[m])..Geometry!Max(RailNodes[m])
  BY <1>2, <1>6
<1>8. QED  BY <1>2, <1>5, <1>6, <1>7

\* The shared grid is of the nodes of both profiles in their overlap.
LEMMA GridIs ==
  ASSUME NEW m \in Model, NEW e \in Envelopes, Len(e) >= 1, Geometry!Overlap(m, e) # {}
  PROVE  LET nodes == ({e[k].at : k \in DOMAIN e} \cup RailNodes[m]) \cap Geometry!Overlap(m, e)
         IN  /\ Geometry!Grid(m, e) = Geometry!Ascending(nodes)
             /\ Geometry!Grid(m, e) \in Seq(Int) /\ Ascends(Geometry!Grid(m, e))
             /\ Members(Geometry!Grid(m, e)) = nodes
<1>1. PICK lo \in Int, hi \in Int : Geometry!Overlap(m, e) = lo..hi
  BY OverlapIs
<1>2. lo <= hi
  BY <1>1
<1> DEFINE A == {e[k].at : k \in DOMAIN e}
           B == RailNodes[m] \cap lo..hi
           a == Geometry!Stretch(e, lo..hi)
           b == Geometry!Ascending(B)
           s == Geometry!Merged(a, b)
<1>3. a \in Seq(Int) /\ Ascends(a) /\ Members(a) = A \cap lo..hi
  BY <1>2, StretchIs
<1>4. B \subseteq Int /\ IsFiniteSet(B)
  <2>1. IsFiniteSet(RailNodes[m]) /\ RailNodes[m] \subseteq Int
    BY GeometryNumbers
  <2>2. IsFiniteSet(B)
    BY <2>1, FS_Intersection
  <2>3. QED  BY <2>1, <2>2
<1>5. b \in Seq(Int) /\ Ascends(b) /\ Members(b) = B
  <2> HIDE DEF B
  <2>1. b \in Seq(B) /\ Ascends(b) /\ Members(b) = B
    BY <1>4, AscendingLists
  <2> HIDE DEF b
  <2>2. QED  BY <1>4, <2>1, SeqMonotonic
<1>6. Geometry!Grid(m, e) = s
  BY <1>1 DEF Geometry!Grid
<1> HIDE DEF A, B, a, b
<1>7. s \in Seq(Int) /\ Ascends(s) /\ Members(s) = Members(a) \cup Members(b)
  BY <1>3, <1>5, MergedIs
<1> HIDE DEF s
<1>8. s = Geometry!Ascending(Members(s))
  BY <1>7, AscendingIs
<1>9. Members(s) = (A \cup RailNodes[m]) \cap Geometry!Overlap(m, e)
  BY <1>1, <1>3, <1>5, <1>7 DEF B
<1>10. QED  BY <1>6, <1>7, <1>8, <1>9 DEF A
-----------------------------------------------------------------------------
(***************************************************************************)
(* The islands. The scan over the grid keeps the runs that have ended,     *)
(* from left to right, while there is room.                                *)
(***************************************************************************)
LEMMA GapIsNumber ==
  ASSUME NEW m \in Model, NEW e \in Envelopes, Len(e) >= 3, NEW x \in Geometry!Overlap(m, e)
  PROVE  Geometry!Gap(m, e, x) \in Int
<1> DEFINE n == Len(e)
           K == {k \in 1..(n - 1) : k = 1 \/ e[k].at <= x}
           i == Geometry!Max(K)
<1>1. /\ n \in Nat /\ \A k \in 1..n : e[k].at \in Int /\ e[k].height \in Int
      /\ \A j, k \in 1..n : j < k => e[j].at < e[k].at
  <2>1. e \in Seq(Sample) /\ \A j, k \in 1..n : j < k => e[j].at < e[k].at
    BY DEF Envelopes
  <2>2. n \in Nat /\ \A k \in 1..n : e[k] \in Sample
    BY <2>1
  <2>3. QED  BY <2>1, <2>2 DEF Sample
<1>2. x \in Int /\ Rail[m][x] \in Int
  <2>1. PICK lo \in Int, hi \in Int :
          Geometry!Overlap(m, e) = lo..hi /\ \A y \in lo..hi : Rail[m][y] \in Int
    BY <1>1, OverlapIs
  <2>2. QED  BY <2>1
<1>3. i \in 1..(n - 1)
  <2>1. K \in SUBSET (1..(n - 1)) /\ IsFiniteSet(1..(n - 1)) /\ 1..(n - 1) \subseteq Int
    BY <1>1, FS_Interval
  <2>2. 1 \in K
    BY <1>1
  <2> HIDE DEF K
  <2>3. K \subseteq Int /\ IsFiniteSet(K) /\ K # {}
    <3>1. IsFiniteSet(K)
      BY <2>1, FS_Subset
    <3>2. QED  BY <2>1, <2>2, <3>1
  <2>4. i \in K
    BY <2>3, Extremes
  <2>5. QED  BY <2>1, <2>4
<1>4. Geometry!WheelHeight(e, x)
        = e[i].height + ((e[i + 1].height - e[i].height) * (x - e[i].at)) \div (e[i + 1].at - e[i].at)
  BY DEF Geometry!WheelHeight
<1> HIDE DEF i
<1>5. i \in 1..n /\ i + 1 \in 1..n /\ i < i + 1
  BY <1>1, <1>3
<1>6. e[i + 1].at - e[i].at \in Nat \ {0}
  BY <1>1, <1>5
<1>7. (e[i + 1].height - e[i].height) * (x - e[i].at) \in Int
  BY <1>1, <1>2, <1>5
<1>8. ((e[i + 1].height - e[i].height) * (x - e[i].at)) \div (e[i + 1].at - e[i].at) \in Int
  BY <1>6, <1>7, Quotient
<1>9. Geometry!WheelHeight(e, x) \in Int
  <2> DEFINE rise == ((e[i + 1].height - e[i].height) * (x - e[i].at)) \div (e[i + 1].at - e[i].at)
  <2>1. e[i].height \in Int
    BY <1>1, <1>5
  <2>2. rise \in Int /\ Geometry!WheelHeight(e, x) = e[i].height + rise
    BY <1>4, <1>8
  <2> HIDE DEF rise
  <2>3. QED  BY <2>1, <2>2
<1>10. QED  BY <1>2, <1>9 DEF Geometry!Gap
-----------------------------------------------------------------------------
Start == [run \in Nat \X Nat |-> run[1]]

Touching(gap, i) == gap[i] > Epsilon

\* The runs that have come to their end before the i-th grid point.
Ended(gap, i) == {run \in Geometry!TrueRuns(gap) : run[2] < i}

LEMMA RunsAre ==
  ASSUME NEW gap \in Seq(Int), NEW run \in Geometry!TrueRuns(gap)
  PROVE  /\ run \in Nat \X Nat /\ run = <<run[1], run[2]>> /\ Start[run] = run[1]
         /\ run[1] \in 1..Len(gap) /\ run[2] \in 1..Len(gap) /\ run[1] <= run[2]
         /\ \A k \in run[1]..run[2] : Touching(gap, k)
         /\ run[1] > 1 => ~ Touching(gap, run[1] - 1)
         /\ run[2] < Len(gap) => ~ Touching(gap, run[2] + 1)
<1>1. Len(gap) \in Nat /\ DOMAIN gap = 1..Len(gap) /\ \A k \in 1..Len(gap) : gap[k] \in Int
  OBVIOUS
<1>2. run \in (1..Len(gap)) \X (1..Len(gap)) /\ Epsilon \in Nat
  BY <1>1, GeometryNumbers DEF Geometry!TrueRuns
<1>3. /\ run \in Nat \X Nat /\ run = <<run[1], run[2]>> /\ Start[run] = run[1]
      /\ run[1] \in 1..Len(gap) /\ run[2] \in 1..Len(gap)
  <2>1. run \in Nat \X Nat
    BY <1>1, <1>2
  <2>2. QED  BY <1>2, <2>1 DEF Start
<1>4. /\ run[1] <= run[2] /\ \A k \in run[1]..run[2] : Touching(gap, k)
      /\ run[1] > 1 => gap[run[1] - 1] <= Epsilon
      /\ run[2] < Len(gap) => gap[run[2] + 1] <= Epsilon
  BY DEF Geometry!TrueRuns, Touching
<1>5. /\ run[1] > 1 => run[1] - 1 \in 1..Len(gap)
      /\ run[2] < Len(gap) => run[2] + 1 \in 1..Len(gap)
  BY <1>1, <1>3
<1>6. QED  BY <1>1, <1>2, <1>3, <1>4, <1>5 DEF Touching

\* Points in contact from start on, with none right before it.
Begun(gap, start, i) ==
  /\ start \in 1..i /\ \A k \in start..i : Touching(gap, k)
  /\ start > 1 => ~ Touching(gap, start - 1)

\* A run that ends is the next by its start.
LEMMA RunEnds ==
  ASSUME NEW gap \in Seq(Int), NEW i \in 1..(Len(gap) + 1), i <= Len(gap) => ~ Touching(gap, i),
         NEW start, Begun(gap, start, i - 1)
  PROVE  /\ <<start, i - 1>> \in Nat \X Nat
         /\ Ended(gap, i) = Ended(gap, i - 1) \cup {<<start, i - 1>>}
         /\ \A run \in Ended(gap, i - 1) : Start[run] < Start[<<start, i - 1>>]
<1> DEFINE n == Len(gap)
           last == <<start, i - 1>>
<1>1. /\ n \in Nat /\ DOMAIN gap = 1..n /\ i \in Nat /\ start \in 1..(i - 1)
      /\ \A k \in start..(i - 1) : Touching(gap, k) 
      /\ start > 1 => ~ Touching(gap, start - 1)
  BY DEF Begun
<1>2. /\ i - 1 \in 1..n /\ start \in 1..n /\ start <= i - 1
      /\ \A k \in 1..n : gap[k] \in Int
  BY <1>1
<1>3. Epsilon \in Nat
  BY GeometryNumbers
<1>4. last \in Geometry!TrueRuns(gap)
  <2>1. last \in (DOMAIN gap) \X (DOMAIN gap) /\ last[1] = start /\ last[2] = i - 1
    BY <1>1, <1>2
  <2>2. start > 1 => gap[start - 1] <= Epsilon
    <3>1. start > 1 => start - 1 \in 1..n
      BY <1>1, <1>2
    <3>2. QED  BY <1>1, <1>2, <1>3, <3>1 DEF Touching
  <2>3. i - 1 < n => gap[(i - 1) + 1] <= Epsilon
    <3>1. SUFFICES ASSUME i - 1 < n  PROVE gap[i] <= Epsilon
      BY <1>1
    <3>2. i \in 1..n /\ ~ Touching(gap, i)
      BY <1>1, <3>1
    <3>3. QED  BY <1>2, <1>3, <3>2 DEF Touching
  <2> HIDE DEF last
  <2>4. QED  BY <1>1, <1>2, <2>1, <2>2, <2>3 DEF Geometry!TrueRuns, Touching
<1>5. last \in Nat \X Nat /\ Start[last] = start /\ last[2] = i - 1
  BY <1>1 DEF Start
<1>6. ASSUME NEW run \in Geometry!TrueRuns(gap), run[2] = i - 1  PROVE run = last
  <2>1. /\ run = <<run[1], run[2]>> /\ run[1] \in 1..n /\ run[1] <= i - 1
        /\ \A k \in run[1]..(i - 1) : Touching(gap, k)
        /\ run[1] > 1 => ~ Touching(gap, run[1] - 1)
    BY <1>6, RunsAre
  <2>2. ~ (run[1] < start)
    <3>1. SUFFICES ASSUME run[1] < start  PROVE FALSE
      OBVIOUS
    <3>2. start > 1 /\ start - 1 \in run[1]..(i - 1)
      BY <1>1, <2>1, <3>1
    <3>3. QED  BY <1>1, <2>1, <3>2
  <2>3. ~ (start < run[1])
    <3>1. SUFFICES ASSUME start < run[1]  PROVE FALSE
      OBVIOUS
    <3>2. run[1] > 1 /\ run[1] - 1 \in start..(i - 1)
      BY <1>1, <2>1, <3>1
    <3>3. QED  BY <1>1, <2>1, <3>2
  <2>4. run[1] = start
    BY <1>1, <2>1, <2>2, <2>3
  <2>5. QED  BY <1>6, <2>1, <2>4
<1>7. Ended(gap, i) = Ended(gap, i - 1) \cup {last}
  <2>1. \A run \in Geometry!TrueRuns(gap) : run[2] < i <=> run[2] < i - 1 \/ run[2] = i - 1
    <3>1. SUFFICES ASSUME NEW run \in Geometry!TrueRuns(gap)
                   PROVE  run[2] < i <=> run[2] < i - 1 \/ run[2] = i - 1
      OBVIOUS
    <3>2. run[2] \in 1..n
      BY RunsAre
    <3>3. run[2] \in Int /\ i \in Int
      BY <1>1, <3>2
    <3>4. QED  BY <3>3
  <2>2. last[2] < i
    BY <1>1, <1>5
  <2> HIDE DEF last
  <2>3. QED  BY <1>4, <1>6, <2>1, <2>2 DEF Ended
<1>8. ASSUME NEW run \in Ended(gap, i - 1)  PROVE Start[run] < start
  <2>1. run \in Geometry!TrueRuns(gap) /\ run[2] < i - 1
    BY DEF Ended
  <2>2. /\ Start[run] = run[1] /\ run[1] \in 1..n /\ run[2] \in 1..n /\ run[1] <= run[2]
        /\ run[2] < n => ~ Touching(gap, run[2] + 1)
    BY <2>1, RunsAre
  <2> DEFINE first == run[1]
             final == run[2]
  <2>3. /\ first \in Int /\ final \in Int /\ first <= final /\ final < i - 1
        /\ start \in Int /\ i \in Int /\ n \in Int /\ i - 1 <= n
    BY <1>1, <1>2, <2>1, <2>2
  <2>4. final < n => ~ Touching(gap, final + 1)
    BY <2>2
  <2>5. Start[run] = first
    BY <2>2
  <2> HIDE DEF first, final, n
  <2>6. ~ Touching(gap, final + 1)
    BY <2>3, <2>4
  <2>7. ~ (final + 1 >= start)
    <3>1. SUFFICES ASSUME final + 1 >= start  PROVE FALSE
      OBVIOUS
    <3>2. final + 1 \in start..(i - 1)
      BY <2>3, <3>1
    <3>3. QED  BY <1>1, <2>6, <3>2
  <2>8. first < start
    BY <2>3, <2>7
  <2>9. QED  BY <2>5, <2>8
<1>9. QED  BY <1>5, <1>7, <1>8

LEMMA NoRunEnds ==
  ASSUME NEW gap \in Seq(Int), NEW i \in 1..Len(gap),
         Touching(gap, i) \/ i = 1 \/ ~ Touching(gap, i - 1)
  PROVE  Ended(gap, i) = Ended(gap, i - 1)
<1>1. Len(gap) \in Nat /\ i \in Nat /\ i <= Len(gap)
  OBVIOUS
<1>2. ASSUME NEW run \in Geometry!TrueRuns(gap)  PROVE run[2] < i <=> run[2] < i - 1
  <2>1. /\ run[1] \in 1..Len(gap) /\ run[2] \in 1..Len(gap) /\ run[1] <= run[2]
        /\ \A k \in run[1]..run[2] : Touching(gap, k)
        /\ run[2] < Len(gap) => ~ Touching(gap, run[2] + 1)
    BY RunsAre
  <2>2. run[2] # i - 1
    <3>1. SUFFICES ASSUME run[2] = i - 1  PROVE FALSE
      OBVIOUS
    <3>2. i # 1 /\ i - 1 \in run[1]..run[2] /\ run[2] < Len(gap) /\ run[2] + 1 = i
      BY <1>1, <2>1, <3>1
    <3>3. QED  BY <2>1, <3>2
  <2>3. QED  BY <1>1, <2>1, <2>2
<1>3. QED  BY <1>2 DEF Ended

\* The runs kept of those ended, and the one that is open.
ScannedTo(gap, i) ==
  {s \in [list : Seq(Nat \X Nat), start : 0..i] :
     /\ Kept(s.list, Ended(gap, i), MaxIslands, Start)
     /\ s.start = 0 => i = 0 \/ ~ Touching(gap, i)
     /\ s.start # 0 => Begun(gap, s.start, i)}

LEMMA EndedAreRuns ==
  ASSUME NEW gap \in Seq(Int), NEW i
  PROVE  Ended(gap, i) \subseteq Nat \X Nat /\ Ended(gap, i) \subseteq Geometry!TrueRuns(gap)
BY RunsAre DEF Ended

\* A run that ends is kept while there is room.
LEMMA RunIsKept ==
  ASSUME NEW gap \in Seq(Int), NEW i \in 1..(Len(gap) + 1), i <= Len(gap) => ~ Touching(gap, i),
         NEW s \in ScannedTo(gap, i - 1), s.start # 0
  PROVE  LET list == Geometry!Closed(s.list, s.start, i - 1)
         IN  list \in Seq(Nat \X Nat) /\ Kept(list, Ended(gap, i), MaxIslands, Start)
<1> DEFINE last == <<s.start, i - 1>>
           list == Geometry!Closed(s.list, s.start, i - 1)
<1>1. /\ s.list \in Seq(Nat \X Nat) /\ Kept(s.list, Ended(gap, i - 1), MaxIslands, Start)
      /\ Begun(gap, s.start, i - 1)
  BY DEF ScannedTo
<1>2. /\ last \in Nat \X Nat /\ Ended(gap, i) = Ended(gap, i - 1) \cup {last}
      /\ \A run \in Ended(gap, i - 1) : Start[run] < Start[last]
  BY <1>1, RunEnds
<1>3. MaxIslands \in Nat /\ Start \in [Nat \X Nat -> Int] /\ Ended(gap, i - 1) \subseteq Nat \X Nat
  BY GeometryNumbers, EndedAreRuns DEF Start
<1>4. list = IF Len(s.list) < MaxIslands THEN Append(s.list, last) ELSE s.list
  BY DEF Geometry!Closed
<1> HIDE DEF last, list
<1>5. Kept(list, Ended(gap, i), MaxIslands, Start)
  <2> DEFINE S == Ended(gap, i - 1)
  <2>1. /\ S \subseteq Nat \X Nat /\ Kept(s.list, S, MaxIslands, Start) /\ last \in Nat \X Nat
        /\ \A y \in S : Start[y] < Start[last]
    BY <1>1, <1>2, <1>3
  <2> HIDE DEF S
  <2>2. Kept(IF Len(s.list) < MaxIslands THEN Append(s.list, last) ELSE s.list,
             S \cup {last}, MaxIslands, Start)
    BY <1>3, <2>1, KeptMore
  <2>3. QED  BY <1>2, <1>4, <2>2 DEF S
<1>6. list \in Seq(Nat \X Nat)
  BY <1>1, <1>2, <1>4
<1>7. QED  BY <1>5, <1>6 DEF list

LEMMA ScanKeeps ==
  ASSUME NEW gap \in Seq(Int), NEW i \in 1..Len(gap), NEW s \in ScannedTo(gap, i - 1)
  PROVE  Geometry!Scanned(gap, s, i) \in ScannedTo(gap, i)
<1> DEFINE new == Geometry!Scanned(gap, s, i)
<1>1. /\ Len(gap) \in Nat /\ i \in Nat /\ i # 0 /\ i <= Len(gap) /\ i \in 1..(Len(gap) + 1)
  OBVIOUS
<1>2. /\ s = [list |-> s.list, start |-> s.start]
      /\ s.list \in Seq(Nat \X Nat) /\ s.start \in 0..(i - 1)
      /\ Kept(s.list, Ended(gap, i - 1), MaxIslands, Start)
      /\ s.start = 0 => i - 1 = 0 \/ ~ Touching(gap, i - 1)
      /\ s.start # 0 => Begun(gap, s.start, i - 1)
  BY DEF ScannedTo
<1>3. CASE Touching(gap, i)
  <2> DEFINE start == IF s.start = 0 THEN i ELSE s.start
  <2>1. new = [list |-> s.list, start |-> start]
    <3>1. new = [s EXCEPT !.start = start]
      BY <1>3 DEF Geometry!Scanned, Touching
    <3>2. QED  BY <1>2, <3>1
  <2>2. Ended(gap, i) = Ended(gap, i - 1)
    BY <1>3, NoRunEnds
  <2>3. start \in 0..i /\ start # 0 /\ Begun(gap, start, i)
    <3>1. CASE s.start = 0
      BY <1>1, <1>2, <1>3, <3>1 DEF Begun
    <3>2. CASE s.start # 0
      <4>1. \A k \in s.start..i : k = i \/ k \in s.start..(i - 1)
        BY <1>1, <1>2
      <4>2. QED  BY <1>1, <1>2, <1>3, <3>2, <4>1 DEF Begun
    <3>3. QED  BY <3>1, <3>2
  <2> HIDE DEF start, new
  <2>4. new \in [list : Seq(Nat \X Nat), start : 0..i] /\ new.list = s.list /\ new.start = start
    BY <1>2, <2>1, <2>3
  <2>5. new \in ScannedTo(gap, i)
    BY <1>2, <2>2, <2>3, <2>4 DEF ScannedTo
  <2>6. QED  BY <2>5 DEF new
<1>4. CASE ~ Touching(gap, i) /\ s.start = 0
  <2>1. new = s
    BY <1>4 DEF Geometry!Scanned, Touching
  <2>2. Ended(gap, i) = Ended(gap, i - 1)
    <3>1. i = 1 \/ ~ Touching(gap, i - 1)
      BY <1>1, <1>2, <1>4
    <3>2. QED  BY <3>1, NoRunEnds
  <2>3. s \in [list : Seq(Nat \X Nat), start : 0..i]
    <3>1. s.start \in 0..i
      BY <1>1, <1>4
    <3>2. QED  BY <1>2, <3>1
  <2>4. s \in ScannedTo(gap, i)
    BY <1>2, <1>4, <2>2, <2>3 DEF ScannedTo
  <2>5. QED  BY <2>1, <2>4
<1>5. CASE ~ Touching(gap, i) /\ s.start # 0
  <2> DEFINE list == Geometry!Closed(s.list, s.start, i - 1)
  <2>1. new = [list |-> list, start |-> 0]
    BY <1>5 DEF Geometry!Scanned, Touching
  <2>2. list \in Seq(Nat \X Nat) /\ Kept(list, Ended(gap, i), MaxIslands, Start)
    BY <1>1, <1>5, RunIsKept
  <2> HIDE DEF list, new
  <2>3. new \in [list : Seq(Nat \X Nat), start : 0..i] /\ new.list = list /\ new.start = 0
    BY <1>1, <2>1, <2>2
  <2>4. new \in ScannedTo(gap, i)
    BY <1>5, <2>2, <2>3 DEF ScannedTo
  <2>5. QED  BY <2>4 DEF new
<1>6. QED  BY <1>3, <1>4, <1>5

\* The islands are the first runs, from left to right.
LEMMA IslandsAre ==
  ASSUME NEW gap \in Seq(Int)
  PROVE  LET list == Geometry!Islands(gap)
         IN  list \in Seq(Nat \X Nat) /\ Kept(list, Geometry!TrueRuns(gap), MaxIslands, Start)
<1> DEFINE n == Len(gap)
           x == [list |-> <<>>, start |-> 0]
           T == [i \in 0..n |-> ScannedTo(gap, i)]
           F == [i \in 1..n |-> [s \in T[i - 1] |-> Geometry!Scanned(gap, s, i)]]
           Body(f) == [i \in 0..n |-> IF i = 0 THEN x ELSE Geometry!Scanned(gap, f[i - 1], i)]
           after == CHOOSE f : f = Body(f)
<1>1. n \in Nat
  OBVIOUS
<1>2. x \in T[0]
  <2>1. <<>> \in Seq(Nat \X Nat) /\ Len(<<>>) = 0
    BY EmptySeq
  <2>2. Ended(gap, 0) = {}
    <3>1. \A run \in Geometry!TrueRuns(gap) : ~ (run[2] < 0)
      <4>1. SUFFICES ASSUME NEW run \in Geometry!TrueRuns(gap)  PROVE ~ (run[2] < 0)
        OBVIOUS
      <4>2. run[2] \in 1..n
        BY RunsAre
      <4>3. QED  BY <1>1, <4>2
    <3>2. QED  BY <3>1 DEF Ended
  <2>3. Kept(<<>>, Ended(gap, 0), MaxIslands, Start)
    <3>1. <<>> \in Seq({}) /\ MaxIslands \in Nat
      BY GeometryNumbers, EmptySeq
    <3>2. QED  BY <2>1, <2>2, <3>1 DEF Kept
  <2>4. x \in [list : Seq(Nat \X Nat), start : 0..0] /\ x.list = <<>> /\ x.start = 0
    BY <2>1
  <2> HIDE DEF x
  <2>5. x \in ScannedTo(gap, 0)
    BY <2>3, <2>4 DEF ScannedTo
  <2>6. QED  BY <1>1, <2>5
<1>3. ASSUME NEW i \in 1..n, NEW s \in T[i - 1]  PROVE Geometry!Scanned(gap, s, i) \in T[i]
  <2>1. i \in 0..n /\ i - 1 \in 0..n
    BY <1>1
  <2>2. s \in ScannedTo(gap, i - 1)
    BY <2>1
  <2>3. Geometry!Scanned(gap, s, i) \in ScannedTo(gap, i)
    BY <2>2, ScanKeeps
  <2>4. QED  BY <2>1, <2>3
<1>4. \E f : f = Body(f)
  <2>1. \A i \in 1..n : \A s \in T[i - 1] : F[i][s] \in T[i]
    BY <1>3
  <2>2. PICK f : IsLoop(f, n, x, F) /\ \A i \in 0..n : f[i] \in T[i]
    <3> HIDE DEF T, F, n, x
    <3>1. QED  BY <1>1, <1>2, <2>1, LoopExists
  <2>3. ASSUME NEW i \in 0..n
        PROVE  (IF i = 0 THEN x ELSE F[i][f[i - 1]]) = IF i = 0 THEN x ELSE Geometry!Scanned(gap, f[i - 1], i)
    <3> SUFFICES ASSUME i # 0  PROVE F[i][f[i - 1]] = Geometry!Scanned(gap, f[i - 1], i)
      OBVIOUS
    <3>1. i \in 1..n /\ i - 1 \in 0..n
      BY <1>1
    <3>2. f[i - 1] \in T[i - 1]
      BY <2>2, <3>1
    <3> HIDE DEF T
    <3>3. QED  BY <3>1, <3>2
  <2> HIDE DEF F, T
  <2>4. [i \in 0..n |-> IF i = 0 THEN x ELSE F[i][f[i - 1]]] = Body(f)
    BY <2>3
  <2>5. QED  BY <2>2, <2>4 DEF IsLoop
<1>5. after = Body(after)
  BY <1>4
<1> DEFINE end == after[n]
<1>6. Geometry!Islands(gap)
        = IF end.start = 0 THEN end.list ELSE Geometry!Closed(end.list, end.start, n)
  BY DEF Geometry!Islands
<1> HIDE DEF after
<1>7. after[0] = x
  BY <1>1, <1>5
<1>8. ASSUME NEW i \in 1..n, after[i - 1] \in T[i - 1]  PROVE after[i] \in T[i]
  <2>1. i \in 0..n /\ i # 0
    BY <1>1
  <2>2. after[i] = Geometry!Scanned(gap, after[i - 1], i)
    BY <1>5, <2>1
  <2> HIDE DEF T
  <2>3. QED  BY <1>3, <1>8, <2>2
<1>9. \A i \in 0..n : after[i] \in T[i]
  <2> HIDE DEF T, n, x
  <2>1. QED  BY <1>1, <1>2, <1>7, <1>8, LoopKeeps
<1>10. end \in ScannedTo(gap, n)
  <2>1. n \in 0..n
    BY <1>1
  <2>2. T[n] = ScannedTo(gap, n)
    BY <2>1
  <2>3. QED  BY <1>9, <2>1, <2>2
<1> HIDE DEF end
<1>11. Ended(gap, n + 1) = Geometry!TrueRuns(gap)
  <2>1. ASSUME NEW run \in Geometry!TrueRuns(gap)  PROVE run[2] < n + 1
    <3>1. run[2] \in 1..n
      BY RunsAre
    <3>2. QED  BY <1>1, <3>1
  <2>2. QED  BY <2>1 DEF Ended
<1>12. CASE end.start # 0
  <2> DEFINE list == Geometry!Closed(end.list, end.start, n)
  <2>1. n + 1 \in 1..(n + 1) /\ ~ (n + 1 <= n) /\ (n + 1) - 1 = n
    BY <1>1
  <2>2. list \in Seq(Nat \X Nat) /\ Kept(list, Ended(gap, n + 1), MaxIslands, Start)
    <3> DEFINE j == n + 1
    <3>1. j \in 1..(Len(gap) + 1) /\ (j <= Len(gap) => ~ Touching(gap, j)) /\ j - 1 = n
      BY <2>1
    <3> HIDE DEF j, n
    <3>2. end \in ScannedTo(gap, j - 1)
      BY <1>10, <3>1
    <3>3. LET l == Geometry!Closed(end.list, end.start, j - 1)
          IN  l \in Seq(Nat \X Nat) /\ Kept(l, Ended(gap, j), MaxIslands, Start)
      BY <1>12, <3>1, <3>2, RunIsKept
    <3>4. QED  BY <3>1, <3>3 DEF j
  <2> HIDE DEF list, n
  <2>3. Geometry!Islands(gap) = list
    BY <1>6, <1>12 DEF list
  <2>4. QED  BY <1>11, <2>2, <2>3
<1>13. CASE end.start = 0
  <2>1. end.list \in Seq(Nat \X Nat) /\ Kept(end.list, Ended(gap, n), MaxIslands, Start)
    BY <1>10 DEF ScannedTo
  <2>2. n = 0 \/ ~ Touching(gap, n)
    BY <1>10, <1>13 DEF ScannedTo
  <2>3. Ended(gap, n) = Geometry!TrueRuns(gap)
    <3>1. ASSUME NEW run \in Geometry!TrueRuns(gap)  PROVE run[2] < n
      <4>1. run[2] \in 1..n /\ run[1] <= run[2] /\ run[1] \in 1..n /\ \A k \in run[1]..run[2] : Touching(gap, k)
        BY RunsAre
      <4>2. run[2] # n
        <5>1. run[2] \in run[1]..run[2]
          BY <1>1, <4>1
        <5>2. QED  BY <1>1, <2>2, <4>1, <5>1
      <4>3. QED  BY <1>1, <4>1, <4>2
    <3>2. QED  BY <3>1 DEF Ended
  <2>4. Geometry!Islands(gap) = end.list
    BY <1>6, <1>13
  <2>5. QED  BY <2>1, <2>3, <2>4
<1>14. QED  BY <1>12, <1>13

\* One list, whether scanned or taken as the first of the runs.
LEMMA FirstRuns ==
  ASSUME NEW gap \in Seq(Int)
  PROVE  LET list == Geometry!Islands(gap)
             runs == Geometry!FirstOf(Geometry!TrueRuns(gap), MaxIslands)
         IN  /\ list \in Seq(Nat \X Nat) /\ Members(list) = runs
             /\ Geometry!Cardinality(runs) = Len(list)
             /\ \A i \in 1..Len(list) : list[i] \in Geometry!TrueRuns(gap)
             /\ \A i, j \in 1..Len(list) : i < j => list[i][1] < list[j][1]
<1> DEFINE list == Geometry!Islands(gap)
           R == Geometry!TrueRuns(gap)
           runs == Geometry!FirstOf(R, MaxIslands)
<1>1. list \in Seq(Nat \X Nat) /\ Kept(list, R, MaxIslands, Start)
  BY IslandsAre
<1>2. IsFiniteSet(R)
  <2>1. Len(gap) \in Nat /\ DOMAIN gap = 1..Len(gap)
    OBVIOUS
  <2>2. IsFiniteSet((DOMAIN gap) \X (DOMAIN gap))
    <3>1. IsFiniteSet(1..Len(gap))
      BY <2>1, FS_Interval
    <3>2. QED  BY <2>1, <3>1, FS_Product
  <2>3. R \in SUBSET ((DOMAIN gap) \X (DOMAIN gap))
    BY DEF Geometry!TrueRuns
  <2> HIDE DEF R
  <2>4. QED  BY <2>2, <2>3, FS_Subset
<1>3. \A run \in R : Start[run] = run[1] /\ Start[run] \in Int
  <2>1. SUFFICES ASSUME NEW run \in R  PROVE Start[run] = run[1] /\ Start[run] \in Int
    OBVIOUS
  <2>2. Start[run] = run[1] /\ run[1] \in 1..Len(gap)
    BY RunsAre
  <2>3. QED  BY <2>2
<1> HIDE DEF R, list
<1>4. MaxIslands \in Nat
  BY GeometryNumbers
<1>5. /\ Cardinality(Members(list)) = Len(list) /\ Members(list) \subseteq R
      /\ \A k \in 1..Len(list) : Cardinality({y \in R : Start[y] <= Start[list[k]]}) = k
      /\ \A x \in R \ Members(list) : Cardinality({y \in R : Start[y] <= Start[x]}) > MaxIslands
  <2>1. \A x \in R : Start[x] \in Int
    BY <1>3
  <2>2. Kept(list, R, MaxIslands, Start)
    BY <1>1
  <2>3. /\ Cardinality(Members(list)) = Len(list) /\ Members(list) \subseteq R
        /\ \A k \in 1..Len(list) : Cardinality({y \in R : Start[y] <= Start[list[k]]}) = k
        /\ \A x \in R \ Members(list) : /\ Cardinality({y \in R : Start[y] <= Start[x]}) > MaxIslands
                                        /\ Len(list) = MaxIslands
    BY <1>2, <1>4, <2>1, <2>2, KeptCounts
  <2>4. QED  BY <2>3
<1>6. \A x \in R : {q \in R : q[1] <= x[1]} = {y \in R : Start[y] <= Start[x]}
  BY <1>3
<1>7. runs = {x \in R : Cardinality({y \in R : Start[y] <= Start[x]}) <= MaxIslands}
  <2>1. \A S : Geometry!Cardinality(S) = Cardinality(S)
    BY CountsAlike
  <2>2. \A x \in R : Geometry!Cardinality({q \in R : q[1] <= x[1]})
                       = Cardinality({y \in R : Start[y] <= Start[x]})
    BY <1>6, <2>1
  <2>3. runs = {x \in R : Geometry!Cardinality({q \in R : q[1] <= x[1]}) <= MaxIslands}
    BY DEF Geometry!FirstOf
  <2>4. QED  BY <2>2, <2>3
<1>8. Len(list) \in Nat /\ Len(list) <= MaxIslands /\ \A i \in 1..Len(list) : list[i] \in R
  BY <1>1 DEF Kept
<1>9. Members(list) = runs
  <2>1. \A k \in 1..Len(list) : list[k] \in runs
    BY <1>4, <1>5, <1>7, <1>8
  <2>2. \A x \in R \ Members(list) : x \notin runs
    <3>1. SUFFICES ASSUME NEW x \in R \ Members(list)  PROVE x \notin runs
      OBVIOUS
    <3>2. IsFiniteSet({y \in R : Start[y] <= Start[x]})
      BY <1>2, FS_Subset
    <3>3. Cardinality({y \in R : Start[y] <= Start[x]}) \in Nat
      BY <3>2, FS_CardinalityType
    <3>4. QED  BY <1>4, <1>5, <1>7, <3>3
  <2>3. runs \subseteq R
    BY <1>7
  <2>4. QED  BY <2>1, <2>2, <2>3 DEF Members
<1>10. Geometry!Cardinality(runs) = Len(list)
  BY <1>5, <1>9, CountsAlike
<1>11. \A i, j \in 1..Len(list) : i < j => list[i][1] < list[j][1]
  <2>1. \A i, j \in 1..Len(list) : i < j => Start[list[i]] < Start[list[j]]
    BY <1>1 DEF Kept
  <2>2. QED  BY <1>3, <1>8, <2>1
<1>12. QED  BY <1>1, <1>8, <1>9, <1>10, <1>11 DEF list, R
-----------------------------------------------------------------------------
(***************************************************************************)
(* What is joined. An island joins the last one or begins another; in the  *)
(* end two runs are in one island just when no deep valley is anywhere     *)
(* between them.                                                           *)
(***************************************************************************)
LEMMA OfTwo ==
  ASSUME NEW x \in Int, NEW y \in Int
  PROVE  /\ Geometry!Min({x, y}) = IF x <= y THEN x ELSE y
         /\ Geometry!Max({x, y}) = IF x <= y THEN y ELSE x
<1> DEFINE least == IF x <= y THEN x ELSE y
           most == IF x <= y THEN y ELSE x
           S == {x, y}
<1>1. least \in S /\ most \in S /\ \A z \in S : least <= z /\ z <= most
  OBVIOUS
<1>2. \A w \in S : (\A z \in S : w <= z) => w = least
  OBVIOUS
<1>3. \A w \in S : (\A z \in S : w >= z) => w = most
  OBVIOUS
<1>4. Geometry!Min(S) = least
  BY <1>1, <1>2 DEF Geometry!Min
<1>5. Geometry!Max(S) = most
  BY <1>1, <1>3 DEF Geometry!Max
<1>6. QED  BY <1>4, <1>5

\* What one number is below and in a set is its least member.
LEMMA LeastIs ==
  ASSUME NEW S, S \subseteq Int, NEW x \in S
  PROVE  /\ (\A y \in S : x <= y) => Geometry!Min(S) = x
         /\ (\A y \in S : y <= x) => Geometry!Max(S) = x
<1>1. ASSUME \A y \in S : x <= y  PROVE Geometry!Min(S) = x
  <2>1. \A w \in S : (\A z \in S : w <= z) => w = x
    BY <1>1
  <2>2. QED  BY <1>1, <2>1 DEF Geometry!Min
<1>2. ASSUME \A y \in S : y <= x  PROVE Geometry!Max(S) = x
  <2>1. \A w \in S : (\A z \in S : w >= z) => w = x
    BY <1>2
  <2>2. \A z \in S : x >= z
    BY <1>2
  <2>3. QED  BY <2>1, <2>2 DEF Geometry!Max
<1>3. QED  BY <1>1, <1>2

\* No valley from a to b is deep.
NoValley(gap, a, b) == \A k \in a..b : gap[k] > -MergeTolerance

LEMMA ValleyIsLeast ==
  ASSUME NEW gap \in Seq(Int), NEW a \in 1..Len(gap), NEW b \in 1..Len(gap), a <= b
  PROVE  Geometry!Min({gap[k] : k \in a..b}) > -MergeTolerance <=> NoValley(gap, a, b)
<1> DEFINE S == {gap[k] : k \in a..b}
           f == [k \in a..b |-> gap[k]]
<1>1. Len(gap) \in Nat /\ (\A k \in a..b : gap[k] \in Int) /\ a \in a..b
  OBVIOUS
<1>2. S \subseteq Int /\ S # {}
  BY <1>1
<1>3. IsFiniteSet(S)
  <2>1. IsFiniteSet(a..b)
    BY FS_Interval
  <2>2. f \in Surjection(a..b, S)
    BY DEF Surjection
  <2> HIDE DEF S, f
  <2>3. QED  BY <2>1, <2>2, FS_Surjection
<1>4. Geometry!Min(S) \in S /\ \A y \in S : Geometry!Min(S) <= y
  <2> HIDE DEF S
  <2>1. QED  BY <1>2, <1>3, Extremes
<1>5. MergeTolerance \in Nat
  BY GeometryNumbers
<1> DEFINE least == Geometry!Min(S)
<1>6. PICK k \in a..b : least = gap[k]
  BY <1>4
<1>7. \A j \in a..b : least <= gap[j]
  BY <1>4
<1> HIDE DEF S, f, least
<1>8. least \in Int
  BY <1>1, <1>6
<1>9. least > -MergeTolerance <=> NoValley(gap, a, b)
  BY <1>1, <1>5, <1>6, <1>7, <1>8 DEF NoValley
<1>10. QED  BY <1>9 DEF least, S

\* Runs are apart.
LEMMA RunsApart ==
  ASSUME NEW gap \in Seq(Int), NEW q \in Geometry!TrueRuns(gap), NEW r \in Geometry!TrueRuns(gap),
         q[1] < r[1]
  PROVE  q[2] + 1 < r[1]
<1>1. /\ q[1] \in Nat /\ q[2] \in Nat /\ \A k \in q[1]..q[2] : Touching(gap, k)
      /\ r[1] \in Nat /\ q[1] >= 1
      /\ r[1] > 1 => ~ Touching(gap, r[1] - 1)
  <2>1. q[1] \in 1..Len(gap) /\ q[2] \in 1..Len(gap) /\ r[1] \in 1..Len(gap)
    BY RunsAre
  <2>2. q[1] \in Nat /\ q[2] \in Nat /\ r[1] \in Nat /\ q[1] >= 1
    BY <2>1
  <2>3. (\A k \in q[1]..q[2] : Touching(gap, k)) /\ (r[1] > 1 => ~ Touching(gap, r[1] - 1))
    BY RunsAre
  <2>4. QED  BY <2>2, <2>3
<1>2. SUFFICES ASSUME r[1] <= q[2] + 1  PROVE FALSE
  BY <1>1
<1>3. r[1] > 1 /\ r[1] - 1 \in q[1]..q[2]
  BY <1>1, <1>2
<1>4. QED  BY <1>1, <1>3

\* Some runs, from left to right.
RunLists(gap) ==
  {list \in Seq(Nat \X Nat) :
     /\ \A i \in 1..Len(list) : list[i] \in Geometry!TrueRuns(gap)
     /\ \A i, j \in 1..Len(list) : i < j => list[i][1] < list[j][1]}

Holding(joined, c, run) == joined[c][1] <= run[1] /\ run[2] <= joined[c][2]

\* The first k of them, joined where no valley between two is deep.
JoinedSoFar(gap, list, k) ==
  {joined \in Seq(Nat \X Nat) :
     /\ Len(joined) # 0 /\ joined[Len(joined)][2] = list[k][2]
     /\ \A c \in 1..Len(joined) :
          /\ \E i, j \in 1..k : joined[c][1] = list[i][1] /\ joined[c][2] = list[j][2]
          /\ joined[c][1] <= joined[c][2] /\ NoValley(gap, joined[c][1], joined[c][2])
     /\ \A c, d \in 1..Len(joined) :
          c < d => joined[c][2] < joined[d][1] /\ ~ NoValley(gap, joined[c][2], joined[d][1])
     /\ \A j \in 1..k : \E c \in 1..Len(joined) : Holding(joined, c, list[j])}

LEMMA FirstIsJoined ==
  ASSUME NEW gap \in Seq(Int), NEW list \in RunLists(gap), Len(list) # 0
  PROVE  <<list[1]>> \in JoinedSoFar(gap, list, 1)
<1> DEFINE run == list[1]
           joined == <<run>>
<1>1. run \in Nat \X Nat /\ run \in Geometry!TrueRuns(gap)
  <2>1. list \in Seq(Nat \X Nat) /\ 1 \in 1..Len(list)
    BY DEF RunLists
  <2>2. QED  BY <2>1 DEF RunLists
<1>2. run[1] \in Nat /\ run[2] \in Nat /\ run[1] <= run[2] /\ \A k \in run[1]..run[2] : Touching(gap, k)
  BY <1>1, RunsAre
<1>3. NoValley(gap, run[1], run[2])
  <2>1. SUFFICES ASSUME NEW k \in run[1]..run[2]  PROVE gap[k] > -MergeTolerance
    BY DEF NoValley
  <2>2. k \in 1..Len(gap) /\ Touching(gap, k)
    <3>1. run[1] \in 1..Len(gap) /\ run[2] \in 1..Len(gap)
      BY <1>1, RunsAre
    <3>2. QED  BY <1>2, <3>1
  <2>3. gap[k] \in Int /\ Epsilon \in Nat /\ MergeTolerance \in Nat
    BY <2>2, GeometryNumbers
  <2>4. QED  BY <2>2, <2>3 DEF Touching
<1> HIDE DEF run
<1>4. /\ joined \in Seq(Nat \X Nat) /\ Len(joined) = 1 /\ joined[1] = run
      /\ 1..Len(joined) = {1} /\ 1..1 = {1}
  BY <1>1
<1> HIDE DEF joined
<1>5. Holding(joined, 1, list[1])
  BY <1>2, <1>4 DEF Holding, run
<1>6. QED  BY <1>2, <1>3, <1>4, <1>5 DEF JoinedSoFar, joined, run

\* Contact is no valley.
LEMMA RunIsNoValley ==
  ASSUME NEW gap \in Seq(Int), NEW run \in Geometry!TrueRuns(gap)
  PROVE  NoValley(gap, run[1], run[2])
<1>1. SUFFICES ASSUME NEW k \in run[1]..run[2]  PROVE gap[k] > -MergeTolerance
  BY DEF NoValley
<1>2. k \in 1..Len(gap) /\ Touching(gap, k)
  <2>1. run[1] \in 1..Len(gap) /\ run[2] \in 1..Len(gap) /\ \A j \in run[1]..run[2] : Touching(gap, j)
    BY RunsAre
  <2>2. QED  BY <2>1
<1>3. gap[k] \in Int /\ Epsilon \in Nat /\ MergeTolerance \in Nat
  BY <1>2, GeometryNumbers
<1>4. QED  BY <1>2, <1>3 DEF Touching

LEMMA JoinKeeps ==
  ASSUME NEW gap \in Seq(Int), NEW list \in RunLists(gap), NEW k \in 2..Len(list),
         NEW joined \in JoinedSoFar(gap, list, k - 1)
  PROVE  Geometry!WithNext(gap, joined, list[k]) \in JoinedSoFar(gap, list, k)
<1> DEFINE n == Len(joined)
           last == joined[n]
           next == list[k]
           new == Geometry!WithNext(gap, joined, next)
<1>1. /\ joined \in Seq(Nat \X Nat) /\ n \in Nat /\ n # 0 /\ n \in 1..n
      /\ Len(list) \in Nat /\ k \in Nat /\ k - 1 \in 1..(k - 1) /\ k - 1 \in 1..Len(list)
      /\ k \in 1..Len(list) /\ k \in 1..k /\ \A i \in 1..(k - 1) : i \in 1..k /\ i \in 1..Len(list) /\ i < k
  <2>1. joined \in Seq(Nat \X Nat) /\ n # 0 /\ list \in Seq(Nat \X Nat)
    BY DEF JoinedSoFar, RunLists
  <2> DEFINE length == Len(list)
  <2>2. n \in Nat /\ length \in Nat /\ n # 0 /\ k \in 2..length
    BY <2>1, LenProperties, Zenon
  <2> HIDE DEF n, length, last, next, new
  <2>3. n \in 1..n
    BY <2>2
  <2>4. /\ k \in Nat /\ k - 1 \in 1..(k - 1) /\ k - 1 \in 1..length
        /\ k \in 1..length /\ k \in 1..k /\ \A i \in 1..(k - 1) : i \in 1..k /\ i \in 1..length /\ i < k
    BY <2>2
  <2>5. QED  BY <2>1, <2>2, <2>3, <2>4 DEF length
<1>2. /\ last[2] = list[k - 1][2]
      /\ \A c \in 1..n :
           /\ \E i, j \in 1..(k - 1) : joined[c][1] = list[i][1] /\ joined[c][2] = list[j][2]
           /\ joined[c][1] <= joined[c][2] /\ NoValley(gap, joined[c][1], joined[c][2])
      /\ \A c, d \in 1..n :
           c < d => joined[c][2] < joined[d][1] /\ ~ NoValley(gap, joined[c][2], joined[d][1])
      /\ \A j \in 1..(k - 1) : \E c \in 1..n : Holding(joined, c, list[j])
  BY DEF JoinedSoFar
<1>3. /\ \A c \in 1..n : joined[c] \in Nat \X Nat /\ joined[c][1] \in Nat /\ joined[c][2] \in Nat
      /\ joined[n] = last
  BY <1>1
<1>3a. last[1] \in Nat /\ last[2] \in Nat /\ last[1] <= last[2]
  BY <1>1, <1>2, <1>3
<1>4. /\ next \in Geometry!TrueRuns(gap) /\ list[k - 1] \in Geometry!TrueRuns(gap)
      /\ list[k - 1][1] < next[1]
      /\ next \in Nat \X Nat /\ next[1] \in Nat /\ next[2] \in Nat
  <2>1. list \in Seq(Nat \X Nat)
    BY DEF RunLists
  <2>2. next \in Nat \X Nat
    BY <1>1, <2>1
  <2>3. QED  BY <1>1, <2>2 DEF RunLists
<1>5. /\ last[2] \in 1..Len(gap) /\ next[1] \in 1..Len(gap) /\ next[2] \in 1..Len(gap)
      /\ next[1] <= next[2]
  BY <1>2, <1>4, RunsAre
<1>6. last[2] + 1 < next[1]
  BY <1>2, <1>4, RunsApart
<1>6a. /\ last[2] < next[1] /\ last[2] < next[2] /\ last[1] <= next[1] /\ last[1] <= next[2]
       /\ next[2] <= next[2]
  <2> DEFINE a == last[1]
             b == last[2]
             c == next[1]
             d == next[2]
  <2>1. a \in Nat /\ b \in Nat /\ c \in Nat /\ d \in Nat /\ a <= b
    BY <1>3a, <1>4, Zenon
  <2>1a. b + 1 < c /\ c <= d
    BY <1>5, <1>6, Zenon
  <2> HIDE DEF a, b, c, d
  <2>2. b < c /\ b < d /\ a <= c /\ a <= d /\ d <= d
    BY <2>1, <2>1a
  <2>3. QED  BY <2>2 DEF a, b, c, d
<1>7. Geometry!Min({gap[i] : i \in last[2]..next[1]}) > -MergeTolerance <=> NoValley(gap, last[2], next[1])
  <2>1. last[2] <= next[1]
    BY <1>3a, <1>4, <1>6a
  <2> HIDE DEF last, next
  <2>2. QED  BY <1>5, <2>1, ValleyIsLeast
<1>8. NoValley(gap, next[1], next[2])
  BY <1>4, RunIsNoValley
<1> HIDE DEF next
<1>9. CASE NoValley(gap, last[2], next[1])
  <2> DEFINE one == <<last[1], next[2]>>
  <2>1. one \in Nat \X Nat /\ one[1] = last[1] /\ one[2] = next[2] /\ last[1] <= last[2]
    BY <1>1, <1>2, <1>3, <1>4
  <2>2. new = [joined EXCEPT ![n] = one]
    BY <1>7, <1>9 DEF Geometry!WithNext
  <2> HIDE DEF one, new, last
  <2>3. new \in Seq(Nat \X Nat) /\ Len(new) = n /\ \A c \in 1..n : new[c] = IF c = n THEN one ELSE joined[c]
    <3> DEFINE S == Nat \X Nat
    <3>1. joined \in Seq(S) /\ one \in S /\ n \in 1..Len(joined)
      BY <1>1, <2>1
    <3> HIDE DEF S
    <3>2. /\ [joined EXCEPT ![n] = one] \in Seq(S) /\ Len([joined EXCEPT ![n] = one]) = n
          /\ \A c \in 1..n : [joined EXCEPT ![n] = one][c] = IF c = n THEN one ELSE joined[c]
      BY <3>1, ExceptSeq
    <3>3. QED  BY <2>2, <3>2 DEF S
  <2>4. new[n] = one /\ new[n][2] = list[k][2]
    BY <1>1, <2>1, <2>3 DEF next
  <2>5. ASSUME NEW c \in 1..n
        PROVE  /\ \E i, j \in 1..k : new[c][1] = list[i][1] /\ new[c][2] = list[j][2]
               /\ new[c][1] <= new[c][2] /\ NoValley(gap, new[c][1], new[c][2])
    <3>1. CASE c = n
      <4>1. PICK i \in 1..(k - 1) : last[1] = list[i][1]
        BY <1>1, <1>2 DEF last
      <4>2. new[c][1] = list[i][1] /\ new[c][2] = list[k][2] /\ i \in 1..k
        BY <1>1, <2>1, <2>4, <3>1, <4>1
      <4>3. NoValley(gap, last[1], next[2])
        <5>1. NoValley(gap, last[1], last[2])
          BY <1>1, <1>2 DEF last
        <5>2. \A i1 \in last[1]..next[2] :
                i1 \in last[1]..last[2] \/ i1 \in last[2]..next[1] \/ i1 \in next[1]..next[2]
          <6>1. last[1] \in Int /\ last[2] \in Int /\ next[1] \in Int /\ next[2] \in Int
            BY <1>4, <1>3a
          <6>2. QED  BY <6>1
        <5>3. QED  BY <1>8, <1>9, <5>1, <5>2 DEF NoValley
      <4>4. last[1] <= next[2]
        BY <1>6a
      <4>5. QED  BY <1>1, <2>1, <2>4, <3>1, <4>2, <4>3, <4>4
    <3>2. CASE c # n
      <4>1. new[c] = joined[c]
        BY <2>3, <3>2
      <4>2. PICK i \in 1..(k - 1), j \in 1..(k - 1) : joined[c][1] = list[i][1] /\ joined[c][2] = list[j][2]
        BY <1>2
      <4>3. i \in 1..k /\ j \in 1..k
        BY <1>1
      <4>4. \E i1, j1 \in 1..k : new[c][1] = list[i1][1] /\ new[c][2] = list[j1][2]
        BY <4>1, <4>2, <4>3
      <4>5. new[c][1] <= new[c][2] /\ NoValley(gap, new[c][1], new[c][2])
        BY <1>2, <4>1
      <4>6. QED  BY <4>4, <4>5
    <3>3. QED  BY <3>1, <3>2
  <2>6. ASSUME NEW c \in 1..n, NEW d \in 1..n, c < d
        PROVE  new[c][2] < new[d][1] /\ ~ NoValley(gap, new[c][2], new[d][1])
    <3>1. c # n /\ new[c] = joined[c]
      <4>1. c # n
        BY <1>1, <2>6
      <4>2. QED  BY <2>3, <4>1
    <3>2. new[d][1] = joined[d][1]
      <4>1. CASE d = n
        BY <2>1, <2>4, <4>1 DEF last
      <4>2. CASE d # n
        BY <2>3, <4>2
      <4>3. QED  BY <4>1, <4>2
    <3>3. QED  BY <1>2, <2>6, <3>1, <3>2
  <2>7. ASSUME NEW j \in 1..k  PROVE \E c \in 1..n : Holding(new, c, list[j])
    <3>1. CASE j = k
      <4>1. Holding(new, n, list[j])
        <5>1. last[1] <= next[1] /\ next[2] <= next[2]
          BY <1>6a
        <5>2. QED  BY <2>1, <2>4, <3>1, <5>1 DEF Holding, next
      <4>2. QED  BY <1>1, <4>1
    <3>2. CASE j # k
      <4>1. j \in 1..(k - 1)
        BY <1>1, <3>2
      <4>2. PICK c \in 1..n : Holding(joined, c, list[j])
        BY <1>2, <4>1
      <4>3. CASE c # n
        BY <2>3, <4>2, <4>3 DEF Holding
      <4>4. CASE c = n
        <5>1. list[j] \in Geometry!TrueRuns(gap)
          BY <1>1, <4>1 DEF RunLists
        <5>2. list[j][2] \in Nat
          <6>1. list[j][2] \in 1..Len(gap)
            BY <5>1, RunsAre
          <6>2. QED  BY <6>1
        <5>3. last[1] <= list[j][1] /\ list[j][2] <= last[2]
          BY <4>2, <4>4 DEF Holding, last
        <5>4. list[j][2] <= next[2]
          <6> DEFINE end == list[j][2]
                     before == last[2]
                     after == next[2]
          <6>1. end \in Nat /\ before \in Nat /\ after \in Nat /\ end <= before /\ before < after
            BY <1>3a, <1>4, <1>6a, <5>2, <5>3
          <6> HIDE DEF end, before, after
          <6>2. end <= after
            BY <6>1
          <6>3. QED  BY <6>2 DEF end, after
        <5>5. QED  BY <1>1, <2>1, <2>4, <5>3, <5>4 DEF Holding
      <4>5. QED  BY <4>3, <4>4
    <3>3. QED  BY <3>1, <3>2
  <2>8. new \in JoinedSoFar(gap, list, k)
    BY <1>1, <2>3, <2>4, <2>5, <2>6, <2>7 DEF JoinedSoFar
  <2>9. QED  BY <2>8 DEF new, next
<1>10. CASE ~ NoValley(gap, last[2], next[1])
  <2>1. new = Append(joined, next)
    BY <1>7, <1>10 DEF Geometry!WithNext
  <2> HIDE DEF new, last
  <2>2. /\ new \in Seq(Nat \X Nat) /\ Len(new) = n + 1 /\ new[n + 1] = next
        /\ \A c \in 1..n : new[c] = joined[c]
    BY <1>1, <1>4, <2>1
  <2>3. /\ \A c \in 1..(n + 1) : c = n + 1 \/ c \in 1..n
        /\ \A c \in 1..n : c \in 1..(n + 1)
        /\ n + 1 \in 1..(n + 1) /\ n + 1 # 0
    BY <1>1
  <2>4. new[n + 1][2] = list[k][2]
    BY <2>2 DEF next
  <2>5. ASSUME NEW c \in 1..(n + 1)
        PROVE  /\ \E i, j \in 1..k : new[c][1] = list[i][1] /\ new[c][2] = list[j][2]
               /\ new[c][1] <= new[c][2] /\ NoValley(gap, new[c][1], new[c][2])
    <3>1. CASE c = n + 1
      <4>1. new[c] = next /\ next = list[k]
        BY <2>2, <3>1 DEF next
      <4>2. QED  BY <1>1, <1>5, <1>8, <4>1
    <3>2. CASE c \in 1..n
      <4>1. new[c] = joined[c]
        BY <2>2, <3>2
      <4>2. PICK i \in 1..(k - 1), j \in 1..(k - 1) : joined[c][1] = list[i][1] /\ joined[c][2] = list[j][2]
        BY <1>2, <3>2
      <4>3. i \in 1..k /\ j \in 1..k
        BY <1>1
      <4>4. \E i1, j1 \in 1..k : new[c][1] = list[i1][1] /\ new[c][2] = list[j1][2]
        BY <4>1, <4>2, <4>3
      <4>5. new[c][1] <= new[c][2] /\ NoValley(gap, new[c][1], new[c][2])
        BY <1>2, <3>2, <4>1
      <4>6. QED  BY <4>4, <4>5
    <3>3. QED  BY <2>3, <3>1, <3>2
  <2>6. ASSUME NEW c \in 1..(n + 1), NEW d \in 1..(n + 1), c < d
        PROVE  new[c][2] < new[d][1] /\ ~ NoValley(gap, new[c][2], new[d][1])
    <3>1. c \in 1..n /\ new[c] = joined[c]
      <4>1. c \in 1..n
        BY <1>1, <2>6
      <4>2. QED  BY <2>2, <4>1
    <3>2. CASE d \in 1..n
      <4>1. new[d] = joined[d]
        BY <2>2, <3>2
      <4>2. QED  BY <1>2, <2>6, <3>1, <3>2, <4>1
    <3>3. CASE d = n + 1
      <4>1. new[d] = next
        BY <2>2, <3>3
      <4>2. joined[c][2] <= last[2]
        <5>1. CASE c = n
          BY <1>1, <1>3, <5>1 DEF last
        <5>2. CASE c # n
          <6>1. c < n
            BY <1>1, <3>1, <5>2
          <6>2. joined[c][2] < last[1] /\ last[1] <= last[2]
            BY <1>1, <1>2, <3>1, <6>1 DEF last
          <6>3. joined[c][2] \in Nat /\ last[1] \in Nat /\ last[2] \in Nat
            BY <1>1, <1>3, <3>1 DEF last
          <6>4. QED  BY <6>2, <6>3
        <5>3. QED  BY <5>1, <5>2
      <4>3. joined[c][2] \in Nat
        BY <1>3, <3>1
      <4>4. \A i \in last[2]..next[1] : i \in joined[c][2]..next[1]
        <5>1. last[2] \in Int /\ next[1] \in Int
          BY <1>3a, <1>4
        <5>2. QED  BY <4>2, <4>3, <5>1
      <4>5. ~ NoValley(gap, joined[c][2], next[1])
        BY <1>10, <4>4 DEF NoValley
      <4>6. joined[c][2] < next[1]
        <5>1. last[2] \in Int /\ next[1] \in Int
          BY <1>3a, <1>4
        <5>2. QED  BY <1>6, <4>2, <4>3, <5>1
      <4>7. QED  BY <3>1, <4>1, <4>5, <4>6
    <3>4. QED  BY <2>3, <3>2, <3>3
  <2>7. ASSUME NEW j \in 1..k  PROVE \E c \in 1..(n + 1) : Holding(new, c, list[j])
    <3>1. CASE j = k
      <4>1. Holding(new, n + 1, list[j])
        BY <1>4, <2>2, <3>1 DEF Holding, next
      <4>2. QED  BY <2>3, <4>1
    <3>2. CASE j # k
      <4>1. j \in 1..(k - 1)
        BY <1>1, <3>2
      <4>2. PICK c \in 1..n : Holding(joined, c, list[j])
        BY <1>2, <4>1
      <4>3. QED  BY <2>2, <2>3, <4>2 DEF Holding
    <3>3. QED  BY <3>1, <3>2
  <2>8. new \in JoinedSoFar(gap, list, k)
    BY <2>2, <2>3, <2>4, <2>5, <2>6, <2>7 DEF JoinedSoFar
  <2>9. QED  BY <2>8 DEF new, next
<1>11. QED  BY <1>9, <1>10

LEMMA JoinedRuns ==
  ASSUME NEW gap \in Seq(Int), NEW list \in RunLists(gap), Len(list) # 0
  PROVE  Geometry!Joined(gap, list) \in JoinedSoFar(gap, list, Len(list))
<1> DEFINE n == Len(list)
           x == <<list[1]>>
           T == [i \in 0..(n - 1) |-> JoinedSoFar(gap, list, i + 1)]
           F == [i \in 1..(n - 1) |-> [s \in T[i - 1] |-> Geometry!WithNext(gap, s, list[i + 1])]]
           Body(f) == [k \in 1..n |-> IF k = 1 THEN x ELSE Geometry!WithNext(gap, f[k - 1], list[k])]
           so == CHOOSE f : f = Body(f)
<1>1. n \in Nat /\ n >= 1 /\ n - 1 \in Nat
  <2>1. list \in Seq(Nat \X Nat)
    BY DEF RunLists
  <2>2. QED  BY <2>1
<1>2. x \in T[0]
  <2>1. T[0] = JoinedSoFar(gap, list, 1)
    BY <1>1
  <2>2. QED  BY <2>1, FirstIsJoined
<1>3. ASSUME NEW i \in 1..(n - 1), NEW s \in T[i - 1]
      PROVE  Geometry!WithNext(gap, s, list[i + 1]) \in T[i]
  <2>1. i \in 0..(n - 1) /\ i - 1 \in 0..(n - 1) /\ i + 1 \in 2..n /\ (i - 1) + 1 = i /\ (i + 1) - 1 = i
    BY <1>1
  <2>2. s \in JoinedSoFar(gap, list, (i + 1) - 1)
    BY <2>1
  <2>3. Geometry!WithNext(gap, s, list[i + 1]) \in JoinedSoFar(gap, list, i + 1)
    BY <2>1, <2>2, JoinKeeps
  <2>4. QED  BY <2>1, <2>3
<1>4. \E f : f = Body(f)
  <2>1. \A i \in 1..(n - 1) : \A s \in T[i - 1] : F[i][s] \in T[i]
    BY <1>3
  <2>2. PICK g : IsLoop(g, n - 1, x, F) /\ \A i \in 0..(n - 1) : g[i] \in T[i]
    <3> HIDE DEF T, F, n, x
    <3>1. QED  BY <1>1, <1>2, <2>1, LoopExists
  <2> DEFINE f == [k \in 1..n |-> g[k - 1]]
  <2>3. ASSUME NEW k \in 1..n
        PROVE  g[k - 1] = IF k = 1 THEN x ELSE Geometry!WithNext(gap, f[k - 1], list[k])
    <3>1. k - 1 \in 0..(n - 1) /\ (k - 1 = 0 <=> k = 1)
      BY <1>1
    <3>2. g[k - 1] = IF k - 1 = 0 THEN x ELSE F[k - 1][g[(k - 1) - 1]]
      <4> HIDE DEF F, x
      <4>1. QED  BY <2>2, <3>1 DEF IsLoop
    <3>3. CASE k = 1
      <4> HIDE DEF F, x
      <4>1. QED  BY <3>1, <3>2, <3>3
    <3>4. CASE k # 1
      <4>1. k - 1 \in 1..(n - 1) /\ k - 1 \in 1..n /\ (k - 1) - 1 \in 0..(n - 1) /\ (k - 1) + 1 = k
        BY <1>1, <3>4
      <4>2. g[(k - 1) - 1] \in T[(k - 1) - 1] /\ f[k - 1] = g[(k - 1) - 1]
        BY <2>2, <4>1
      <4> DEFINE s == g[(k - 1) - 1]
      <4>3. F[k - 1][s] = Geometry!WithNext(gap, s, list[(k - 1) + 1])
        <5> HIDE DEF T, s
        <5>1. s \in T[(k - 1) - 1]
          BY <4>2 DEF s
        <5>2. QED  BY <4>1, <5>1
      <4> HIDE DEF F, x, T, f
      <4>4. QED  BY <3>1, <3>2, <3>4, <4>1, <4>2, <4>3
    <3>5. QED  BY <3>3, <3>4
  <2>4. f = Body(f)
    <3> DEFINE G(k) == IF k = 1 THEN x ELSE Geometry!WithNext(gap, f[k - 1], list[k])
    <3>1. f = [k \in 1..n |-> G(k)]
      <4>1. \A k \in 1..n : g[k - 1] = G(k)
        BY <2>3
      <4> HIDE DEF G
      <4>2. QED  BY <4>1
    <3>2. QED  BY <3>1
  <2> HIDE DEF f
  <2>5. QED  BY <2>4
<1>5. so = Body(so)
  BY <1>4
<1>6. Geometry!Joined(gap, list) = so[n]
  BY DEF Geometry!Joined
<1> HIDE DEF so
<1> DEFINE h == [i \in 0..(n - 1) |-> so[i + 1]]
<1>7. h[0] \in T[0]
  <2>1. 1 \in 1..n /\ 0 \in 0..(n - 1) /\ 0 + 1 = 1
    BY <1>1
  <2>2. h[0] = so[1]
    BY <2>1
  <2>3. so[1] = x
    <3> HIDE DEF x
    <3>1. QED  BY <1>5, <2>1
  <2>4. QED  BY <1>2, <2>2, <2>3
<1>8. ASSUME NEW i \in 1..(n - 1), h[i - 1] \in T[i - 1]  PROVE h[i] \in T[i]
  <2>1. i + 1 \in 1..n /\ i + 1 # 1 /\ i \in 0..(n - 1) /\ i - 1 \in 0..(n - 1) /\ (i - 1) + 1 = i /\ (i + 1) - 1 = i
    BY <1>1
  <2>2. so[i + 1] = Geometry!WithNext(gap, so[i], list[i + 1])
    <3> HIDE DEF x
    <3>1. QED  BY <1>5, <2>1
  <2>3. h[i] = so[i + 1] /\ h[i - 1] = so[i]
    BY <2>1
  <2>4. so[i] \in T[i - 1]
    BY <1>8, <2>3
  <2> HIDE DEF T, h
  <2>5. QED  BY <1>3, <2>2, <2>3, <2>4
<1>9. \A i \in 0..(n - 1) : h[i] \in T[i]
  <2> HIDE DEF T, h, n
  <2>1. QED  BY <1>1, <1>7, <1>8, LoopKeeps
<1>10. so[n] \in JoinedSoFar(gap, list, n)
  <2>1. n - 1 \in 0..(n - 1) /\ (n - 1) + 1 = n
    BY <1>1
  <2>2. h[n - 1] = so[n] /\ T[n - 1] = JoinedSoFar(gap, list, n)
    BY <2>1
  <2>3. h[n - 1] \in T[n - 1]
    BY <1>9, <2>1
  <2>4. QED  BY <2>2, <2>3
<1>11. QED  BY <1>6, <1>10

\* An interval holds its ends.
LEMMA EndsAreIn ==
  ASSUME NEW a \in Int, NEW b \in Int, a <= b
  PROVE  a \in a..b /\ b \in a..b
OBVIOUS

\* Together are the runs that no deep valley parts.
LEMMA JoinedTogether ==
  ASSUME NEW gap \in Seq(Int), NEW list \in RunLists(gap), Len(list) # 0,
         NEW joined \in JoinedSoFar(gap, list, Len(list))
  PROVE  /\ Members(joined) = Geometry!TrueJoined(gap, Members(list))
         /\ Cardinality(Members(joined)) = Len(joined)
<1> DEFINE n == Len(joined)
           runs == Members(list)
           Together(q, r) ==
             \A k \in Geometry!Min({q[1], r[1]})..Geometry!Max({q[2], r[2]}) : gap[k] > -MergeTolerance
           With(r) == {q \in runs : Together(q, r)}
           Whole(r) == <<Geometry!Min({q[1] : q \in With(r)}), Geometry!Max({q[2] : q \in With(r)})>>
<1>1. /\ joined \in Seq(Nat \X Nat) /\ n \in Nat
      /\ \A c \in 1..n :
           /\ \E i, j \in 1..Len(list) : joined[c][1] = list[i][1] /\ joined[c][2] = list[j][2]
           /\ joined[c][1] <= joined[c][2] /\ NoValley(gap, joined[c][1], joined[c][2])
      /\ \A c, d \in 1..n :
           c < d => joined[c][2] < joined[d][1] /\ ~ NoValley(gap, joined[c][2], joined[d][1])
      /\ \A j \in 1..Len(list) : \E c \in 1..n : Holding(joined, c, list[j])
  BY DEF JoinedSoFar
<1>2. \A c \in 1..n : /\ joined[c] = <<joined[c][1], joined[c][2]>>
                      /\ joined[c][1] \in Nat /\ joined[c][2] \in Nat
  <2>1. \A c \in 1..n : joined[c] \in Nat \X Nat
    BY <1>1
  <2>2. QED  BY <2>1
<1>3. ASSUME NEW r \in runs
      PROVE  /\ r[1] \in Nat /\ r[2] \in Nat /\ r[1] <= r[2]
             /\ \E c \in 1..n : Holding(joined, c, r)
  <2>1. PICK i \in 1..Len(list) : r = list[i]
    BY DEF Members
  <2>2. r \in Geometry!TrueRuns(gap)
    BY <2>1 DEF RunLists
  <2>3. r[1] \in 1..Len(gap) /\ r[2] \in 1..Len(gap) /\ r[1] <= r[2]
    BY <2>2, RunsAre
  <2>4. \E c \in 1..n : Holding(joined, c, r)
    BY <1>1, <2>1
  <2>5. QED  BY <2>3, <2>4
<1> HIDE DEF runs, n
<1>4. ASSUME NEW q \in runs, NEW r \in runs
      PROVE  /\ Geometry!Min({q[1], r[1]}) = IF q[1] <= r[1] THEN q[1] ELSE r[1]
             /\ Geometry!Max({q[2], r[2]}) = IF q[2] <= r[2] THEN r[2] ELSE q[2]
  <2>1. q[1] \in Int /\ r[1] \in Int /\ q[2] \in Int /\ r[2] \in Int
    <3>1. q[1] \in Nat /\ q[2] \in Nat /\ r[1] \in Nat /\ r[2] \in Nat
      BY <1>3
    <3>2. QED  BY <3>1
  <2>2. Geometry!Min({q[1], r[1]}) = IF q[1] <= r[1] THEN q[1] ELSE r[1]
    BY <2>1, OfTwo
  <2>3. Geometry!Max({q[2], r[2]}) = IF q[2] <= r[2] THEN r[2] ELSE q[2]
    BY <2>1, OfTwo
  <2>4. QED  BY <2>2, <2>3
<1>5. ASSUME NEW c \in 1..n, NEW q \in runs, NEW r \in runs,
             Holding(joined, c, q), Holding(joined, c, r)
      PROVE  Together(q, r)
  <2>1. /\ joined[c][1] <= q[1] /\ q[2] <= joined[c][2] /\ joined[c][1] <= r[1] /\ r[2] <= joined[c][2]
        /\ joined[c][1] \in Int /\ joined[c][2] \in Int
        /\ q[1] \in Int /\ q[2] \in Int /\ r[1] \in Int /\ r[2] \in Int
    BY <1>2, <1>3, <1>5 DEF Holding
  <2> DEFINE a == Geometry!Min({q[1], r[1]})
             b == Geometry!Max({q[2], r[2]})
  <2>2. a \in Int /\ b \in Int /\ joined[c][1] <= a /\ b <= joined[c][2]
    BY <1>4, <2>1
  <2> HIDE DEF a, b
  <2>3. \A k \in a..b : k \in joined[c][1]..joined[c][2]
    BY <2>1, <2>2
  <2>4. \A k \in a..b : gap[k] > -MergeTolerance
    BY <1>1, <2>3 DEF NoValley
  <2>5. QED  BY <2>4 DEF a, b
<1>6. ASSUME NEW c \in 1..n, NEW d \in 1..n, c < d, NEW q \in runs, NEW r \in runs,
             Holding(joined, c, q), Holding(joined, d, r)
      PROVE  ~ Together(q, r) /\ ~ Together(r, q)
  <2> DEFINE q1 == q[1]
             q2 == q[2]
             r1 == r[1]
             r2 == r[2]
             u == joined[c][2]
             v == joined[d][1]
  <2>1. /\ q2 <= u /\ v <= r1 /\ u < v /\ q1 <= q2 /\ r1 <= r2
        /\ u \in Nat /\ v \in Nat /\ q1 \in Nat /\ q2 \in Nat /\ r1 \in Nat /\ r2 \in Nat
    <3>1. q[1] \in Nat /\ q[2] \in Nat /\ q[1] <= q[2] /\ r[1] \in Nat /\ r[2] \in Nat /\ r[1] <= r[2]
      BY <1>3
    <3>2. joined[c][2] \in Nat /\ joined[d][1] \in Nat
      BY <1>2
    <3>3. joined[c][2] < joined[d][1]
      BY <1>1, <1>6
    <3>4. q[2] <= joined[c][2] /\ joined[d][1] <= r[1]
      BY <1>6 DEF Holding
    <3>5. QED  BY <3>1, <3>2, <3>3, <3>4, Zenon
  <2>2. PICK k \in u..v : ~ (gap[k] > -MergeTolerance)
    BY <1>1, <1>6 DEF NoValley
  <2> DEFINE a == Geometry!Min({q[1], r[1]})
             b == Geometry!Max({q[2], r[2]})
             a2 == Geometry!Min({r[1], q[1]})
             b2 == Geometry!Max({r[2], q[2]})
  <2>3. /\ a = (IF q1 <= r1 THEN q1 ELSE r1) /\ b = (IF q2 <= r2 THEN r2 ELSE q2)
        /\ a2 = (IF r1 <= q1 THEN r1 ELSE q1) /\ b2 = (IF r2 <= q2 THEN q2 ELSE r2)
    BY <1>4
  <2> HIDE DEF a, b, a2, b2, q1, q2, r1, r2, u, v
  <2>3a. q1 <= r1 /\ q2 <= r2 /\ ~ (r1 <= q1) /\ ~ (r2 <= q2) /\ k \in q1..r2
    BY <2>1, <2>2
  <2>4. k \in a..b /\ k \in a2..b2
    BY <2>3, <2>3a
  <2>5. QED  BY <2>2, <2>4 DEF a, b, a2, b2
<1>7. ASSUME NEW c \in 1..n, NEW r \in runs, Holding(joined, c, r)
      PROVE  With(r) = {q \in runs : Holding(joined, c, q)}
  <2>1. ASSUME NEW q \in runs  PROVE Together(q, r) <=> Holding(joined, c, q)
    <3>1. CASE Holding(joined, c, q)
      BY <1>5, <1>7, <3>1
    <3>2. CASE ~ Holding(joined, c, q)
      <4>1. PICK d \in 1..n : Holding(joined, d, q)
        BY <1>3
      <4>2. c < d \/ d < c
        <5>1. c # d
          BY <3>2, <4>1
        <5>2. c \in Int /\ d \in Int
          BY <1>1
        <5>3. QED  BY <5>1, <5>2
      <4> HIDE DEF Together
      <4>3. ~ Together(q, r)
        BY <1>6, <1>7, <4>1, <4>2
      <4>4. QED  BY <3>2, <4>3
    <3>3. QED  BY <3>1, <3>2
  <2> HIDE DEF Together
  <2>2. QED  BY <2>1
\* The runs an island starts and ends with are held by it.
<1>8. ASSUME NEW c \in 1..n
      PROVE  \E q, r \in runs : /\ Holding(joined, c, q) /\ q[1] = joined[c][1]
                                /\ Holding(joined, c, r) /\ r[2] = joined[c][2]
  <2>1. PICK i \in 1..Len(list), j \in 1..Len(list) :
          joined[c][1] = list[i][1] /\ joined[c][2] = list[j][2]
    BY <1>1
  <2> DEFINE q == list[i]
             r == list[j]
  <2>2. q \in runs /\ r \in runs /\ q[1] = joined[c][1] /\ r[2] = joined[c][2]
    BY <2>1 DEF runs, Members
  <2> HIDE DEF q, r
  <2>3. /\ joined[c][1] <= joined[c][2] /\ joined[c][1] \in Nat /\ joined[c][2] \in Nat
        /\ q[1] \in Nat /\ q[2] \in Nat /\ q[1] <= q[2] /\ r[1] \in Nat /\ r[2] \in Nat /\ r[1] <= r[2]
    BY <1>1, <1>2, <1>3, <2>2
  <2>4. ASSUME NEW d \in 1..n, joined[d][1] <= joined[c][2], joined[c][1] <= joined[d][2]
        PROVE  d = c
    <3>1. d \in Int /\ c \in Int
      BY <1>1
    <3>2. joined[d][1] \in Nat /\ joined[d][2] \in Nat
      BY <1>2
    <3>3. /\ c < d => joined[c][2] < joined[d][1]
          /\ d < c => joined[d][2] < joined[c][1]
      BY <1>1
    <3> DEFINE c1 == joined[c][1]
               c2 == joined[c][2]
               d1 == joined[d][1]
               d2 == joined[d][2]
    <3>4. /\ c1 \in Nat /\ c2 \in Nat /\ d1 \in Nat /\ d2 \in Nat /\ d1 <= c2 /\ c1 <= d2
          /\ c < d => c2 < d1
          /\ d < c => d2 < c1
      BY <2>3, <2>4, <3>2, <3>3, Zenon
    <3> HIDE DEF c1, c2, d1, d2
    <3>5. QED  BY <3>1, <3>4
  <2>5. Holding(joined, c, q)
    <3>1. PICK d \in 1..n : Holding(joined, d, q)
      BY <1>3, <2>2
    <3>2. joined[d][1] \in Nat /\ joined[d][2] \in Nat /\ joined[d][1] <= q[1] /\ q[2] <= joined[d][2]
      BY <1>2, <3>1 DEF Holding
    <3> DEFINE c1 == joined[c][1]
               c2 == joined[c][2]
               d1 == joined[d][1]
               d2 == joined[d][2]
               h1 == q[1]
               h2 == q[2]
    <3>2a. /\ c1 \in Nat /\ c2 \in Nat /\ d1 \in Nat /\ d2 \in Nat /\ h1 \in Nat /\ h2 \in Nat
           /\ c1 <= c2 /\ h1 <= h2 /\ d1 <= h1 /\ h2 <= d2 /\ (h1 = c1 \/ h2 = c2)
      BY <2>2, <2>3, <3>2, Zenon
    <3> HIDE DEF c1, c2, d1, d2, h1, h2
    <3>2b. d1 <= c2 /\ c1 <= d2
      BY <3>2a
    <3>3. joined[d][1] <= joined[c][2] /\ joined[c][1] <= joined[d][2]
      BY <3>2b DEF c1, c2, d1, d2
    <3>4. QED  BY <2>4, <3>1, <3>3
  <2>6. Holding(joined, c, r)
    <3>1. PICK d \in 1..n : Holding(joined, d, r)
      BY <1>3, <2>2
    <3>2. joined[d][1] \in Nat /\ joined[d][2] \in Nat /\ joined[d][1] <= r[1] /\ r[2] <= joined[d][2]
      BY <1>2, <3>1 DEF Holding
    <3> DEFINE c1 == joined[c][1]
               c2 == joined[c][2]
               d1 == joined[d][1]
               d2 == joined[d][2]
               h1 == r[1]
               h2 == r[2]
    <3>2a. /\ c1 \in Nat /\ c2 \in Nat /\ d1 \in Nat /\ d2 \in Nat /\ h1 \in Nat /\ h2 \in Nat
           /\ c1 <= c2 /\ h1 <= h2 /\ d1 <= h1 /\ h2 <= d2 /\ (h1 = c1 \/ h2 = c2)
      BY <2>2, <2>3, <3>2, Zenon
    <3> HIDE DEF c1, c2, d1, d2, h1, h2
    <3>2b. d1 <= c2 /\ c1 <= d2
      BY <3>2a
    <3>3. joined[d][1] <= joined[c][2] /\ joined[c][1] <= joined[d][2]
      BY <3>2b DEF c1, c2, d1, d2
    <3>4. QED  BY <2>4, <3>1, <3>3
  <2>7. QED  BY <2>2, <2>5, <2>6
<1>9. ASSUME NEW c \in 1..n, NEW r \in runs, Holding(joined, c, r)  PROVE Whole(r) = joined[c]
  <2> DEFINE H == {q \in runs : Holding(joined, c, q)}
             A == {q[1] : q \in H}
             B == {q[2] : q \in H}
  <2>1. Whole(r) = <<Geometry!Min(A), Geometry!Max(B)>>
    <3>1. With(r) = H
      BY <1>7, <1>9
    <3> HIDE DEF With, H
    <3>2. QED  BY <3>1
  <2>2. \A q \in H : /\ q[1] \in Int /\ q[2] \in Int
                     /\ joined[c][1] <= q[1] /\ q[2] <= joined[c][2]
    BY <1>3 DEF Holding
  <2>3. joined[c][1] \in A /\ joined[c][2] \in B
    BY <1>8
  <2>4. A \subseteq Int /\ B \subseteq Int /\ (\A y \in A : joined[c][1] <= y) /\ \A y \in B : y <= joined[c][2]
    BY <2>2
  <2> HIDE DEF A, B, Whole
  <2>5. Geometry!Min(A) = joined[c][1]
    BY <2>3, <2>4, LeastIs
  <2>6. Geometry!Max(B) = joined[c][2]
    BY <2>3, <2>4, LeastIs
  <2>7. QED  BY <1>2, <2>1, <2>5, <2>6
<1>10. Geometry!TrueJoined(gap, runs) = {Whole(r) : r \in runs}
  BY DEF Geometry!TrueJoined
<1> HIDE DEF Whole
<1>11. {Whole(r) : r \in runs} = Members(joined)
  <2>1. \A r \in runs : \E c \in 1..n : Whole(r) = joined[c]
    BY <1>3, <1>9
  <2>2. \A c \in 1..n : \E r \in runs : joined[c] = Whole(r)
    BY <1>8, <1>9
  <2>3. \A x : x \in Members(joined) <=> \E c \in 1..n : x = joined[c]
    BY DEF Members, n
  <2>4. \A x : x \in {Whole(r) : r \in runs} <=> \E r \in runs : x = Whole(r)
    OBVIOUS
  <2>5. \A x : x \in {Whole(r) : r \in runs} <=> x \in Members(joined)
    BY <2>1, <2>2, <2>3, <2>4
  <2>6. QED  BY <2>5
<1>12. Cardinality(Members(joined)) = n
  <2>1. Differ(joined, n)
    <3>1. SUFFICES ASSUME NEW c \in 1..n, NEW d \in 1..n, c < d  PROVE joined[c] # joined[d]
      <4>1. \A c, d \in 1..n : c # d => c < d \/ d < c
        BY <1>1
      <4>2. QED  BY <4>1 DEF Differ
    <3>2. joined[c][1] <= joined[c][2] /\ joined[c][2] < joined[d][1]
      BY <1>1, <3>1
    <3>3. joined[c][1] \in Nat /\ joined[c][2] \in Nat /\ joined[d][1] \in Nat
      BY <1>2
    <3>4. joined[c][1] < joined[d][1]
      BY <3>2, <3>3
    <3>5. QED  BY <3>3, <3>4
  <2>2. Cardinality(FirstOnes(joined, n)) = n
    BY <1>1, <2>1, FirstCount
  <2>3. Members(joined) = FirstOnes(joined, n)
    BY DEF FirstOnes, Members, n
  <2>4. QED  BY <2>2, <2>3
<1>13. QED  BY <1>10, <1>11, <1>12 DEF runs, n
-----------------------------------------------------------------------------
(***************************************************************************)
(* The patches. Islands begin from left to right, so the patches are found *)
(* in the order they are sorted in, and the first found are the first by   *)
(* where they begin.                                                       *)
(***************************************************************************)
\* Where an island begins.
LeftOf(grid, gap, island) ==
  IF island[1] = 1 THEN grid[1]
  ELSE Geometry!Edge(grid[island[1] - 1], grid[island[1]], gap[island[1] - 1], gap[island[1]])

\* An edge is between its neighbours.
LEMMA EdgeBetween ==
  ASSUME NEW x \in Int, NEW y \in Int, x < y, NEW gx \in Int, NEW gy \in Int,
         gx <= Epsilon, gy > Epsilon
  PROVE  Geometry!Edge(x, y, gx, gy) \in x..y
<1> DEFINE w == gy - gx
           a == (Epsilon - gx) * (y - x)
           q == a \div w
<1>1. Epsilon \in Int /\ w \in Nat \ {0} /\ Epsilon - gx \in Nat /\ y - x \in Nat
      /\ Epsilon - gx <= w
  BY GeometryNumbers
<1>2. Geometry!Edge(x, y, gx, gy) = x + q
  <2>1. gx # gy /\ gx < gy
    BY <1>1
  <2>2. QED  BY <2>1 DEF Geometry!Edge
<1>3. a \in Int /\ a >= 0 /\ a <= w * (y - x)
  <2> DEFINE d == y - x
             u == Epsilon - gx
  <2>1. d \in Nat /\ u \in Nat /\ w \in Nat /\ u <= w
    BY <1>1
  <2> HIDE DEF d, u, w
  <2>2. u * d >= 0 /\ u * d \in Int
    BY <2>1
  <2>3. u * d <= w * d
    <3>1. PICK v \in Nat : w = u + v
      <4>1. w - u \in Nat /\ w = u + (w - u)
        BY <2>1
      <4>2. QED  BY <4>1
    <3>2. w * d = u * d + v * d /\ v * d >= 0 /\ v * d \in Int /\ u * d \in Int
      BY <2>1, <3>1
    <3>3. QED  BY <3>2
  <2>4. QED  BY <2>2, <2>3 DEF d, u
<1>4. q \in Int /\ w * q <= a
  <2> HIDE DEF a, w
  <2>1. QED  BY <1>1, <1>3, Quotient
<1>5. q >= 0
  <2> HIDE DEF a, w
  <2>1. QED  BY <1>1, <1>3, QuotientGrows
<1>6. q <= y - x
  <2> DEFINE d == y - x
  <2> HIDE DEF q, a
  <2>1. SUFFICES ASSUME q >= d + 1  PROVE FALSE
    BY <1>1, <1>4
  <2>2. d \in Nat /\ w \in Nat \ {0} /\ a <= w * d /\ w * q <= a
    BY <1>1, <1>3, <1>4
  <2> HIDE DEF d, w
  <2>3. PICK v \in Nat : q = d + 1 + v
    <3>1. q - d - 1 \in Nat /\ q = d + 1 + (q - d - 1)
      BY <1>4, <2>1, <2>2
    <3>2. QED  BY <3>1
  <2>4. w * q = w * d + w + w * v /\ w * v >= 0 /\ w * v \in Int /\ w * d \in Int
    BY <2>2, <2>3
  <2>5. QED  BY <1>3, <2>2, <2>4
<1> HIDE DEF q, a, w
<1>7. QED  BY <1>1, <1>2, <1>4, <1>5, <1>6

LEMMA LeftIs ==
  ASSUME NEW grid \in Seq(Int), Ascends(grid), NEW gap \in Seq(Int), Len(gap) = Len(grid),
         NEW island, island[1] \in 1..Len(grid), Touching(gap, island[1]),
         island[1] > 1 => ~ Touching(gap, island[1] - 1)
  PROVE  /\ LeftOf(grid, gap, island) \in Int
         /\ LeftOf(grid, gap, island) <= grid[island[1]]
         /\ island[1] > 1 => grid[island[1] - 1] <= LeftOf(grid, gap, island)
<1> DEFINE f == island[1]
<1>1. f \in 1..Len(grid) /\ Len(grid) \in Nat /\ grid[f] \in Int
  OBVIOUS
<1>2. CASE f = 1
  <2>1. LeftOf(grid, gap, island) = grid[f]
    BY <1>2 DEF LeftOf
  <2> HIDE DEF f
  <2>2. LeftOf(grid, gap, island) \in Int /\ LeftOf(grid, gap, island) <= grid[f] /\ ~ (f > 1)
    BY <1>1, <1>2, <2>1
  <2>3. QED  BY <2>2 DEF f
<1>3. CASE f # 1
  <2>1. f - 1 \in 1..Len(grid) /\ f > 1 /\ f - 1 < f
    BY <1>1, <1>3
  <2>2. grid[f - 1] \in Int /\ grid[f] \in Int /\ gap[f - 1] \in Int /\ gap[f] \in Int
    BY <1>1, <2>1
  <2>3. grid[f - 1] < grid[f]
    BY <1>1, <2>1 DEF Ascends
  <2>4. gap[f] > Epsilon /\ gap[f - 1] <= Epsilon
    <3>1. Epsilon \in Int
      BY GeometryNumbers
    <3>2. gap[f] > Epsilon /\ ~ (gap[f - 1] > Epsilon)
      BY <2>1 DEF Touching
    <3>3. QED  BY <2>2, <3>1, <3>2
  <2>5. Geometry!Edge(grid[f - 1], grid[f], gap[f - 1], gap[f]) \in grid[f - 1]..grid[f]
    BY <2>2, <2>3, <2>4, EdgeBetween
  <2>6. LeftOf(grid, gap, island) = Geometry!Edge(grid[f - 1], grid[f], gap[f - 1], gap[f])
    BY <1>3 DEF LeftOf
  <2> HIDE DEF f
  <2>7. LeftOf(grid, gap, island) \in Int /\ LeftOf(grid, gap, island) <= grid[f]
        /\ grid[f - 1] <= LeftOf(grid, gap, island)
    BY <2>2, <2>5, <2>6
  <2>8. QED  BY <2>7 DEF f
<1>4. QED  BY <1>2, <1>3

\* From left to right, what is joined begins from left to right.
LEMMA LeftsAscend ==
  ASSUME NEW grid \in Seq(Int), Ascends(grid), NEW gap \in Seq(Int), Len(gap) = Len(grid),
         NEW list \in RunLists(gap), NEW joined \in JoinedSoFar(gap, list, Len(list))
  PROVE  /\ \A c \in 1..Len(joined) : LeftOf(grid, gap, joined[c]) \in Int
         /\ \A c, d \in 1..Len(joined) :
              c < d => LeftOf(grid, gap, joined[c]) < LeftOf(grid, gap, joined[d])
<1>1. ASSUME NEW c \in 1..Len(joined)
      PROVE  /\ joined[c][1] \in 1..Len(grid) /\ joined[c][2] \in 1..Len(grid)
             /\ joined[c][1] <= joined[c][2]
             /\ Touching(gap, joined[c][1]) /\ Touching(gap, joined[c][2])
             /\ joined[c][1] > 1 => ~ Touching(gap, joined[c][1] - 1)
  <2>1. PICK i \in 1..Len(list), j \in 1..Len(list) :
          joined[c][1] = list[i][1] /\ joined[c][2] = list[j][2]
    BY DEF JoinedSoFar
  <2>2. list[i] \in Geometry!TrueRuns(gap) /\ list[j] \in Geometry!TrueRuns(gap)
    BY DEF RunLists
  <2>3. /\ list[i][1] \in 1..Len(gap) /\ list[i][2] \in 1..Len(gap) /\ list[i][1] <= list[i][2]
        /\ \A k \in list[i][1]..list[i][2] : Touching(gap, k)
        /\ list[i][1] > 1 => ~ Touching(gap, list[i][1] - 1)
    BY <2>2, RunsAre
  <2>4. /\ list[j][1] \in 1..Len(gap) /\ list[j][2] \in 1..Len(gap) /\ list[j][1] <= list[j][2]
        /\ \A k \in list[j][1]..list[j][2] : Touching(gap, k)
    BY <2>2, RunsAre
  <2>3a. list[i][1] \in Int /\ list[i][2] \in Int /\ list[i][1] <= list[i][2]
    BY <2>3
  <2>4a. list[j][1] \in Int /\ list[j][2] \in Int /\ list[j][1] <= list[j][2]
    BY <2>4
  <2>5. list[i][1] \in list[i][1]..list[i][2] /\ list[j][2] \in list[j][1]..list[j][2]
    BY <2>3a, <2>4a, EndsAreIn, Zenon
  <2>6. joined[c][1] <= joined[c][2]
    BY DEF JoinedSoFar
  <2>7. QED  BY <2>1, <2>3, <2>4, <2>5, <2>6
<1>2. ASSUME NEW c \in 1..Len(joined)
      PROVE  /\ LeftOf(grid, gap, joined[c]) \in Int
             /\ LeftOf(grid, gap, joined[c]) <= grid[joined[c][1]]
             /\ joined[c][1] > 1 => grid[joined[c][1] - 1] <= LeftOf(grid, gap, joined[c])
  BY <1>1, LeftIs
<1>3. ASSUME NEW c \in 1..Len(joined), NEW d \in 1..Len(joined), c < d
      PROVE  LeftOf(grid, gap, joined[c]) < LeftOf(grid, gap, joined[d])
  <2> DEFINE f == joined[c][1]
             l == joined[c][2]
             g == joined[d][1]
  <2>1. f \in 1..Len(grid) /\ l \in 1..Len(grid) /\ g \in 1..Len(grid) /\ f <= l
        /\ Touching(gap, l) /\ (g > 1 => ~ Touching(gap, g - 1))
    BY <1>1
  <2>2. l < g
    BY <1>3 DEF JoinedSoFar
  <2>3. /\ LeftOf(grid, gap, joined[c]) \in Int /\ LeftOf(grid, gap, joined[d]) \in Int
        /\ LeftOf(grid, gap, joined[c]) <= grid[f]
        /\ g > 1 => grid[g - 1] <= LeftOf(grid, gap, joined[d])
    BY <1>2
  <2> HIDE DEF f, l, g
  <2>4. g > 1 /\ l # g - 1 /\ g - 1 \in 1..Len(grid) /\ f < g - 1
    <3>1. g > 1 /\ g - 1 \in 1..Len(grid)
      BY <2>1, <2>2
    <3>2. l # g - 1
      BY <2>1, <3>1
    <3>3. QED  BY <2>1, <2>2, <3>1, <3>2
  <2>5. grid[f] < grid[g - 1]
    BY <2>1, <2>4 DEF Ascends
  <2>6. grid[f] \in Int /\ grid[g - 1] \in Int
    BY <2>1, <2>4
  <2>7. QED  BY <2>3, <2>4, <2>5, <2>6
<1>4. QED  BY <1>2, <1>3

\* An island gives a patch or none.
LEMMA MeasuredIs ==
  ASSUME NEW m, NEW e, NEW grid, NEW gap, NEW island,
         NEW x \in Geometry!Measured(m, e, grid, gap, island)
  PROVE  /\ x.left = LeftOf(grid, gap, island)
         /\ Geometry!Measured(m, e, grid, gap, island) = {x}
<1>1. PICK right, depth, at, area :
        x = [left |-> LeftOf(grid, gap, island), right |-> right, depth |-> depth, at |-> at,
             area |-> area]
        /\ Geometry!Measured(m, e, grid, gap, island) = {x}
  <2> DEFINE R == Geometry!Measured(m, e, grid, gap, island)
  <2>1. R = {} \/ \E right, depth, at, area :
           R = {[left |-> LeftOf(grid, gap, island), right |-> right, depth |-> depth, at |-> at,
                 area |-> area]}
    BY DEF Geometry!Measured, LeftOf
  <2> HIDE DEF R
  <2>2. x \in R
    BY DEF R
  <2>3. \E right, depth, at, area :
           R = {[left |-> LeftOf(grid, gap, island), right |-> right, depth |-> depth, at |-> at,
                 area |-> area]}
    BY <2>1, <2>2
  <2>4. QED  BY <2>2, <2>3 DEF R
<1>2. QED  BY <1>1

\* What is in order stays as it is.
LEMMA SortedIs ==
  ASSUME NEW S, NEW found \in Seq(S), \A x \in S : x.left \in Int,
         \A i, j \in 1..Len(found) : i < j => found[i].left < found[j].left
  PROVE  Geometry!Sorted(found) = found
<1> DEFINE n == Len(found)
           Orders(p) == /\ \A i, j \in 1..n : p[i] = p[j] => i = j
                        /\ \A i, j \in 1..n : i < j => found[p[i]].left <= found[p[j]].left
           id == [i \in 1..n |-> i]
           p == CHOOSE p \in [1..n -> 1..n] : Orders(p)
<1>1. n \in Nat /\ \A i \in 1..n : found[i].left \in Int
  OBVIOUS
<1>2. id \in [1..n -> 1..n] /\ Orders(id)
  <2>1. \A i, j \in 1..n : i < j => found[i].left <= found[j].left
    BY <1>1
  <2>2. QED  BY <2>1
<1>3. p \in [1..n -> 1..n] /\ Orders(p)
  <2> HIDE DEF id, Orders
  <2>1. QED  BY <1>2
<1>4. Geometry!Sorted(found) = [i \in 1..n |-> found[p[i]]]
  BY DEF Geometry!Sorted
<1> HIDE DEF p
<1>5. ASSUME NEW i \in 1..n, NEW j \in 1..n, i < j  PROVE p[i] < p[j]
  <2>1. p[i] \in 1..n /\ p[j] \in 1..n /\ p[i] # p[j]
    BY <1>3, <1>5
  <2>2. found[p[i]].left <= found[p[j]].left
    BY <1>3, <1>5
  <2>3. ~ (p[j] < p[i])
    <3>1. p[j] < p[i] => found[p[j]].left < found[p[i]].left
      BY <2>1
    <3>2. QED  BY <1>1, <2>1, <2>2, <3>1
  <2>4. QED  BY <1>1, <2>1, <2>3
<1>6. p \in Seq(Int) /\ Len(p) = n /\ Ascends(p)
  <2>1. p \in [1..n -> Int] /\ DOMAIN p = 1..n
    BY <1>1, <1>3
  <2>2. p \in Seq(Int) /\ Len(p) = n
    BY <1>1, <2>1
  <2>3. QED  BY <1>5, <2>2 DEF Ascends
<1>7. id \in Seq(Int) /\ Len(id) = n /\ Ascends(id)
  BY <1>1 DEF Ascends
<1>8. Members(id) = 1..n
  <2>1. \A i \in 1..n : id[i] = i
    OBVIOUS
  <2> HIDE DEF id, n
  <2>2. QED  BY <1>7, <2>1 DEF Members
<1>9. Members(p) = 1..n
  <2>1. Members(p) \in SUBSET (1..n)
    BY <1>3, <1>6 DEF Members
  <2>2. IsFiniteSet(1..n) /\ Cardinality(1..n) = n
    <3>1. n \in Nat /\ n \in Int /\ 1 \in Int
      BY <1>1
    <3> HIDE DEF n
    <3>2. IsFiniteSet(1..n) /\ Cardinality(1..n) = IF 1 > n THEN 0 ELSE n - 1 + 1
      BY <3>1, FS_Interval
    <3>3. QED  BY <3>1, <3>2
  <2>3. Cardinality(Members(p)) = n
    BY <1>6, AscendingIs
  <2>4. QED  BY <2>1, <2>2, <2>3, FS_Subset
<1>10. p = id
  <2>1. p = Geometry!Ascending(Members(p))
    BY <1>6, AscendingIs
  <2>2. id = Geometry!Ascending(Members(id))
    <3> HIDE DEF id
    <3>1. QED  BY <1>7, AscendingIs
  <2>3. QED  BY <1>8, <1>9, <2>1, <2>2
<1>11. [i \in 1..n |-> found[p[i]]] = [i \in 1..n |-> found[i]]
  BY <1>10
<1>12. found = [i \in 1..n |-> found[i]]
  OBVIOUS
<1>13. QED  BY <1>4, <1>11, <1>12

\* What is measured on the first k islands.
FirstMeasured(m, e, grid, gap, joined, k) ==
  UNION {Geometry!Measured(m, e, grid, gap, joined[c]) : c \in 1..k}

Lefts(S) == [x \in S |-> x.left]

Pick(S) == CHOOSE x \in S : TRUE

\* One more island, one more patch, if it measures any and there is room.
LEMMA PatchIsKept ==
  ASSUME NEW m, NEW e, NEW grid, NEW gap, NEW joined, NEW n \in Nat, NEW k \in 1..n,
         \A c \in 1..n : LeftOf(grid, gap, joined[c]) \in Int,
         \A c, d \in 1..n : c < d => LeftOf(grid, gap, joined[c]) < LeftOf(grid, gap, joined[d]),
         NEW D, D = FirstMeasured(m, e, grid, gap, joined, n),
         NEW found, Kept(found, FirstMeasured(m, e, grid, gap, joined, k - 1), MaxPatches, Lefts(D)),
         NEW M, M = Geometry!Measured(m, e, grid, gap, joined[k])
  PROVE  Kept(IF Len(found) = MaxPatches \/ M = {} THEN found ELSE Append(found, Pick(M)),
              FirstMeasured(m, e, grid, gap, joined, k), MaxPatches, Lefts(D))
<1> DEFINE before == FirstMeasured(m, e, grid, gap, joined, k - 1)
           key == Lefts(D)
<1>1. FirstMeasured(m, e, grid, gap, joined, k) = before \cup M
  <2>1. 1..k = 1..(k - 1) \cup {k}
    OBVIOUS
  <2>2. QED  BY <2>1 DEF FirstMeasured
<1>2. CASE M = {}
  BY <1>1, <1>2
<1>3. CASE M # {}
  <2> DEFINE x == Pick(M)
  <2>1. x \in M
    BY <1>3 DEF Pick
  <2>2. M = {x} /\ x.left = LeftOf(grid, gap, joined[k])
    <3> HIDE DEF x
    <3>1. QED  BY <2>1, MeasuredIs
  <2>3. ASSUME NEW c \in 1..n, NEW y \in Geometry!Measured(m, e, grid, gap, joined[c])
        PROVE  y \in D /\ y.left = LeftOf(grid, gap, joined[c]) /\ y.left \in Int
    <3>1. y.left = LeftOf(grid, gap, joined[c])
      BY MeasuredIs
    <3>2. QED  BY <3>1 DEF FirstMeasured
  <2>4. before \subseteq D
    <3>1. 1..(k - 1) \subseteq 1..n
      OBVIOUS
    <3>2. QED  BY <3>1 DEF FirstMeasured
  <2>5. key \in [D -> Int]
    <3>1. ASSUME NEW y \in D  PROVE y.left \in Int
      <4>1. PICK c \in 1..n : y \in Geometry!Measured(m, e, grid, gap, joined[c])
        BY DEF FirstMeasured
      <4>2. QED  BY <2>3, <4>1
    <3>2. QED  BY <3>1 DEF Lefts
  <2>6. x \in D
    BY <2>1, <2>3
  <2>7. ASSUME NEW y \in before  PROVE key[y] < key[x]
    <3>1. PICK c \in 1..(k - 1) : y \in Geometry!Measured(m, e, grid, gap, joined[c])
      BY DEF FirstMeasured
    <3>2. c \in 1..n /\ c < k
      BY <3>1
    <3>3. y \in D /\ y.left = LeftOf(grid, gap, joined[c])
      BY <2>3, <3>1, <3>2
    <3>4. LeftOf(grid, gap, joined[c]) < LeftOf(grid, gap, joined[k])
      BY <3>2
    <3>5. key[y] = y.left /\ key[x] = x.left
      BY <2>6, <3>3 DEF Lefts
    <3> HIDE DEF x, key
    <3>6. QED  BY <2>2, <3>3, <3>4, <3>5
  <2>8. MaxPatches \in Nat
    BY GeometryNumbers
  <2> HIDE DEF x, key, before
  <2>9. Kept(IF Len(found) < MaxPatches THEN Append(found, x) ELSE found, before \cup {x}, MaxPatches, key)
    <3>1. Kept(found, before, MaxPatches, key)
      BY DEF before, key
    <3>2. QED  BY <2>4, <2>5, <2>6, <2>7, <2>8, <3>1, KeptMore
  <2>10. Len(found) = MaxPatches <=> ~ (Len(found) < MaxPatches)
    <3>1. Len(found) \in Nat /\ Len(found) <= MaxPatches
      BY DEF Kept
    <3>2. QED  BY <2>8, <3>1
  <2>11. QED  BY <1>1, <1>3, <2>2, <2>9, <2>10 DEF x, key, before
<1>4. QED  BY <1>2, <1>3

\* The loop over the islands keeps the first patches of those there are.
LEMMA PatchesAreKept ==
  ASSUME NEW m, NEW e, NEW grid, NEW gap, NEW joined, Len(joined) \in Nat,
         \A c \in 1..Len(joined) : LeftOf(grid, gap, joined[c]) \in Int,
         \A c, d \in 1..Len(joined) :
           c < d => LeftOf(grid, gap, joined[c]) < LeftOf(grid, gap, joined[d])
  PROVE  LET D == FirstMeasured(m, e, grid, gap, joined, Len(joined))
         IN  \E found : /\ Kept(found, D, MaxPatches, Lefts(D))
                        /\ Geometry!Patches(m, e, grid, gap, joined) = Geometry!Sorted(found)
<1> DEFINE n == Len(joined)
           D == FirstMeasured(m, e, grid, gap, joined, n)
           All(i) == FirstMeasured(m, e, grid, gap, joined, i)
           Of(k) == Geometry!Measured(m, e, grid, gap, joined[k])
           Next1(k, s) == IF Len(s) = MaxPatches \/ Of(k) = {} THEN s ELSE Append(s, Pick(Of(k)))
           T == [i \in 0..n |-> {s \in Seq(D) : Kept(s, All(i), MaxPatches, Lefts(D))}]
           F == [i \in 1..n |-> [s \in T[i - 1] |-> Next1(i, s)]]
           Body(f) == [k \in 0..n |-> IF k = 0 THEN <<>> ELSE Next1(k, f[k - 1])]
           so == CHOOSE f : f = Body(f)
<1>1. n \in Nat
  OBVIOUS
<1>2. \A i \in 0..n : All(i) \subseteq D
  <2>1. \A i \in 0..n : 1..i \subseteq 1..n
    OBVIOUS
  <2>2. QED  BY <2>1 DEF FirstMeasured
<1>3. <<>> \in T[0]
  <2>1. 0 \in 0..n /\ MaxPatches \in Nat
    BY <1>1, GeometryNumbers
  <2>2. All(0) = {}
    BY DEF FirstMeasured
  <2>3. Kept(<<>>, All(0), MaxPatches, Lefts(D))
    <3>1. <<>> \in Seq({}) /\ Len(<<>>) = 0
      BY EmptySeq
    <3> HIDE DEF All, D
    <3>2. QED  BY <2>1, <2>2, <3>1 DEF Kept
  <2>4. QED  BY <2>1, <2>3
<1>4. ASSUME NEW i \in 1..n, NEW s \in T[i - 1]  PROVE Next1(i, s) \in T[i]
  <2>1. i \in 0..n /\ i - 1 \in 0..n
    BY <1>1
  <2>2. Kept(s, All(i - 1), MaxPatches, Lefts(D))
    BY <2>1
  <2>3. Kept(Next1(i, s), All(i), MaxPatches, Lefts(D))
    <3> DEFINE M == Of(i)
    <3>1. D = FirstMeasured(m, e, grid, gap, joined, n) /\ M = Geometry!Measured(m, e, grid, gap, joined[i])
      OBVIOUS
    <3> HIDE DEF D, M
    <3>2. Kept(IF Len(s) = MaxPatches \/ M = {} THEN s ELSE Append(s, Pick(M)),
               FirstMeasured(m, e, grid, gap, joined, i), MaxPatches, Lefts(D))
      BY <1>1, <2>2, <3>1, PatchIsKept
    <3>3. QED  BY <3>2 DEF M
  <2> HIDE DEF Next1
  <2>4. Next1(i, s) \in Seq(D)
    <3>1. Next1(i, s) \in Seq(All(i)) /\ All(i) \subseteq D
      BY <1>2, <2>1, <2>3 DEF Kept
    <3> HIDE DEF All, D
    <3>2. QED  BY <3>1, SeqMonotonic
  <2> HIDE DEF All, D
  <2>5. QED  BY <2>1, <2>3, <2>4
<1> HIDE DEF Next1, Of
<1>5. \E f : f = Body(f)
  <2>1. \A i \in 1..n : \A s \in T[i - 1] : F[i][s] \in T[i]
    BY <1>4
  <2>2. PICK f : IsLoop(f, n, <<>>, F) /\ \A i \in 0..n : f[i] \in T[i]
    <3> DEFINE x == <<>>
    <3>1. x \in T[0]
      BY <1>3
    <3> HIDE DEF T, F, n, x
    <3>2. \E f : IsLoop(f, n, x, F) /\ \A i \in 0..n : f[i] \in T[i]
      BY <1>1, <2>1, <3>1, LoopExists
    <3>3. QED  BY <3>2 DEF x
  <2>3. ASSUME NEW i \in 0..n
        PROVE  (IF i = 0 THEN <<>> ELSE F[i][f[i - 1]]) = IF i = 0 THEN <<>> ELSE Next1(i, f[i - 1])
    <3> SUFFICES ASSUME i # 0  PROVE F[i][f[i - 1]] = Next1(i, f[i - 1])
      OBVIOUS
    <3>1. i \in 1..n /\ i - 1 \in 0..n
      BY <1>1
    <3>2. f[i - 1] \in T[i - 1]
      BY <2>2, <3>1
    <3> HIDE DEF T
    <3>3. QED  BY <3>1, <3>2
  <2> HIDE DEF F, T
  <2>4. [i \in 0..n |-> IF i = 0 THEN <<>> ELSE F[i][f[i - 1]]] = Body(f)
    BY <2>3
  <2>5. QED  BY <2>2, <2>4 DEF IsLoop
<1>6. so = Body(so)
  BY <1>5
<1>7. Geometry!Patches(m, e, grid, gap, joined) = Geometry!Sorted(so[n])
  BY DEF Geometry!Patches, Next1, Of, Pick
<1> HIDE DEF so
<1>8. so[0] = <<>>
  BY <1>1, <1>6
<1>9. ASSUME NEW i \in 1..n, so[i - 1] \in T[i - 1]  PROVE so[i] \in T[i]
  <2>1. i \in 0..n /\ i # 0
    BY <1>1
  <2>2. so[i] = Next1(i, so[i - 1])
    BY <1>6, <2>1
  <2> HIDE DEF T
  <2>3. QED  BY <1>4, <1>9, <2>2
<1>10. \A i \in 0..n : so[i] \in T[i]
  <2>1. so[0] \in T[0]
    BY <1>3, <1>8
  <2> HIDE DEF T, n
  <2>2. QED  BY <1>1, <1>9, <2>1, LoopKeeps
<1>11. Kept(so[n], D, MaxPatches, Lefts(D))
  <2>1. n \in 0..n
    BY <1>1
  <2>2. so[n] \in T[n]
    BY <1>10, <2>1
  <2>3. T[n] = {s \in Seq(D) : Kept(s, D, MaxPatches, Lefts(D))}
    BY <2>1
  <2> HIDE DEF T, D
  <2>4. QED  BY <2>2, <2>3
<1>12. QED  BY <1>7, <1>11

\* They are finitely many, each by where it begins.
LEMMA MeasuredApart ==
  ASSUME NEW m, NEW e, NEW grid, NEW gap, NEW joined, NEW n \in Nat,
         \A c \in 1..n : LeftOf(grid, gap, joined[c]) \in Int,
         \A c, d \in 1..n : c < d => LeftOf(grid, gap, joined[c]) < LeftOf(grid, gap, joined[d])
  PROVE  LET D == FirstMeasured(m, e, grid, gap, joined, n)
         IN  /\ IsFiniteSet(D) /\ \A x \in D : x.left \in Int
             /\ \A x, y \in D : x.left = y.left => x = y
<1> DEFINE Of(k) == Geometry!Measured(m, e, grid, gap, joined[k])
           D == FirstMeasured(m, e, grid, gap, joined, n)
           f == [k \in 1..n |-> Pick(Of(k))]
           S == {f[k] : k \in 1..n}
<1>1. ASSUME NEW x \in D
      PROVE  \E c \in 1..n : x.left = LeftOf(grid, gap, joined[c]) /\ Of(c) = {x}
  <2>1. PICK c \in 1..n : x \in Of(c)
    BY DEF FirstMeasured
  <2>2. QED  BY <2>1, MeasuredIs
<1>2. IsFiniteSet(S)
  <2>1. IsFiniteSet(1..n)
    BY FS_Interval
  <2>2. f \in Surjection(1..n, S)
    BY DEF Surjection
  <2> HIDE DEF f, S
  <2>3. QED  BY <2>1, <2>2, FS_Surjection
<1>3. D \in SUBSET S
  <2>1. SUFFICES ASSUME NEW x \in D  PROVE x \in S
    OBVIOUS
  <2>2. PICK c \in 1..n : Of(c) = {x}
    BY <1>1
  <2>3. f[c] = x
    BY <2>2 DEF Pick
  <2> HIDE DEF f
  <2>4. QED  BY <2>3
<1>4. IsFiniteSet(D)
  <2> HIDE DEF S, D
  <2>1. QED  BY <1>2, <1>3, FS_Subset
<1>5. ASSUME NEW x \in D, NEW y \in D, x.left = y.left  PROVE x = y
  <2>1. PICK c \in 1..n : x.left = LeftOf(grid, gap, joined[c]) /\ Of(c) = {x}
    BY <1>1
  <2>2. PICK d \in 1..n : y.left = LeftOf(grid, gap, joined[d]) /\ Of(d) = {y}
    BY <1>1
  <2>3. x.left \in Int /\ y.left \in Int
    BY <2>1, <2>2
  <2>4. ~ (c < d) /\ ~ (d < c)
    <3>1. c < d => x.left < y.left
      BY <2>1, <2>2
    <3>2. d < c => y.left < x.left
      BY <2>1, <2>2
    <3>3. QED  BY <1>5, <2>3, <3>1, <3>2
  <2>5. c = d
    BY <2>4
  <2>6. QED  BY <2>1, <2>2, <2>5
<1>6. \A x \in D : x.left \in Int
  BY <1>1
<1>7. QED  BY <1>4, <1>5, <1>6

\* What is kept of the patches is what the pose is to give.
LEMMA FirstPatches ==
  ASSUME NEW D, IsFiniteSet(D), \A x \in D : x.left \in Int,
         \A x, y \in D : x.left = y.left => x = y,
         NEW found, Kept(found, D, MaxPatches, Lefts(D))
  PROVE  LET lefts == Geometry!Ascending({x.left : x \in D})
         IN  /\ Geometry!Sorted(found) = found
             /\ found = [k \in 1..Geometry!Min({Len(lefts), MaxPatches}) |->
                           CHOOSE x \in D : x.left = lefts[k]]
<1> DEFINE L == {x.left : x \in D}
           lefts == Geometry!Ascending(L)
           n == Len(found)
           mine == [k \in 1..n |-> found[k].left]
           same == [y \in L |-> y]
           most == Geometry!Min({Len(lefts), MaxPatches})
<1>1. /\ found \in Seq(D) /\ n \in Nat /\ n <= MaxPatches /\ MaxPatches \in Nat
      /\ \A k \in 1..n : found[k] \in D /\ found[k].left \in L /\ found[k].left \in Int
  <2>1. found \in Seq(D) /\ n <= MaxPatches /\ MaxPatches \in Nat
    BY GeometryNumbers DEF Kept
  <2>2. n \in Nat /\ \A k \in 1..n : found[k] \in D
    BY <2>1
  <2>3. QED  BY <2>1, <2>2
<1>2. \A i, j \in 1..n : i < j => found[i].left < found[j].left
  <2>1. \A i \in 1..n : Lefts(D)[found[i]] = found[i].left
    BY <1>1 DEF Lefts
  <2>2. \A i, j \in 1..n : i < j => Lefts(D)[found[i]] < Lefts(D)[found[j]]
    BY DEF Kept
  <2>3. QED  BY <2>1, <2>2
<1>3. Geometry!Sorted(found) = found
  BY <1>1, <1>2, SortedIs
<1>4. L \subseteq Int /\ IsFiniteSet(L)
  <2>1. Lefts(D) \in Surjection(D, L)
    BY DEF Lefts, Surjection
  <2> HIDE DEF L
  <2>2. IsFiniteSet(L)
    BY <2>1, FS_Surjection
  <2>3. L \subseteq Int
    BY DEF L
  <2>4. QED  BY <2>2, <2>3
<1>5. mine \in Seq(L) /\ Len(mine) = n /\ \A k \in 1..n : mine[k] = found[k].left
  <2>1. mine \in [1..n -> L]
    BY <1>1
  <2> HIDE DEF L
  <2>2. QED  BY <1>1, <2>1
<1> HIDE DEF mine
<1>6. Kept(mine, L, MaxPatches, same)
  <2>1. \A k \in 1..n : same[mine[k]] = found[k].left
    BY <1>1, <1>5
  <2>2. \A y \in L : \/ y \in Members(mine)
                     \/ n = MaxPatches /\ \A i \in 1..n : same[mine[i]] < same[y]
    <3>1. SUFFICES ASSUME NEW x \in D
                   PROVE  \/ x.left \in Members(mine)
                          \/ n = MaxPatches /\ \A i \in 1..n : same[mine[i]] < same[x.left]
      OBVIOUS
    <3>2. CASE x \in Members(found)
      <4>1. PICK k \in 1..n : x = found[k]
        BY <3>2 DEF Members
      <4>2. x.left = mine[k] /\ k \in 1..Len(mine)
        BY <1>5, <4>1
      <4>3. QED  BY <4>2 DEF Members
    <3>3. CASE ~ (x \in Members(found))
      <4>1. n = MaxPatches /\ \A i \in 1..n : Lefts(D)[found[i]] < Lefts(D)[x]
        BY <3>3 DEF Kept
      <4>2. \A i \in 1..n : Lefts(D)[found[i]] = found[i].left
        BY <1>1 DEF Lefts
      <4>3. Lefts(D)[x] = x.left /\ same[x.left] = x.left
        BY DEF Lefts
      <4> HIDE DEF same
      <4>4. QED  BY <2>1, <4>1, <4>2, <4>3
    <3>4. QED  BY <3>2, <3>3
  <2> HIDE DEF L, same, n
  <2>3. \A i, j \in 1..n : i < j => same[mine[i]] < same[mine[j]]
    BY <1>2, <2>1
  <2>4. QED  BY <1>1, <1>5, <2>2, <2>3 DEF Kept
<1>7. /\ Cardinality(Members(mine)) = n /\ Members(mine) \subseteq L
      /\ \A k \in 1..n : Rank(L, mine[k]) = k
      /\ \A y \in L \ Members(mine) : n = MaxPatches
  <2>1. \A y \in L : same[y] \in Int
    BY <1>4
  <2>2. \A y \in L : {z \in L : same[z] <= same[y]} = {z \in L : z <= y}
    OBVIOUS
  <2>3. \A k \in 1..n : mine[k] \in L
    BY <1>1, <1>5
  <2> HIDE DEF L, same, n
  <2>4. /\ Cardinality(Members(mine)) = Len(mine) /\ Members(mine) \subseteq L
        /\ \A k \in 1..Len(mine) : Cardinality({y \in L : same[y] <= same[mine[k]]}) = k
        /\ \A x \in L \ Members(mine) : Len(mine) = MaxPatches
    <3>1. IsFiniteSet(L) /\ MaxPatches \in Nat
      BY <1>1, <1>4
    <3>2. Cardinality(Members(mine)) = Len(mine) /\ Members(mine) \subseteq L
      BY <1>6, <2>1, <3>1, KeptCounts
    <3>3. \A k \in 1..Len(mine) : Cardinality({y \in L : same[y] <= same[mine[k]]}) = k
      BY <1>6, <2>1, <3>1, KeptCounts
    <3>4. \A x \in L \ Members(mine) : Len(mine) = MaxPatches
      BY <1>6 DEF Kept
    <3>5. QED  BY <3>2, <3>3, <3>4
  <2>5. QED  BY <1>5, <2>2, <2>3, <2>4 DEF Rank
<1>8. /\ Len(lefts) = Cardinality(L) /\ Len(lefts) \in Nat
      /\ \A k \in 1..Len(lefts) : lefts[k] \in L /\ Rank(L, lefts[k]) = k
  <2> HIDE DEF L
  <2>1. /\ lefts \in Seq(L) /\ Len(lefts) = Cardinality(L)
        /\ \A k \in 1..Len(lefts) : Rank(L, lefts[k]) = k
    BY <1>4, AscendingLists
  <2> HIDE DEF lefts
  <2>2. Len(lefts) \in Nat /\ \A k \in 1..Len(lefts) : lefts[k] \in L
    BY <2>1
  <2>3. QED  BY <2>1, <2>2
<1> HIDE DEF L, lefts
<1>9. n <= Len(lefts) /\ (n = MaxPatches \/ n = Len(lefts))
  <2>1. n <= Len(lefts)
    BY <1>4, <1>7, <1>8, FS_Subset
  <2>2. n = MaxPatches \/ L = Members(mine)
    BY <1>7
  <2>3. L = Members(mine) => n = Len(lefts)
    BY <1>7, <1>8
  <2>4. QED  BY <2>1, <2>2, <2>3
<1>10. most = n
  <2>1. most = IF Len(lefts) <= MaxPatches THEN Len(lefts) ELSE MaxPatches
    BY <1>1, <1>8, OfTwo
  <2> HIDE DEF most, n
  <2>2. QED  BY <1>1, <1>8, <1>9, <2>1
<1>11. ASSUME NEW k \in 1..n  PROVE found[k] = CHOOSE x \in D : x.left = lefts[k]
  <2>1. k \in 1..Len(lefts)
    BY <1>1, <1>8, <1>9
  <2>2. mine[k] \in L /\ lefts[k] \in L /\ Rank(L, mine[k]) = Rank(L, lefts[k])
    <3>1. mine[k] \in L
      BY <1>1, <1>5
    <3>2. lefts[k] \in L /\ Rank(L, lefts[k]) = k
      BY <1>8, <2>1
    <3>3. QED  BY <1>7, <3>1, <3>2
  <2>3. mine[k] = lefts[k]
    BY <1>4, <2>2, RanksDiffer
  <2>4. found[k] \in D /\ found[k].left = lefts[k]
    BY <1>1, <1>5, <2>3
  <2>5. \A x \in D : x.left = lefts[k] => x = found[k]
    BY <2>4
  <2>6. QED  BY <2>4, <2>5
<1>12. found = [k \in 1..n |-> found[k]]
  BY <1>1
<1>13. [k \in 1..n |-> found[k]] = [k \in 1..n |-> CHOOSE x \in D : x.left = lefts[k]]
  BY <1>11
<1>14. found = [k \in 1..most |-> CHOOSE x \in D : x.left = lefts[k]]
  <2> HIDE DEF most
  <2>1. QED  BY <1>10, <1>12, <1>13
<1>15. QED  BY <1>3, <1>14 DEF L, lefts

\* Of the patches there are, the first, by where they begin.
FirstFrom(all) ==
  LET lefts == Geometry!Ascending({x.left : x \in all})
  IN  [k \in 1..Geometry!Min({Len(lefts), MaxPatches}) |-> CHOOSE x \in all : x.left = lefts[k]]

MeasuredOn(m, e, grid, gap, islands) ==
  UNION {Geometry!Measured(m, e, grid, gap, r) : r \in islands}

\* What is made of the gap over a grid is what was promised of it.
LEMMA PatchesArePromised ==
  ASSUME NEW m, NEW e, NEW grid \in Seq(Int), Ascends(grid), NEW gap \in Seq(Int),
         Len(gap) = Len(grid)
  PROVE  LET islands == Geometry!Islands(gap)
             joined  == Geometry!Joined(gap, islands)
             runs    == Geometry!FirstOf(Geometry!TrueRuns(gap), MaxIslands)
             whole   == Geometry!TrueJoined(gap, runs)
             all     == MeasuredOn(m, e, grid, gap, whole)
         IN  /\ islands = <<>> <=> runs = {}
             /\ islands # <<>> =>
                  /\ Len(islands) = Geometry!Cardinality(runs)
                  /\ Len(joined) = Geometry!Cardinality(whole)
                  /\ Geometry!Patches(m, e, grid, gap, joined) = FirstFrom(all)
<1> DEFINE islands == Geometry!Islands(gap)
           joined  == Geometry!Joined(gap, islands)
           runs    == Geometry!FirstOf(Geometry!TrueRuns(gap), MaxIslands)
           whole   == Geometry!TrueJoined(gap, runs)
           all     == MeasuredOn(m, e, grid, gap, whole)
           n       == Len(joined)
<1>1. /\ islands \in Seq(Nat \X Nat) /\ Members(islands) = runs
      /\ Geometry!Cardinality(runs) = Len(islands)
      /\ islands \in RunLists(gap)
  <2>1. /\ islands \in Seq(Nat \X Nat) /\ Members(islands) = runs
        /\ Geometry!Cardinality(runs) = Len(islands)
        /\ \A i \in 1..Len(islands) : islands[i] \in Geometry!TrueRuns(gap)
        /\ \A i, j \in 1..Len(islands) : i < j => islands[i][1] < islands[j][1]
    BY FirstRuns
  <2> HIDE DEF islands, runs
  <2>2. QED  BY <2>1 DEF RunLists
<1>2. islands = <<>> <=> runs = {}
  <2> HIDE DEF islands, runs
  <2>1. islands = <<>> => runs = {}
    BY <1>1 DEF Members
  <2>2. islands # <<>> => islands[1] \in runs
    <3>1. islands # <<>> => 1 \in 1..Len(islands)
      BY <1>1
    <3>2. QED  BY <1>1, <3>1 DEF Members
  <2>3. QED  BY <2>1, <2>2
<1>3. SUFFICES ASSUME islands # <<>>
               PROVE  /\ Len(islands) = Geometry!Cardinality(runs)
                      /\ n = Geometry!Cardinality(whole)
                      /\ Geometry!Patches(m, e, grid, gap, joined) = FirstFrom(all)
  BY <1>2
<1>4. Len(islands) # 0
  <2> HIDE DEF islands
  <2>1. QED  BY <1>1, <1>3
<1>5. joined \in JoinedSoFar(gap, islands, Len(islands))
  <2> HIDE DEF islands
  <2>1. QED  BY <1>1, <1>4, JoinedRuns
<1> HIDE DEF islands, runs
<1>6. Members(joined) = whole /\ Cardinality(Members(joined)) = n /\ n \in Nat
  <2>1. joined \in Seq(Nat \X Nat)
    BY <1>5 DEF JoinedSoFar
  <2> HIDE DEF joined
  <2>2. Members(joined) = Geometry!TrueJoined(gap, Members(islands)) /\ Cardinality(Members(joined)) = n
    BY <1>1, <1>4, <1>5, JoinedTogether
  <2>3. QED  BY <1>1, <2>1, <2>2
<1> HIDE DEF joined, whole
<1>7. /\ \A c \in 1..n : LeftOf(grid, gap, joined[c]) \in Int
      /\ \A c, d \in 1..n : c < d => LeftOf(grid, gap, joined[c]) < LeftOf(grid, gap, joined[d])
  BY <1>1, <1>5, LeftsAscend
<1>8. all = FirstMeasured(m, e, grid, gap, joined, n)
  <2>1. \A r : r \in whole <=> \E c \in 1..n : r = joined[c]
    BY <1>6, Zenon DEF Members
  <2>2. \A x : x \in all <=> \E r \in whole : x \in Geometry!Measured(m, e, grid, gap, r)
    BY Zenon DEF MeasuredOn
  <2>3. \A x : x \in FirstMeasured(m, e, grid, gap, joined, n)
                 <=> \E c \in 1..n : x \in Geometry!Measured(m, e, grid, gap, joined[c])
    BY Zenon DEF FirstMeasured
  <2> HIDE DEF n, all
  <2>4. QED  BY <2>1, <2>2, <2>3, Zenon
<1> HIDE DEF all
<1>9. PICK found : /\ Kept(found, all, MaxPatches, Lefts(all))
                   /\ Geometry!Patches(m, e, grid, gap, joined) = Geometry!Sorted(found)
  BY <1>6, <1>7, <1>8, PatchesAreKept
<1>10. /\ IsFiniteSet(all) /\ \A x \in all : x.left \in Int
       /\ \A x, y \in all : x.left = y.left => x = y
  BY <1>6, <1>7, <1>8, MeasuredApart
<1>11. Geometry!Sorted(found) = found /\ found = FirstFrom(all)
  BY <1>9, <1>10, FirstPatches DEF FirstFrom
<1>12. n = Geometry!Cardinality(whole)
  BY <1>6, CountsAlike
<1>13. QED  BY <1>1, <1>9, <1>11, <1>12 DEF all, whole, n, joined, runs, islands

\* The patches of the true envelope are those promised of the pose.
LEMMA ResolvedIsPromised ==
  ASSUME NEW m \in Model, NEW p, outline[m][p] \in Projections(m),
         Geometry!Valid(outline[m][p]) # {}
  PROVE  Geometry!Resolved(m, Geometry!TrueEnvelope(m, outline[m][p])) = Geometry!Promised(m, p)
<1> DEFINE o == outline[m][p]
           e == Geometry!TrueEnvelope(m, o)
           overlap == Geometry!Overlap(m, e)
           nodes == ({e[k].at : k \in DOMAIN e} \cup RailNodes[m]) \cap overlap
           grid == Geometry!Grid(m, e)
           gap == [k \in DOMAIN grid |-> Geometry!Gap(m, e, grid[k])]
           Few == Len(e) < 3 \/ Geometry!Cardinality(overlap) < 2
           Body(g) ==
             LET gp == [k \in DOMAIN g |-> Geometry!Gap(m, e, g[k])]
                 runs == Geometry!FirstOf(Geometry!TrueRuns(gp), MaxIslands)
                 whole == Geometry!TrueJoined(gp, runs)
                 all == MeasuredOn(m, e, g, gp, whole)
             IN  IF Few \/ Len(g) < 3 \/ runs = {} THEN Geometry!NoPatches
                 ELSE [islands |-> Geometry!Cardinality(runs), merged |-> Geometry!Cardinality(whole),
                       patches |-> FirstFrom(all)]
           Mine == IF Few \/ Len(grid) < 3 \/ Geometry!Islands(gap) = <<>> THEN Geometry!NoPatches
                   ELSE [islands |-> Len(Geometry!Islands(gap)),
                         merged |-> Len(Geometry!Joined(gap, Geometry!Islands(gap))),
                         patches |-> Geometry!Patches(m, e, grid, gap,
                                                      Geometry!Joined(gap, Geometry!Islands(gap)))]
<1>1. Geometry!Promised(m, p) = Body(Geometry!Ascending(nodes))
  BY Zenon DEF Geometry!Promised, Geometry!PatchesOf, FirstFrom, MeasuredOn
<1>2. Geometry!Resolved(m, e) = Mine
  BY DEF Geometry!Resolved
<1>3. e \in Envelopes
  <2>1. o \in Projections(m) /\ Geometry!Valid(o) # {}
    OBVIOUS
  <2> HIDE DEF o
  <2>2. QED  BY <2>1, TrueEnvelopeAscends
<1> HIDE DEF e
<1>4. CASE Few
  <2>1. Body(Geometry!Ascending(nodes)) = Geometry!NoPatches /\ Mine = Geometry!NoPatches
    BY <1>4
  <2> HIDE DEF Body, Mine
  <2>2. QED  BY <1>1, <1>2, <2>1 DEF e, o
<1>5. CASE ~ Few
  <2>1. Len(e) \in Nat /\ Len(e) >= 3
    <3>1. e \in Seq(Sample)
      BY <1>3 DEF Envelopes
    <3>2. Len(e) \in Nat
      BY <3>1
    <3>3. QED  BY <1>5, <3>2
  <2>2. overlap # {}
    <3>1. Geometry!Cardinality({}) = 0
      BY CountsAlike, FS_EmptySet
    <3>2. ~ (Geometry!Cardinality(overlap) < 2)
      BY <1>5
    <3> HIDE DEF overlap
    <3>3. QED  BY <3>1, <3>2
  <2>3. /\ grid = Geometry!Ascending(nodes) /\ grid \in Seq(Int) /\ Ascends(grid)
        /\ Members(grid) = nodes
    <3>1. Len(e) >= 1
      BY <2>1
    <3>2. QED  BY <1>3, <2>2, <3>1, GridIs
  <2> HIDE DEF grid
  <2>4. gap \in Seq(Int) /\ Len(gap) = Len(grid)
    <3>1. DOMAIN grid = 1..Len(grid) /\ Len(grid) \in Nat
      BY <2>3
    <3>2. ASSUME NEW k \in 1..Len(grid)  PROVE Geometry!Gap(m, e, grid[k]) \in Int
      <4>1. grid[k] \in overlap
        BY <2>3 DEF Members
      <4>2. QED  BY <1>3, <2>1, <4>1, GapIsNumber
    <3>3. gap \in [1..Len(grid) -> Int]
      BY <3>1, <3>2
    <3> HIDE DEF gap
    <3>4. QED  BY <3>1, <3>3
  <2>5. Body(grid) = Mine
    <3> HIDE DEF gap
    <3> DEFINE islands == Geometry!Islands(gap)
               joined  == Geometry!Joined(gap, islands)
               runs    == Geometry!FirstOf(Geometry!TrueRuns(gap), MaxIslands)
               whole   == Geometry!TrueJoined(gap, runs)
               all     == MeasuredOn(m, e, grid, gap, whole)
               list    == FirstFrom(all)
    <3>1. /\ islands = <<>> <=> runs = {}
          /\ islands # <<>> =>
               /\ Len(islands) = Geometry!Cardinality(runs)
               /\ Len(joined) = Geometry!Cardinality(whole)
               /\ Geometry!Patches(m, e, grid, gap, joined) = list
      BY <2>3, <2>4, PatchesArePromised
    <3>2. Mine = IF Few \/ Len(grid) < 3 \/ islands = <<>> THEN Geometry!NoPatches
                 ELSE [islands |-> Len(islands), merged |-> Len(joined),
                       patches |-> Geometry!Patches(m, e, grid, gap, joined)]
      OBVIOUS
    <3>3. Body(grid) = IF Few \/ Len(grid) < 3 \/ runs = {} THEN Geometry!NoPatches
                       ELSE [islands |-> Geometry!Cardinality(runs), merged |-> Geometry!Cardinality(whole),
                             patches |-> list]
      BY DEF gap
    <3> HIDE DEF Mine, Body, islands, joined, runs, whole, list, Few
    <3>4. QED  BY <3>1, <3>2, <3>3
  <2> HIDE DEF Body, Mine, nodes
  <2>6. QED  BY <1>1, <1>2, <2>3, <2>5 DEF e, o
<1> HIDE DEF Few
<1>6. QED  BY <1>4, <1>5, Zenon
-----------------------------------------------------------------------------
(***************************************************************************)
(* The workspace. Whatever it has served, no bin bears the stamp of the    *)
(* next solve.                                                             *)
(***************************************************************************)
\* What the workspace holds is of the pose solved last, and its bins carry no stamp
\* that is yet to come.
GeometryInv ==
  /\ outline \in Outlines
  /\ generation \in 0..(Generations - 1) /\ bins \in BinsUpto(generation)
  /\ solved # NoValue =>
       /\ solved.model \in Model /\ solved.pose \in Pose
       /\ solved.set = Geometry!Promised(solved.model, solved.pose)
  /\ Geometry!PatchesAreOfThePose

\* A solve finds what its pose is to give.
LEMMA SolveFinds ==
  ASSUME GeometryInv, NEW m \in Model, NEW p \in Pose, Geometry!Solve(m, p)
  PROVE  /\ generation' \in 0..(Generations - 1) /\ bins' \in BinsUpto(generation')
         /\ solved' = [model |-> m, pose |-> p, set |-> Geometry!Promised(m, p)]
<1> DEFINE o == outline[m][p]
           g == Geometry!Grown(bins, Bins[m])
           st == Geometry!Stamped(g, generation)
           b == Geometry!Binned(m, o, st.bins, st.stamp)
<1>1. o \in Projections(m) /\ Generations \in Nat /\ Bins[m] \in Nat
  BY OutlinesProject, GeometryNumbers DEF GeometryInv
<1>2. generation \in 0..(Generations - 1) /\ generation \in Nat
  BY <1>1 DEF GeometryInv
<1>3. g \in BinsUpto(generation) /\ Len(g) >= Bins[m]
  BY <1>1, <1>2, GrownBins DEF GeometryInv
<1> HIDE DEF g
<1>4. CASE Geometry!Valid(o) = {}
  <2>1. /\ bins' = g /\ generation' = generation
        /\ solved' = [model |-> m, pose |-> p, set |-> Geometry!NoPatches]
    BY <1>4 DEF Geometry!Solve, g
  <2>2. Geometry!Promised(m, p) = Geometry!NoPatches
    BY <1>4 DEF Geometry!Promised, Geometry!PatchesOf
  <2>3. QED  BY <1>2, <1>3, <2>1, <2>2
<1>5. CASE Geometry!Valid(o) # {}
  <2>1. /\ bins' = b /\ generation' = st.stamp
        /\ solved' = [model |-> m, pose |-> p,
                      set |-> Geometry!Resolved(m, Geometry!Envelope(m, o, b, st.stamp))]
    BY <1>5 DEF Geometry!Solve, g
  <2>2. /\ st.stamp \in 1..(Generations - 1)
        /\ st.bins \in BinsUpto(st.stamp - 1) /\ Len(st.bins) = Len(g)
    BY <1>2, <1>3, StampIsNew
  <2> HIDE DEF st
  <2>3. st.stamp \in Nat \ {0} /\ st.stamp \in 0..(Generations - 1) /\ st.stamp \in Nat
    BY <1>1, <2>2
  <2> DEFINE stamp == st.stamp
             c == st.bins
  <2>4. stamp \in Nat \ {0} /\ c \in BinsUpto(stamp - 1) /\ Len(c) >= Bins[m]
    BY <1>3, <2>2, <2>3
  <2> HIDE DEF stamp, c, o
  <2>5. Geometry!Binned(m, o, c, stamp) \in BinsAfter(m, o, Len(o), stamp, Len(c))
    BY <1>1, <1>5, <2>4, BinsHold
  <2>6. b \in BinsAfter(m, o, Len(o), stamp, Len(c)) /\ b \in BinsUpto(stamp)
    BY <2>5 DEF BinsAfter, stamp, c
  <2> HIDE DEF b
  <2>7. Geometry!Envelope(m, o, b, stamp) = Geometry!TrueEnvelope(m, o)
    BY <1>1, <1>5, <2>3, <2>6, EnvelopeIsTrue DEF stamp
  <2>8. Geometry!Resolved(m, Geometry!TrueEnvelope(m, o)) = Geometry!Promised(m, p)
    BY <1>1, <1>5, ResolvedIsPromised DEF o
  <2>9. QED  BY <2>1, <2>3, <2>6, <2>7, <2>8 DEF stamp
<1>6. QED  BY <1>4, <1>5

LEMMA GeometryStarts == Geometry!Init => GeometryInv
<1>1. SUFFICES ASSUME Geometry!Init  PROVE GeometryInv
  OBVIOUS
<1>2. Generations \in Nat /\ Generations > 1
  BY GeometryNumbers
<1>3. 0 \in 0..(Generations - 1)
  BY <1>2
<1>4. <<>> \in BinsUpto(0)
  <2>1. <<>> \in Seq(Bin) /\ 1..Len(<<>>) = {}
    BY EmptySeq
  <2>2. QED  BY <2>1 DEF BinsUpto
<1>5. outline \in Outlines /\ bins = <<>> /\ generation = 0 /\ solved = NoValue /\ asked = NoValue
  BY <1>1 DEF Geometry!Init
<1>6. QED  BY <1>3, <1>4, <1>5 DEF GeometryInv, Geometry!PatchesAreOfThePose

LEMMA GeometrySteps ==
  GeometryInv /\ (Geometry!Next \/ UNCHANGED geometryVars) => GeometryInv'
<1> SUFFICES ASSUME GeometryInv, Geometry!Next \/ UNCHANGED geometryVars  PROVE GeometryInv'
  OBVIOUS
<1>1. \A m, p : outline' = outline => Geometry!Promised(m, p)' = Geometry!Promised(m, p)
  BY DEF Geometry!Promised
<1>2. CASE UNCHANGED geometryVars
  <2>1. /\ outline' = outline /\ bins' = bins /\ generation' = generation /\ solved' = solved
        /\ asked' = asked /\ patches' = patches
    BY <1>2 DEF geometryVars
  <2>2. /\ Geometry!Promised(solved.model, solved.pose)' = Geometry!Promised(solved.model, solved.pose)
        /\ Geometry!Promised(asked.model, asked.pose)' = Geometry!Promised(asked.model, asked.pose)
    BY <2>1 DEF Geometry!Promised
  <2>3. Geometry!Carrying(patches.set.patches, asked.speed)'
          = Geometry!Carrying(patches.set.patches, asked.speed)
    BY <2>1 DEF Geometry!Carrying
  <2>4. Geometry!PatchesAreOfThePose'
    BY <2>1, <2>2, <2>3 DEF GeometryInv, Geometry!PatchesAreOfThePose
  <2>5. QED  BY <2>1, <2>2, <2>4 DEF GeometryInv
<1>3. ASSUME NEW m \in Model, NEW p \in Pose, NEW speed \in Speeds, Geometry!Evaluate(m, p, speed)
      PROVE  GeometryInv'
  <2>1. /\ outline' = outline /\ outline \in Outlines
        /\ asked' = [model |-> m, pose |-> p, speed |-> speed]
        /\ patches' = [set |-> solved'.set,
                       emitted |-> Geometry!Carrying(solved'.set.patches, speed)]
    BY <1>3 DEF Geometry!Evaluate, GeometryInv
  <2>2. /\ generation' \in 0..(Generations - 1) /\ bins' \in BinsUpto(generation')
        /\ solved' # NoValue =>
             solved'.model = m /\ solved'.pose = p
        /\ solved'.set = Geometry!Promised(m, p)
    <3>1. CASE solved # NoValue /\ solved.model = m /\ solved.pose = p
      <4>1. bins' = Geometry!Grown(bins, Bins[m]) /\ generation' = generation /\ solved' = solved
        BY <1>3, <3>1 DEF Geometry!Evaluate
      <4>2. Generations \in Nat /\ Bins[m] \in Nat /\ generation \in 0..(Generations - 1)
            /\ bins \in BinsUpto(generation)
        BY GeometryNumbers DEF GeometryInv
      <4>3. generation \in Nat
        BY <4>2
      <4>4. Geometry!Grown(bins, Bins[m]) \in BinsUpto(generation)
        BY <4>2, <4>3, GrownBins
      <4>5. solved.set = Geometry!Promised(m, p)
        BY <3>1 DEF GeometryInv
      <4>6. QED  BY <3>1, <4>1, <4>2, <4>4, <4>5
    <3>2. CASE ~ (solved # NoValue /\ solved.model = m /\ solved.pose = p)
      <4>1. Geometry!Solve(m, p)
        BY <1>3, <3>2 DEF Geometry!Evaluate
      <4>2. QED  BY <4>1, SolveFinds
    <3>3. QED  BY <3>1, <3>2
  <2>3. Geometry!Promised(m, p)' = Geometry!Promised(m, p)
    BY <1>1, <2>1
  <2>4. solved' # NoValue =>
          /\ solved'.model \in Model /\ solved'.pose \in Pose
          /\ solved'.set = Geometry!Promised(solved'.model, solved'.pose)
    BY <2>2
  <2>5. patches'.set = Geometry!Promised(m, p)
        /\ patches'.emitted = Geometry!Carrying(patches'.set.patches, speed)
    BY <2>1, <2>2
  <2>6. Geometry!PatchesAreOfThePose'
    <3>1. asked'.model = m /\ asked'.pose = p /\ asked'.speed = speed
      BY <2>1
    <3>2. Geometry!Promised(asked.model, asked.pose)' = Geometry!Promised(m, p)
      BY <2>1, <3>1 DEF Geometry!Promised
    <3>3. patches'.set = Geometry!Promised(asked.model, asked.pose)'
      BY <2>5, <3>2
    <3>4. patches'.emitted = Geometry!Carrying(patches.set.patches, asked.speed)'
      BY <2>5, <3>1 DEF Geometry!Carrying
    <3>5. QED  BY <3>3, <3>4 DEF Geometry!PatchesAreOfThePose
  <2>7. Geometry!Promised(solved.model, solved.pose)' = Geometry!Promised(solved'.model, solved'.pose)
    BY <2>1 DEF Geometry!Promised
  <2>8. QED  BY <2>1, <2>2, <2>4, <2>6, <2>7 DEF GeometryInv
<1>4. QED  BY <1>2, <1>3 DEF Geometry!Next

\* Whatever models and poses a workspace has served before, an evaluation finds
\* the patches that its model and its pose alone determine, though
\* WheelRailContactModel::Evaluate takes them from bins it never clears, a merged
\* grid and a scan of it; and the length of a patch is that of its longest chord,
\* though ResolveLongitudinalLength drops stations unresolved.
THEOREM GeometryIsAlwaysOfThePose == MCSpec => []GeometryIsOfThePose
<1>1. MCInit => GeometryInv /\ LengthInv
  BY GeometryStarts, LengthStarts DEF MCInit
<1>2. GeometryInv /\ LengthInv
        /\ [MCNext]_<<atWork, vars, planVars, geometryVars, lengthVars, elementVars>>
      => GeometryInv' /\ LengthInv'
  <2> SUFFICES ASSUME GeometryInv, LengthInv,
                      [MCNext]_<<atWork, vars, planVars, geometryVars, lengthVars, elementVars>>
               PROVE  GeometryInv' /\ LengthInv'
    OBVIOUS
  <2>1. (Geometry!Next \/ UNCHANGED geometryVars) /\ (Length!Next \/ UNCHANGED lengthVars)
    BY DEF MCNext
  <2>2. QED  BY <2>1, GeometrySteps, LengthSteps
<1>3. GeometryInv /\ LengthInv => GeometryIsOfThePose
  BY NothingIsScreened DEF GeometryIsOfThePose, GeometryInv
<1>4. QED  BY <1>1, <1>2, <1>3, PTL DEF MCSpec
=============================================================================
