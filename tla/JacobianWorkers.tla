-------------------------- MODULE JacobianWorkers --------------------------
(***************************************************************************)
(* The finite-difference Jacobian that CVODE asks for is computed by a     *)
(* team of threads: each column is the right-hand side at the state with   *)
(* one component moved.  A thread evaluates in a context of its own, which *)
(* keeps the hints, the held inputs and the wheel-rail contact results of  *)
(* earlier columns and of earlier batches, and takes the source context's  *)
(* contact results over before each column.                                *)
(***************************************************************************)
EXTENDS Naturals

CONSTANTS Workers,      \* threads are 0 .. Workers - 1
          Columns,      \* components of the state are 1 .. Columns
          Positions,    \* the components that are positions
          Interfaces,   \* wheel-rail interfaces are 1 .. Interfaces
          Feels,        \* of each interface: the components its wheel moves with
          States, Hints, Inputs

ASSUME SomeWork == Workers \in Nat \ {0} /\ Columns \in Nat \ {0} /\ Interfaces \in Nat
ASSUME StateLayout == /\ Positions \subseteq 1 .. Columns
                      /\ Feels \in [1 .. Interfaces -> SUBSET (1 .. Columns)]

VARIABLES
    source,    \* the context the solver evaluates in: hints, held inputs, cache
    worker,    \* of each thread: such a context
    column,    \* of each thread: the column it works on, 0 if none
    batch,     \* what the callback was given: state, columns that will fail
    team,      \* the threads the runtime granted
    todo,      \* columns nobody has taken
    derivs,    \* of each column: the derivatives written
    failures,  \* columns whose evaluation threw
    phase      \* "idle", "columns", "done"
vars == <<source, worker, column, batch, team, todo, derivs, failures, phase>>

Threads == 0 .. Workers - 1
Wheels  == 1 .. Interfaces
None    == [none |-> TRUE]

-----------------------------------------------------------------------------
(* A state with the component `moved` perturbed, 0 for none, and what of   *)
(* it a function of some components can tell.                              *)
Point(s, moved) == [base |-> s, moved |-> moved]
Seen(p, components) ==
    IF p.moved \in components THEN p ELSE Point(p.base, 0)

(* EvaluateCarrierProjections: the branch of the track is chosen by the    *)
(* hint.                                                                   *)
Station(i, p, h) == [pose |-> Seen(p, Feels[i] \cap Positions), hint |-> h]

CarrierMotion(i, p, h) == [station |-> Station(i, p, h), motion |-> Seen(p, Feels[i])]

ContactInput(i, p, h) ==
    [pose |-> Station(i, p, h), wheel |-> CarrierMotion(i, p, h).motion]

(* A key that leaves out the wheel's motion: *)
PoseOnly(input) == input.pose

(* MakeContactInputKey lists every component of the input. *)
Key(input) == <<input.pose, input.wheel>>

(* The contact model is a function of its input. *)
Entry(input) == [key |-> Key(input), result |-> input]

Hit(entry, input) == entry # None /\ entry.key = Key(input)

Evaluated(cache, wheels, p, h) ==
    [i \in Wheels |->
        LET input == ContactInput(i, p, h)
        IN  IF i \in wheels /\ ~ Hit(cache[i], input) THEN Entry(input) ELSE cache[i]]

(* SystemRhsBridge::CalcTimeDerivatives in a context. *)
Derivatives(context, p) ==
    [point |-> p, held |-> context.held,
     contact |-> [i \in Wheels |->
                    Evaluated(context.cache, Wheels, p, context.hints)[i].result]]

Exact(s, c) ==
    [point |-> Point(s, c), held |-> source.held,
     contact |-> [i \in Wheels |-> ContactInput(i, Point(s, c), source.hints)]]

(* SeedExactWheelRailContactEvaluationCaches *)
Seeded(from, to) ==
    [i \in Wheels |->
        IF from[i] = None THEN None
        ELSE IF to[i] # None /\ to[i].key = from[i].key THEN to[i] ELSE from[i]]

-----------------------------------------------------------------------------
Entries == {Entry(ContactInput(i, Point(s, c), h)) :
               i \in Wheels, s \in States, c \in 0 .. Columns, h \in Hints}
Contexts == [hints : Hints, held : Inputs, cache : [Wheels -> Entries \cup {None}]]
Outcomes == [point : [base : States, moved : 1 .. Columns], held : Inputs,
             contact : [Wheels -> {entry.result : entry \in Entries}]]

TypeOK ==
    /\ source \in Contexts
    /\ worker \in [Threads -> Contexts]
    /\ column \in [Threads -> 0 .. Columns]
    /\ batch \in [state : States, bad : SUBSET (1 .. Columns)]
    /\ team \in SUBSET Threads
    /\ todo \in SUBSET (1 .. Columns)
    /\ derivs \in [1 .. Columns -> Outcomes \cup {None}]
    /\ failures \in SUBSET (1 .. Columns)
    /\ phase \in {"idle", "columns", "done"}

Empty == [i \in Wheels |-> None]

Init ==
    /\ \E h \in Hints, u \in Inputs :
          /\ source = [hints |-> h, held |-> u, cache |-> Empty]
          /\ worker = [w \in Threads |-> source]
    /\ column = [w \in Threads |-> 0]
    /\ \E s \in States : batch = [state |-> s, bad |-> {}]
    /\ team = {} /\ todo = {} /\ failures = {}
    /\ derivs = [c \in 1 .. Columns |-> None]
    /\ phase = "idle"

(* Outside a batch the solver evaluates in the source context.  The        *)
(* interfaces run in parallel; when one throws, others have still replaced *)
(* their entries.                                                          *)
SourceEvaluates(s) ==
    /\ phase # "columns"
    /\ \E wheels \in SUBSET Wheels :
          source' = [source EXCEPT !.cache = Evaluated(@, wheels, Point(s, 0), source.hints)]
    /\ phase' = "idle"
    /\ UNCHANGED <<worker, column, batch, team, todo, derivs, failures>>

(* An accepted step leaves new projection hints in the source context. *)
HintsMove(h) ==
    /\ phase # "columns"
    /\ source' = [source EXCEPT !.hints = h]
    /\ phase' = "idle"
    /\ UNCHANGED <<worker, column, batch, team, todo, derivs, failures>>

(* CvodeRuntime::SynchronizeContextLocalDataFrom *)
Synchronize(u) ==
    /\ phase # "columns"
    /\ source' = [source EXCEPT !.held = u]
    /\ worker' = [w \in Threads |-> [worker[w] EXCEPT !.held = u]]
    /\ phase' = "idle"
    /\ UNCHANGED <<column, batch, team, todo, derivs, failures>>

(* CalcPerturbedDerivatives.  The runtime may grant fewer threads than are *)
(* asked for; which columns throw depends on the state alone.              *)
BeginBatch(s) ==
    /\ phase # "columns"
    /\ \E bad \in SUBSET (1 .. Columns) : batch' = [state |-> s, bad |-> bad]
    /\ \E last \in Threads : team' = 0 .. last
    /\ worker' = [w \in Threads |-> [worker[w] EXCEPT !.hints = source.hints]]
    /\ todo' = 1 .. Columns
    /\ derivs' = [c \in 1 .. Columns |-> None]
    /\ failures' = {}
    /\ phase' = "columns"
    /\ UNCHANGED <<source, column>>

(* schedule(dynamic, 1): an idle thread takes the lowest column left. *)
Take(w) ==
    /\ phase = "columns"
    /\ w \in team
    /\ column[w] = 0
    /\ \E c \in todo :
          /\ \A other \in todo : c <= other
          /\ column' = [column EXCEPT ![w] = c]
          /\ todo' = todo \ {c}
    /\ worker' = [worker EXCEPT ![w].cache = Seeded(source.cache, @)]
    /\ UNCHANGED <<source, batch, team, derivs, failures, phase>>

Written(w) ==
    LET c == column[w]
        p == Point(batch.state, c)
    IN  /\ derivs' = [derivs EXCEPT ![c] = Derivatives(worker[w], p)]
        /\ worker' = [worker EXCEPT ![w].cache =
                         Evaluated(@, Wheels, p, worker[w].hints)]
        /\ UNCHANGED failures

(* Inside the team the interfaces run one after the other, so an exception *)
(* leaves the entries of those before it.                                  *)
Thrown(w) ==
    /\ failures' = failures \cup {column[w]}
    /\ \E reached \in 0 .. Interfaces :
          worker' = [worker EXCEPT ![w].cache =
                       Evaluated(@, 1 .. reached, Point(batch.state, column[w]),
                                 worker[w].hints)]
    /\ UNCHANGED derivs

(* The thread evaluates its column: the derivatives are written, or the    *)
(* exception is kept in the column's slot.                                 *)
Calc(w) ==
    /\ phase = "columns"
    /\ column[w] # 0
    /\ IF column[w] \in batch.bad THEN Thrown(w) ELSE Written(w)
    /\ column' = [column EXCEPT ![w] = 0]
    /\ UNCHANGED <<source, batch, team, todo, phase>>

(* The barrier of the parallel region. *)
EndBatch ==
    /\ phase = "columns"
    /\ todo = {}
    /\ \A w \in Threads : column[w] = 0
    /\ phase' = "done"
    /\ UNCHANGED <<source, worker, column, batch, team, todo, derivs, failures>>

Next ==
    \/ \E s \in States : SourceEvaluates(s) \/ BeginBatch(s)
    \/ \E h \in Hints : HintsMove(h)
    \/ \E u \in Inputs : Synchronize(u)
    \/ \E w \in Threads : Take(w) \/ Calc(w)
    \/ EndBatch

Spec == Init /\ [][Next]_vars

-----------------------------------------------------------------------------
(* Whatever the team, the order of the columns and the results the threads *)
(* kept, a batch comes out as the serial loop would: each column that does *)
(* not throw is the right-hand side at its own point, under the source's   *)
(* hints and held inputs, with contact forces of exactly that input; and   *)
(* the columns reported as failed are those that throw                     *)
(* (CalcPerturbedDerivatives, the contact caches and their seeding).       *)
SameAsTheLoop ==
    phase = "done" =>
        /\ failures = batch.bad
        /\ \A c \in 1 .. Columns \ batch.bad : derivs[c] = Exact(batch.state, c)
=============================================================================
