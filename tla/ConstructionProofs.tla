------------------------- MODULE ConstructionProofs -------------------------
(***************************************************************************)
(* SystemAdvancer implements AcceptedAdvance, for every set of states, every*)
(* flow, horizon and work budget; MultibodyModel builds the forest of what *)
(* is stated to it, for every number of bodies and all names; the verdict  *)
(* of SourceClosure is that of the ledger and the tree, for all; and the   *)
(* context StartupAssembly publishes is what its record states, for all    *)
(* definitions, records and arrangements.                                  *)
(***************************************************************************)
EXTENDS MCConstruction, FiniteSetTheorems, SequenceTheorems, NaturalsInduction, WellFoundedInduction, TLAPS

(***************************************************************************)
(* SystemAdvancer.                                                         *)
(***************************************************************************)
(***************************************************************************)
(* The inductive invariant.  UnderWay relates the call to the backend in   *)
(* each phase and holds whatever the client did; OnTrajectory says where   *)
(* the backend and the samples are on the accepted trajectory, and needs a *)
(* client that has told of its changes.                                    *)
(***************************************************************************)
Running == ~Idle

UnderWay ==
  Running =>
    /\ ~requires_synchronization
    /\ accepted.time < call.target
    /\ call.request \in Requests(accepted.time, call.target)
    /\ accepted.time <= call.expected
    /\ call.phase # "stepping" => candidate_state = backend.state
    /\ call.phase \in {"installed", "reached"} =>
         /\ candidate.state = backend.state
         /\ backend.time <= call.target
    /\ call.phase = "installed" => Contiguous
    /\ call.phase = "reached" =>
         /\ backend.time = call.target
         /\ candidate.hints = backend.state
    /\ call.phase = "stepping" /\ call.steps > 0 =>
         /\ candidate.hints = backend.state
         /\ call.expected = backend.time

SamplesRead ==
  Running /\ call.request # {} =>
    /\ accepted.time \in DOMAIN call.columns
    /\ call.columns[accepted.time] = accepted.state

NothingRead == /\ Idle => call.columns = NoSamples
               /\ Running => returned = NoSamples

OnTrajectory ==
  ~unsynchronized /\ ~requires_synchronization =>
    /\ candidate.local = accepted.local
    /\ accepted.time <= backend.time
    /\ backend.state = Flow(accepted.state, accepted.local, accepted.time, backend.time)
    /\ Idle => backend.time = accepted.time /\ candidate.hints = accepted.hints
    /\ call.phase = "stepping" => call.expected = backend.time
    /\ call.phase \in {"returned", "installed"} =>
         /\ accepted.time <= backend.denseTime
         /\ backend.denseState =
              Flow(accepted.state, accepted.local, accepted.time, backend.denseTime)
    /\ \A t \in DOMAIN call.columns :
         /\ accepted.time <= t
         /\ call.columns[t] = Flow(accepted.state, accepted.local, accepted.time, t)

Usable == ~requires_synchronization => backend.usable

IInv == TypeOK /\ UnderWay /\ SamplesRead /\ NothingRead /\ OnTrajectory /\ Usable
-----------------------------------------------------------------------------
LEMMA FlowIsState ==
  ASSUME NEW s \in State, NEW l \in Local, NEW t \in Time, NEW t2 \in Time
  PROVE  Flow(s, l, t, t2) \in State
BY FlowAssumption

LEMMA FlowNowhere ==
  ASSUME NEW s \in State, NEW l \in Local, NEW t \in Time
  PROVE  Flow(s, l, t, t) = s
BY FlowAssumption

LEMMA FlowJoins ==
  ASSUME NEW s \in State, NEW l \in Local,
         NEW t \in Time, NEW t2 \in Time, NEW t3 \in Time, t <= t2, t2 <= t3
  PROVE  Flow(Flow(s, l, t, t2), l, t2, t3) = Flow(s, l, t, t3)
BY FlowAssumption

\* The fields of the records, which the leaves below need one by one.
LEMMA Fields ==
  ASSUME TypeOK
  PROVE  /\ accepted.time \in Time /\ accepted.state \in State
         /\ accepted.local \in Local /\ accepted.hints \in State
         /\ candidate.time \in Time /\ candidate.state \in State
         /\ candidate.local \in Local /\ candidate.hints \in State
         /\ backend.time \in Time /\ backend.state \in State
         /\ backend.denseTime \in Time /\ backend.denseState \in State
         /\ backend.usable \in BOOLEAN
         /\ call.phase \in Phase /\ call.target \in Time /\ call.request \subseteq Time
         /\ call.steps \in 0..MaxSteps /\ call.expected \in Time
         /\ call = [phase |-> call.phase, target |-> call.target,
                    request |-> call.request, steps |-> call.steps,
                    expected |-> call.expected, columns |-> call.columns]
BY DEF TypeOK, Context, Backend

LEMMA NoSamplesAreSamples == IsSamples(NoSamples) /\ DOMAIN NoSamples = {}
BY DEF IsSamples, NoSamples

LEMMA NoCallFits ==
  /\ NoCall \in [phase : Phase, target : Time, request : SUBSET Time,
                 steps : 0..MaxSteps, expected : Time, columns : {NoCall.columns}]
  /\ IsSamples(NoCall.columns) /\ NoCall.phase = "idle" /\ NoCall.columns = NoSamples
BY NoSamplesAreSamples, FlowAssumption, AdvancerAssumption DEF NoCall, Phase, Time

LEMMA InitIInv == Init => IInv
<1> SUFFICES ASSUME Init PROVE IInv
  OBVIOUS
<1>1. PICK s \in Installed, l \in Local :
        accepted = [time |-> 0, state |-> s, local |-> l, hints |-> s]
  BY DEF Init
<1>2. s \in State /\ 0 \in Time
  BY FlowAssumption DEF Time
<1>3. accepted \in Context /\ backend \in Backend
  BY <1>1, <1>2 DEF Init, Context, Backend, StartingAt
<1>4. TypeOK
  BY <1>1, <1>2, <1>3, NoCallFits, NoSamplesAreSamples DEF Init, TypeOK
<1>5. Idle /\ ~Running
  BY NoCallFits DEF Init, Idle, Running
<1>6. UnderWay /\ SamplesRead /\ NothingRead
  BY <1>5, NoCallFits DEF Init, UnderWay, SamplesRead, NothingRead
<1>7. OnTrajectory
  <2>1. backend.time = accepted.time /\ backend.state = accepted.state
        /\ candidate = accepted
    BY DEF Init, StartingAt
  <2>2. backend.state = Flow(accepted.state, accepted.local, accepted.time, backend.time)
    BY <2>1, <1>1, <1>2, FlowNowhere
  <2> QED
    BY <2>1, <2>2, <1>1, <1>2, <1>5, NoCallFits, NoSamplesAreSamples
    DEF Init, OnTrajectory, Idle, Time
<1>8. Usable
  BY DEF Init, Usable, StartingAt
<1> QED
  BY <1>4, <1>6, <1>7, <1>8 DEF IInv

\* Whatever an aborted call leaves behind, a blocked advancer promises nothing
\* about it beyond its type.
LEMMA AbortIInv ==
  ASSUME TypeOK, Abort, candidate' \in Context, candidate_state' \in State,
         backend' \in Backend
  PROVE  IInv'
<1>1. TypeOK'
  BY NoCallFits DEF Abort, TypeOK
<1>2. ~Running' /\ requires_synchronization' = TRUE /\ NothingRead'
  BY NoCallFits DEF Abort, Running, Idle, NothingRead
<1> QED
  BY <1>1, <1>2 DEF IInv, UnderWay, SamplesRead, OnTrajectory, Usable

LEMMA ClientIInv == IInv /\ ClientChanges => IInv'
<1> SUFFICES ASSUME IInv, ClientChanges PROVE IInv'
  OBVIOUS
<1>1. TypeOK /\ Idle
  BY DEF IInv, ClientChanges
<1>2. accepted' \in Context
  <2>1. CASE \E t \in Time, s \in Installed : SetState(t, s)
    <3>0. PICK t \in Time, s \in Installed : SetState(t, s)
      BY <2>1
    <3>1. PICK h \in {accepted.hints, s} :
            accepted' = [accepted EXCEPT !.time = t, !.state = s, !.hints = h]
      BY <3>0 DEF SetState
    <3>2. s \in State /\ h \in State
      BY <3>1, <1>1, Fields, FlowAssumption
    <3> QED
      BY <3>1, <3>2, <1>1 DEF Context, TypeOK
  <2>2. CASE \E l \in Local : SetLocal(l)
    BY <2>2, <1>1, Fields DEF SetLocal, Context, TypeOK
  <2> QED
    BY <2>1, <2>2 DEF ClientChanges
<1>3. TypeOK'
  BY <1>1, <1>2, NoSamplesAreSamples DEF TypeOK, ClientChanges
<1>4. ~Running' /\ unsynchronized' /\ Usable' /\ NothingRead'
  BY <1>1 DEF ClientChanges, Running, Idle, IInv, Usable, NothingRead
<1> QED
  BY <1>3, <1>4 DEF IInv, UnderWay, SamplesRead, OnTrajectory

LEMMA AdvanceIInv ==
  ASSUME IInv, NEW target \in Time, NEW request \in Requests(accepted.time, target),
         Advance(target, request)
  PROVE  IInv'
<1>1. TypeOK /\ Idle /\ ~requires_synchronization
  BY DEF IInv, Advance
<1> DEFINE cols == IF request = {} THEN NoSamples
                   ELSE [t \in {accepted.time} |-> accepted.state]
<1>2. call' = [phase |-> "stepping", target |-> target, request |-> request,
              steps |-> 0, expected |-> accepted.time, columns |-> cols]
  BY DEF Advance
<1>3. request \subseteq Time
  <2>1. request = {} \/ request \in SUBSET (accepted.time..target)
    BY DEF Requests
  <2>2. accepted.time \in 0..Horizon /\ target \in 0..Horizon /\ Horizon \in Nat
    BY <1>1, Fields, FlowAssumption DEF Time
  <2>3. accepted.time..target \subseteq 0..Horizon
    BY <2>2
  <2> QED
    BY <2>1, <2>3 DEF Time
<1>4. IsSamples(cols)
  BY <1>1, Fields, NoSamplesAreSamples DEF IsSamples
<1> HIDE DEF cols
<1>5. TypeOK'
  <2>1. call' \in [phase : Phase, target : Time, request : SUBSET Time,
                   steps : 0..MaxSteps, expected : Time, columns : {call'.columns}]
    BY <1>1, <1>2, <1>3, Fields, AdvancerAssumption DEF Phase
  <2>2. IsSamples(call'.columns)
    BY <1>2, <1>4
  <2> QED
    BY <1>1, <2>1, <2>2, NoSamplesAreSamples DEF TypeOK, Advance
<1>6. UnderWay' /\ NothingRead'
  <2>1. accepted.time <= accepted.time
    BY <1>1, Fields DEF Time
  <2> QED
    BY <1>1, <1>2, <2>1 DEF UnderWay, Advance, NothingRead, Idle
<1>7. SamplesRead'
  <2>1. request # {} => accepted.time \in DOMAIN cols /\ cols[accepted.time] = accepted.state
    BY DEF cols
  <2>2. call'.request = request /\ call'.columns = cols /\ accepted' = accepted
    BY <1>2 DEF Advance
  <2> QED
    BY <2>1, <2>2 DEF SamplesRead
<1>8. OnTrajectory'
  <2>1. SUFFICES ASSUME ~unsynchronized PROVE OnTrajectory'
    BY DEF OnTrajectory, Advance
  <2>2. /\ candidate.local = accepted.local /\ accepted.time = backend.time
        /\ backend.state = Flow(accepted.state, accepted.local, accepted.time, backend.time)
    BY <1>1, <2>1 DEF IInv, OnTrajectory
  <2>3. \A t \in DOMAIN cols : t = accepted.time /\ cols[t] = accepted.state
    BY NoSamplesAreSamples DEF cols
  <2>4. accepted.state = Flow(accepted.state, accepted.local, accepted.time, accepted.time)
    BY <1>1, Fields, FlowNowhere
  <2>5. accepted.time \in Int
    BY <1>1, Fields DEF Time
  <2>6. \A t \in DOMAIN call'.columns :
          /\ accepted.time <= t
          /\ call'.columns[t] = Flow(accepted.state, accepted.local, accepted.time, t)
    BY <1>2, <2>3, <2>4, <2>5
  <2> QED
    BY <1>1, <1>2, <2>2, <2>5, <2>6 DEF OnTrajectory, Advance, Idle
<1>9. Usable'
  BY DEF IInv, Usable, Advance
<1> QED
  BY <1>5, <1>6, <1>7, <1>8, <1>9 DEF IInv

LEMMA SampleNowIInv == IInv /\ SampleNow => IInv'
<1> SUFFICES ASSUME IInv, SampleNow PROVE IInv'
  OBVIOUS
<1>1. IsSamples(returned')
  BY Fields DEF IInv, SampleNow, IsSamples
<1>2. TypeOK'
  BY <1>1 DEF IInv, TypeOK, SampleNow
<1>3. UnderWay' /\ SamplesRead' /\ NothingRead' /\ OnTrajectory' /\ Usable'
  BY DEF IInv, SampleNow, UnderWay, SamplesRead, NothingRead, OnTrajectory, Usable,
         Running, Idle, Contiguous
<1> QED
  BY <1>2, <1>3 DEF IInv

LEMMA BackendStepsIInv ==
  ASSUME IInv, NEW end \in Time, BackendSteps(end) PROVE IInv'
<1>1. TypeOK /\ Running /\ call.phase = "stepping" /\ call.steps < MaxSteps
  BY DEF IInv, BackendSteps, WithinBudget, Running, Idle
<1>2. ~requires_synchronization
  BY <1>1 DEF IInv, UnderWay
<1>3. Endpoint(end) \in State
  BY <1>1, Fields, FlowIsState DEF Endpoint
<1>4. candidate' \in Context /\ candidate'.local = candidate.local
  BY <1>1, Fields, AdvancerAssumption DEF BackendSteps, Pollute, Context, TypeOK
<1>5. /\ backend'.time = end /\ backend'.state = Endpoint(end) /\ backend'.usable = TRUE
      /\ backend'.denseTime = backend.time /\ backend'.denseState = backend.state
      /\ backend' \in Backend
  BY <1>1, <1>3, Fields DEF BackendSteps, Backend
<1>6. /\ call'.phase = "returned" /\ call'.target = call.target
      /\ call'.request = call.request /\ call'.columns = call.columns
      /\ call'.expected = call.expected
  BY <1>1, Fields DEF BackendSteps
<1>7. TypeOK'
  <2>1. call.steps + 1 \in 0..MaxSteps
    BY <1>1, Fields, AdvancerAssumption
  <2>2. call' \in [phase : Phase, target : Time, request : SUBSET Time,
                   steps : 0..MaxSteps, expected : Time, columns : {call'.columns}]
    BY <1>1, <2>1, Fields DEF BackendSteps, Phase
  <2> QED
    BY <1>1, <1>3, <1>4, <1>5, <1>6, <2>2 DEF TypeOK, BackendSteps
<1>8. UnderWay' /\ SamplesRead' /\ NothingRead'
  BY <1>1, <1>2, <1>5, <1>6
  DEF IInv, UnderWay, SamplesRead, NothingRead, BackendSteps, Running, Idle
<1>9. OnTrajectory'
  <2>1. SUFFICES ASSUME ~unsynchronized PROVE OnTrajectory'
    BY DEF OnTrajectory, BackendSteps
  <2>2. /\ candidate.local = accepted.local /\ accepted.time <= backend.time
        /\ backend.state = Flow(accepted.state, accepted.local, accepted.time, backend.time)
    BY <1>2, <2>1 DEF IInv, OnTrajectory
  <2>3. backend.time <= end /\ backend.time \in Int /\ end \in Int /\ accepted.time \in Int
    BY <1>1, Fields DEF BackendSteps, Time
  <2>4. Endpoint(end) = Flow(accepted.state, accepted.local, accepted.time, end)
    BY <1>1, <2>2, <2>3, Fields, FlowJoins DEF Endpoint
  <2>5. \A t \in DOMAIN call.columns :
          /\ accepted.time <= t
          /\ call.columns[t] = Flow(accepted.state, accepted.local, accepted.time, t)
    BY <1>2, <2>1 DEF IInv, OnTrajectory
  <2> QED
    BY <1>2, <1>4, <1>5, <1>6, <2>1, <2>2, <2>3, <2>4, <2>5
    DEF OnTrajectory, BackendSteps, Idle
<1>10. Usable'
  BY <1>5 DEF Usable
<1> QED
  BY <1>7, <1>8, <1>9, <1>10 DEF IInv

LEMMA InstallEndpointIInv == IInv /\ InstallEndpoint => IInv'
<1> SUFFICES ASSUME IInv, InstallEndpoint PROVE IInv'
  OBVIOUS
<1>1. /\ TypeOK /\ Running /\ call.phase = "returned" /\ Contiguous
      /\ ~requires_synchronization /\ candidate_state = backend.state
  BY DEF IInv, InstallEndpoint, Running, Idle, UnderWay
<1> DEFINE cols == [t \in DOMAIN call.columns \cup Covered |->
                      IF t \in Covered THEN DenseState(t) ELSE call.columns[t]]
<1>2. /\ call'.phase = "installed" /\ call'.target = call.target
      /\ call'.request = call.request /\ call'.steps = call.steps
      /\ call'.expected = call.expected /\ call'.columns = cols
  BY <1>1, Fields DEF InstallEndpoint
<1>3. /\ candidate'.time = backend.time /\ candidate'.state = candidate_state
      /\ candidate'.local = candidate.local /\ candidate' \in Context
  BY <1>1, Fields DEF InstallEndpoint, AtEndpoint, Context, TypeOK
<1>4. \A t \in Covered : t \in Time /\ DenseState(t) \in State
  BY <1>1, Fields, FlowIsState DEF Covered, DenseState
<1>5. IsSamples(cols)
  <2>1. IsSamples(call.columns)
    BY <1>1 DEF TypeOK
  <2> QED
    BY <1>4, <2>1 DEF IsSamples
<1> HIDE DEF cols
<1>6. TypeOK'
  <2>1. call' \in [phase : Phase, target : Time, request : SUBSET Time,
                   steps : 0..MaxSteps, expected : Time, columns : {call'.columns}]
    BY <1>1, Fields DEF InstallEndpoint, Phase
  <2> QED
    BY <1>1, <1>2, <1>3, <1>5, <2>1 DEF TypeOK, InstallEndpoint
<1>7. UnderWay' /\ NothingRead'
  BY <1>1, <1>2, <1>3
  DEF IInv, UnderWay, NothingRead, InstallEndpoint, Running, Idle, Contiguous
<1>8. SamplesRead'
  <2>1. SUFFICES ASSUME call.request # {}
        PROVE  accepted.time \in DOMAIN cols /\ cols[accepted.time] = accepted.state
    BY <1>1, <1>2 DEF SamplesRead, InstallEndpoint
  <2>2. accepted.time \in DOMAIN call.columns
        /\ call.columns[accepted.time] = accepted.state
    BY <1>1, <2>1 DEF IInv, SamplesRead
  <2>3. call.expected \in Int /\ accepted.time \in Int
    BY <1>1, Fields DEF Time
  <2>4. accepted.time \notin Covered
    BY <1>1, <2>3 DEF Covered, IInv, UnderWay, Running
  <2> QED
    BY <2>2, <2>4 DEF cols
<1>9. OnTrajectory'
  <2>1. SUFFICES ASSUME ~unsynchronized PROVE OnTrajectory'
    BY DEF OnTrajectory, InstallEndpoint
  <2>2. /\ candidate.local = accepted.local /\ accepted.time <= backend.time
        /\ backend.state = Flow(accepted.state, accepted.local, accepted.time, backend.time)
        /\ accepted.time <= backend.denseTime
        /\ backend.denseState =
             Flow(accepted.state, accepted.local, accepted.time, backend.denseTime)
        /\ \A t \in DOMAIN call.columns :
             /\ accepted.time <= t
             /\ call.columns[t] = Flow(accepted.state, accepted.local, accepted.time, t)
    BY <1>1, <2>1 DEF IInv, OnTrajectory
  <2>3. ASSUME NEW t \in DOMAIN cols
        PROVE  /\ accepted.time <= t
               /\ cols[t] = Flow(accepted.state, accepted.local, accepted.time, t)
    <3>1. CASE t \in Covered
      <4>1. t \in Time /\ backend.denseTime < t
        BY <1>1, <3>1, Fields DEF Covered, Contiguous
      <4>2. DenseState(t) = Flow(accepted.state, accepted.local, accepted.time, t)
        BY <1>1, <2>2, <4>1, Fields, FlowJoins DEF DenseState, Time
      <4> QED
        BY <1>1, <2>2, <3>1, <4>1, <4>2, Fields DEF cols, Time
    <3>2. CASE t \notin Covered
      BY <2>2, <3>2 DEF cols
    <3> QED
      BY <3>1, <3>2
  <2> QED
    BY <1>1, <1>2, <1>3, <2>1, <2>2, <2>3 DEF OnTrajectory, InstallEndpoint, Idle
<1>10. Usable'
  BY DEF IInv, Usable, InstallEndpoint
<1> QED
  BY <1>6, <1>7, <1>8, <1>9, <1>10 DEF IInv

LEMMA UpdateHintsIInv == IInv /\ UpdateHints => IInv'
<1> SUFFICES ASSUME IInv, UpdateHints PROVE IInv'
  OBVIOUS
<1>1. /\ TypeOK /\ Running /\ call.phase = "installed" /\ Contiguous
      /\ ~requires_synchronization /\ candidate_state = backend.state
      /\ candidate.state = backend.state
  BY DEF IInv, UpdateHints, Running, Idle, UnderWay
<1>2. /\ call'.phase = (IF backend.time = call.target THEN "reached" ELSE "stepping")
      /\ call'.target = call.target /\ call'.request = call.request
      /\ call'.steps = call.steps /\ call'.expected = backend.time
      /\ call'.columns = call.columns
  BY <1>1, Fields DEF UpdateHints
<1>3. /\ candidate'.hints = backend.state /\ candidate'.state = candidate.state
      /\ candidate'.local = candidate.local /\ candidate' \in Context
  BY <1>1, Fields DEF UpdateHints, Context, TypeOK
<1>4. TypeOK'
  <2>1. call' \in [phase : Phase, target : Time, request : SUBSET Time,
                   steps : 0..MaxSteps, expected : Time, columns : {call'.columns}]
    BY <1>1, Fields DEF UpdateHints, Phase
  <2> QED
    BY <1>1, <1>2, <1>3, <2>1 DEF TypeOK, UpdateHints
<1>5. UnderWay' /\ NothingRead'
  <2>1. accepted.time <= backend.time
    <3>1. accepted.time <= call.expected
      BY <1>1 DEF IInv, UnderWay
    <3> QED
      BY <1>1, <3>1, Fields DEF Contiguous, Time
  <2> QED
    BY <1>1, <1>2, <1>3, <2>1
    DEF IInv, UnderWay, NothingRead, UpdateHints, Running, Idle, Contiguous
<1>6. SamplesRead'
  BY <1>1, <1>2 DEF IInv, SamplesRead, UpdateHints
<1>7. OnTrajectory'
  BY <1>1, <1>2, <1>3 DEF IInv, OnTrajectory, UpdateHints, Idle
<1>8. Usable'
  BY DEF IInv, Usable, UpdateHints
<1> QED
  BY <1>4, <1>5, <1>6, <1>7, <1>8 DEF IInv

LEMMA CommitIInv == IInv /\ Commit => IInv'
<1> SUFFICES ASSUME IInv, Commit PROVE IInv'
  OBVIOUS
<1>1. /\ TypeOK /\ Running /\ call.phase = "reached"
      /\ ~requires_synchronization /\ candidate_state = backend.state
      /\ backend.time = call.target /\ candidate.hints = backend.state
      /\ call.request # {} => call.target \in call.request
  BY DEF IInv, Commit, Running, Idle, UnderWay, Requests
<1>2. /\ accepted'.time = backend.time /\ accepted'.state = backend.state
      /\ accepted'.local = accepted.local /\ accepted'.hints = candidate.hints
      /\ accepted' \in Context
  BY <1>1, Fields DEF Commit, Context, TypeOK
<1>3. IsSamples(returned')
  <2>1. CASE call.request = {}
    BY <2>1, NoSamplesAreSamples DEF Commit
  <2>2. CASE call.request # {}
    <3>1. DOMAIN call.columns = call.request \ {call.target} /\ IsSamples(call.columns)
      BY <1>1, <2>2 DEF Commit, TypeOK
    <3>2. \A t \in call.request :
            (IF t = call.target THEN candidate_state ELSE call.columns[t]) \in State
      BY <1>1, <3>1, Fields DEF IsSamples
    <3> QED
      BY <1>1, <2>2, <3>2, Fields DEF Commit, IsSamples
  <2> QED
    BY <2>1, <2>2
<1>4. TypeOK' /\ ~Running' /\ NothingRead' /\ call'.columns = NoSamples
  BY <1>1, <1>2, <1>3, NoCallFits DEF TypeOK, Commit, Running, Idle, NothingRead
<1>5. OnTrajectory'
  <2>1. backend.state = Flow(backend.state, accepted.local, backend.time, backend.time)
    BY <1>1, Fields, FlowNowhere
  <2>2. backend.time \in Int
    BY <1>1, Fields DEF Time
  <2> QED
    BY <1>1, <1>2, <1>4, <2>1, <2>2, NoCallFits, NoSamplesAreSamples
    DEF IInv, OnTrajectory, Commit, Running, Idle
<1>6. Usable'
  BY DEF IInv, Usable, Commit
<1> QED
  BY <1>4, <1>5, <1>6 DEF IInv, UnderWay, SamplesRead

LEMMA SynchronizeIInv == IInv /\ Synchronize => IInv'
<1> SUFFICES ASSUME IInv, Synchronize PROVE IInv'
  OBVIOUS
<1>1. TypeOK /\ Idle /\ ~Running
  BY DEF IInv, Synchronize, Recopy, Running
<1>2. /\ backend'.time = accepted.time /\ backend'.state = accepted.state
      /\ backend'.usable = TRUE /\ backend' \in Backend /\ candidate' = accepted
  BY <1>1, Fields DEF Synchronize, Recopy, StartingAt, Backend
<1>3. TypeOK' /\ Idle' /\ NothingRead'
  BY <1>1, <1>2, Fields, NoSamplesAreSamples
  DEF IInv, NothingRead, TypeOK, Synchronize, Recopy, Idle
<1>4. OnTrajectory'
  <2>1. accepted.state = Flow(accepted.state, accepted.local, accepted.time, accepted.time)
    BY <1>1, Fields, FlowNowhere
  <2>2. accepted.time \in Int
    BY <1>1, Fields DEF Time
  <2>3. DOMAIN call.columns = {}
    BY <1>1, NoSamplesAreSamples DEF IInv, NothingRead
  <2> QED
    BY <1>1, <1>2, <2>1, <2>2, <2>3 DEF OnTrajectory, Synchronize, Recopy, Idle
<1>5. Usable'
  BY <1>2 DEF Usable
<1> QED
  BY <1>3, <1>4, <1>5 DEF IInv, UnderWay, SamplesRead, Running

LEMMA FailuresIInv ==
  ASSUME IInv, BudgetExhausted \/ BackendFails \/ EndpointRefused \/ InstallFails
                 \/ UpdateHintsFails
  PROVE  IInv'
<1>1. TypeOK
  BY DEF IInv
<1>2. UNCHANGED <<candidate, candidate_state, backend>> =>
        candidate' \in Context /\ candidate_state' \in State /\ backend' \in Backend
  BY <1>1 DEF TypeOK
<1>3. BudgetExhausted => IInv'
  BY <1>1, <1>2, AbortIInv DEF BudgetExhausted
<1>4. EndpointRefused => IInv'
  BY <1>1, <1>2, AbortIInv DEF EndpointRefused
<1>5. InstallFails => IInv'
  BY <1>1, <1>2, AbortIInv DEF InstallFails
<1>6. ASSUME BackendFails PROVE IInv'
  <2>1. candidate' \in Context
    BY <1>1, <1>6, Fields, AdvancerAssumption DEF BackendFails, Pollute, Context, TypeOK
  <2>2. backend' \in Backend
    <3>1. PICK ok \in {backend.usable, FALSE} : backend' = [backend EXCEPT !.usable = ok]
      BY <1>6 DEF BackendFails
    <3> QED
      BY <1>1, <3>1, Fields DEF Backend, TypeOK
  <2>3. candidate_state' \in State
    BY <1>1, <1>6, Fields DEF BackendFails, TypeOK
  <2> QED
    BY <1>1, <1>6, <2>1, <2>2, <2>3, AbortIInv DEF BackendFails
<1>7. UpdateHintsFails => IInv'
  BY <1>1, <1>2, AbortIInv DEF UpdateHintsFails
<1> QED
  BY <1>3, <1>4, <1>5, <1>6, <1>7

LEMMA SynchronizeFailsIInv == IInv /\ SynchronizeFails => IInv'
<1> SUFFICES ASSUME IInv, SynchronizeFails PROVE IInv'
  OBVIOUS
<1>1. TypeOK /\ Idle
  BY DEF IInv, SynchronizeFails, Recopy
<1>2. backend' \in Backend
  <2>1. PICK ok \in {backend.usable, FALSE} : backend' = [backend EXCEPT !.usable = ok]
    BY DEF SynchronizeFails
  <2> QED
    BY <1>1, <2>1, Fields DEF Backend, TypeOK
<1>3. TypeOK' /\ Idle' /\ NothingRead' /\ requires_synchronization' = TRUE
  BY <1>1, <1>2, Fields, NoSamplesAreSamples
  DEF IInv, NothingRead, TypeOK, SynchronizeFails, Recopy, Idle
<1> QED
  BY <1>3 DEF IInv, UnderWay, SamplesRead, OnTrajectory, Usable, Running

LEMMA IInvStep == IInv /\ [Next]_vars => IInv'
<1> SUFFICES ASSUME IInv, [Next]_vars PROVE IInv'
  OBVIOUS
<1>1. CASE UNCHANGED vars
  BY <1>1 DEF vars, IInv, TypeOK, UnderWay, SamplesRead, NothingRead, OnTrajectory, Usable,
              Running, Idle, Contiguous, IsSamples
<1>2. CASE \E target \in Time : \E request \in Requests(accepted.time, target) :
             Advance(target, request)
  BY <1>2, AdvanceIInv
<1>3. CASE \E end \in Time : BackendSteps(end)
  BY <1>3, BackendStepsIInv
<1>4. CASE BudgetExhausted \/ BackendFails \/ EndpointRefused \/ InstallFails
             \/ UpdateHintsFails
  BY <1>4, FailuresIInv
<1>5. CASE ClientChanges \/ SampleNow \/ InstallEndpoint \/ UpdateHints \/ Commit
             \/ Synchronize \/ SynchronizeFails
  BY <1>5, ClientIInv, SampleNowIInv, InstallEndpointIInv, UpdateHintsIInv, CommitIInv,
     SynchronizeIInv, SynchronizeFailsIInv
<1> QED
  BY <1>1, <1>2, <1>3, <1>4, <1>5 DEF Next

(***************************************************************************)
(* IInv holds of every reachable state of the advancer and its client.     *)
(***************************************************************************)
THEOREM Invariance == Spec => []IInv
BY InitIInv, IInvStep, PTL DEF Spec

(***************************************************************************)
(* Every variable of the advancer keeps to its type.                       *)
(***************************************************************************)
THEOREM TypeCorrect == Spec => []TypeOK
<1>1. IInv => TypeOK
  BY DEF IInv
<1> QED
  BY <1>1, Invariance, PTL

(***************************************************************************)
(* The projection history used by the next internal step, and the one that *)
(* is accepted, always belong to the internal endpoint before them.        *)
(***************************************************************************)
THEOREM HintsAlwaysFollowEndpoints == Spec => []HintsFollowEndpoints
<1>1. IInv => HintsFollowEndpoints
  BY DEF IInv, UnderWay, HintsFollowEndpoints, Running, Idle
<1> QED
  BY <1>1, Invariance, PTL

(***************************************************************************)
(* An advancer that is not blocked stands where its client thinks it does, *)
(* however its earlier calls ended.                                        *)
(***************************************************************************)
THEOREM ReadyAlwaysMeansReady == Spec => []ReadyMeansReady
<1>1. IInv => ReadyMeansReady
  <2> SUFFICES ASSUME IInv, Idle, ~requires_synchronization PROVE ReadyMeansReady
    BY DEF ReadyMeansReady
  <2>1. TypeOK /\ backend.usable
    BY DEF IInv, Usable
  <2>2. ~unsynchronized =>
          /\ candidate.local = accepted.local /\ candidate.hints = accepted.hints
          /\ backend.time = accepted.time
          /\ backend.state =
               Flow(accepted.state, accepted.local, accepted.time, accepted.time)
    BY DEF IInv, OnTrajectory
  <2>3. Flow(accepted.state, accepted.local, accepted.time, accepted.time) = accepted.state
    BY <2>1, Fields, FlowNowhere
  <2> QED
    BY <2>1, <2>2, <2>3 DEF ReadyMeansReady
<1> QED
  BY <1>1, Invariance, PTL
-----------------------------------------------------------------------------
LEMMA InitImplements == Init => Promise!Init
BY DEF Init, Promise!Init, NoSamples, Promise!NoSamples

LEMMA CommitImplements ==
  ASSUME IInv, Commit
  PROVE  \E target \in Promise!Time :
           \E request \in Promise!Requests(accepted.time, target) :
             Promise!Advance(target, request)
<1>1. /\ TypeOK /\ Running /\ call.phase = "reached"
      /\ ~requires_synchronization /\ candidate_state = backend.state
      /\ backend.time = call.target /\ candidate.hints = backend.state
      /\ accepted.time < call.target
      /\ call.request \in Requests(accepted.time, call.target)
  BY DEF IInv, Commit, Running, Idle, UnderWay
<1>2. call.target \in Time /\ accepted.time \in Time /\ backend.state \in State
  BY <1>1, Fields
<1>3. accepted' = [accepted EXCEPT !.time = call.target, !.state = backend.state,
                                   !.hints = backend.state]
  BY <1>1 DEF Commit
<1>4. ~unsynchronized =>
        /\ backend.state = Flow(accepted.state, accepted.local, accepted.time, call.target)
        /\ \A t \in DOMAIN call.columns :
             call.columns[t] = Flow(accepted.state, accepted.local, accepted.time, t)
  BY <1>1 DEF IInv, OnTrajectory
<1>5. backend.state \in Promise!Ends(call.target)
  BY <1>2, <1>4 DEF Promise!Ends, Promise!OnTrajectory
<1>6. returned' \in Promise!Matrices(call.target, call.request, backend.state)
  <2>1. CASE call.request = {}
    BY <2>1 DEF Commit, Promise!Matrices, NoSamples, Promise!NoSamples
  <2>2. CASE call.request # {}
    <3>1. /\ accepted.time \in call.request /\ call.target \in call.request
          /\ accepted.time # call.target
      BY <1>1, <1>2, <2>2 DEF Requests, Time
    <3>2. /\ DOMAIN call.columns = call.request \ {call.target}
          /\ call.columns \in [DOMAIN call.columns -> State]
          /\ call.columns[accepted.time] = accepted.state
      BY <1>1, <2>2 DEF Commit, TypeOK, IsSamples, IInv, SamplesRead
    <3>3. returned' = [t \in call.request |->
                         IF t = call.target THEN backend.state ELSE call.columns[t]]
      BY <1>1, <2>2 DEF Commit
    <3>4. CASE unsynchronized
      <4>1. returned' \in [call.request -> State]
        BY <1>2, <3>2, <3>3
      <4>2. returned'[accepted.time] = accepted.state
            /\ returned'[call.target] = backend.state
        BY <3>1, <3>2, <3>3
      <4> QED
        BY <2>2, <3>4, <4>1, <4>2 DEF Promise!Matrices
    <3>5. CASE ~unsynchronized
      <4>1. returned' = [t \in call.request |->
                           Flow(accepted.state, accepted.local, accepted.time, t)]
        BY <1>4, <3>2, <3>3, <3>5
      <4> QED
        BY <2>2, <3>5, <4>1 DEF Promise!Matrices, Promise!OnTrajectory
    <3> QED
      BY <3>4, <3>5
  <2> QED
    BY <2>1, <2>2
<1>7. Promise!Advance(call.target, call.request)
  BY <1>1, <1>3, <1>5, <1>6 DEF Promise!Advance, Commit
<1> QED
  BY <1>1, <1>2, <1>7 DEF Requests, Promise!Requests, Time, Promise!Time

\* Every step of the advancer is a step of what it promises, or a stutter.
LEMMA StepImplements == IInv /\ [Next]_vars => [Promise!Next]_(Promise!vars)
<1> SUFFICES ASSUME IInv, [Next]_vars PROVE [Promise!Next]_(Promise!vars)
  OBVIOUS
<1> USE DEF NoSamples, Promise!NoSamples
<1>1. CASE UNCHANGED vars
  BY <1>1 DEF vars, Promise!vars
<1>2. ASSUME ClientChanges PROVE Promise!ClientChanges
  BY <1>2 DEF ClientChanges, Promise!ClientChanges, SetState, Promise!SetState, SetLocal,
              Promise!SetLocal, Time, Promise!Time
<1>3. ASSUME NEW target \in Time, NEW request \in Requests(accepted.time, target),
             Advance(target, request)
      PROVE  Promise!Discard
  BY <1>3 DEF Advance, Promise!Discard
<1>4. ASSUME SampleNow PROVE Promise!SampleNow
  BY <1>4 DEF SampleNow, Promise!SampleNow
<1>5. Abort /\ Running => Promise!Fail
  BY DEF Abort, Promise!Fail, IInv, NothingRead
<1>6. ASSUME NEW end \in Time, BackendSteps(end) PROVE UNCHANGED Promise!vars
  BY <1>6 DEF BackendSteps, Promise!vars
<1>7. ASSUME InstallEndpoint \/ UpdateHints PROVE UNCHANGED Promise!vars
  BY <1>7 DEF InstallEndpoint, UpdateHints, Promise!vars
<1>8. ASSUME Synchronize PROVE Promise!Synchronize
  BY <1>8 DEF Synchronize, Recopy, Promise!Synchronize
<1>9. ASSUME SynchronizeFails PROVE Promise!Fail
  BY <1>9 DEF SynchronizeFails, Recopy, Promise!Fail
<1>10. CASE BudgetExhausted \/ BackendFails \/ EndpointRefused \/ InstallFails
              \/ UpdateHintsFails
  <2>1. Abort /\ Running
    BY <1>10 DEF BudgetExhausted, BackendFails, EndpointRefused, InstallFails,
                 UpdateHintsFails, Running, Idle
  <2> QED
    BY <2>1, <1>5 DEF Promise!Next
<1>11. CASE Commit
  BY <1>11, CommitImplements DEF Promise!Next
<1>12. CASE \E target \in Time : \E request \in Requests(accepted.time, target) :
              Advance(target, request)
  BY <1>12, <1>3 DEF Promise!Next
<1>13. CASE \E end \in Time : BackendSteps(end)
  BY <1>13, <1>6
<1>14. CASE ClientChanges \/ SampleNow \/ Synchronize \/ SynchronizeFails
  BY <1>14, <1>2, <1>4, <1>8, <1>9 DEF Promise!Next
<1> QED
  BY <1>1, <1>7, <1>10, <1>11, <1>12, <1>13, <1>14 DEF Next

(***************************************************************************)
(* The advancer keeps its promise: seen through the accepted context, the  *)
(* samples and the block, it is the atomic transaction of AcceptedAdvance. *)
(***************************************************************************)
THEOREM AdvancerImplementsPromise == Spec => Implements
<1>1. Init => Promise!Init
  BY InitImplements
<1>2. IInv /\ [Next]_vars => [Promise!Next]_(Promise!vars)
  BY StepImplements
<1> QED
  BY <1>1, <1>2, Invariance, PTL DEF Spec, Implements, Promise!Spec
-----------------------------------------------------------------------------
(***************************************************************************)
(* Induction and iteration.                                                *)
(***************************************************************************)
\* Every set of natural numbers that is not empty has a least element,
LEMMA Least ==
  ASSUME NEW T, T \subseteq Nat, T # {}
  PROVE  \E n \in T : \A m \in T : n <= m
<1> DEFINE Less == {p \in Nat \X Nat : p[1] < p[2]}
<1>1. IsWellFoundedOn(Less, Nat)
  BY NatLessThanWellFounded DEF OpToRel
<1>2. PICK n \in T : \A m \in T : <<m, n>> \notin Less
  <2> HIDE DEF Less
  <2>1. QED  BY <1>1, WFMin
<1>3. ASSUME NEW m \in T  PROVE n <= m
  <2>1. m \in Nat /\ n \in Nat /\ <<m, n>> \in Nat \X Nat /\ <<m, n>>[1] = m /\ <<m, n>>[2] = n
    OBVIOUS
  <2>2. ~ (m < n)
    BY <1>2, <2>1
  <2>3. QED  BY <2>1, <2>2
<1>4. QED  BY <1>3

\* which proves a claim about each number, given as the set of those it holds for.
LEMMA Induction ==
  ASSUME NEW T, 0 \in T, \A n \in Nat : n \in T => n + 1 \in T
  PROVE  \A n \in Nat : n \in T
<1> DEFINE S == {n \in Nat : n \notin T}
<1> SUFFICES ASSUME S # {}  PROVE FALSE
  OBVIOUS
<1>1. PICK n \in S : \A m \in S : n <= m
  <2>1. S \subseteq Nat
    OBVIOUS
  <2> HIDE DEF S
  <2>2. QED  BY <2>1, Least
<1>2. n \in Nat /\ n # 0
  OBVIOUS
<1>3. n - 1 \in Nat /\ ~ (n <= n - 1) /\ (n - 1) + 1 = n
  BY <1>2
<1>4. n - 1 \in T
  BY <1>1, <1>3
<1>5. QED  BY <1>3, <1>4

\* f starts at x and goes on by F.
Iterates(f, F, S, x) ==
  f \in [Nat -> S] /\ f[0] = x /\ \A n \in Nat : f[n + 1] = F[f[n]]

\* A function on a set can be applied again and again.
LEMMA IteratesExist ==
  ASSUME NEW S, NEW F \in [S -> S], NEW x \in S
  PROVE  \E f : Iterates(f, F, S, x)
<1> DEFINE Upto(f, n) == /\ f \in [0..n -> S] /\ f[0] = x
                         /\ \A m \in 0..n : m < n => f[m + 1] = F[f[m]]
           T == {n \in Nat : \E f : Upto(f, n)}
<1>1. 0 \in T
  <2> DEFINE f == [m \in 0..0 |-> x]
  <2>1. Upto(f, 0)
    OBVIOUS
  <2>2. QED  BY <2>1
<1>2. ASSUME NEW n \in Nat, n \in T  PROVE n + 1 \in T
  <2>1. PICK f : Upto(f, n)
    BY <1>2
  <2> DEFINE g == [m \in 0..(n + 1) |-> IF m <= n THEN f[m] ELSE F[f[n]]]
  <2>2. \A m \in 0..n : f[m] \in S /\ m \in 0..(n + 1) /\ g[m] = f[m]
    BY <2>1
  <2>3. g \in [0..(n + 1) -> S] /\ g[n + 1] = F[f[n]]
    BY <2>2
  <2>4. ASSUME NEW m \in 0..(n + 1), m < n + 1  PROVE g[m + 1] = F[g[m]]
    <3>1. m \in 0..n /\ g[m] = f[m]
      BY <2>2, <2>4
    <3>2. CASE m = n
      BY <2>3, <3>1, <3>2
    <3>3. CASE m # n
      <4>1. m < n /\ m + 1 \in 0..n
        BY <3>1, <3>3
      <4>2. g[m + 1] = f[m + 1] /\ f[m + 1] = F[f[m]]
        BY <2>1, <2>2, <3>1, <4>1
      <4>3. QED  BY <3>1, <4>2
    <3>4. QED  BY <3>2, <3>3
  <2>5. g[0] = x
    BY <2>1, <2>2
  <2> HIDE DEF g
  <2>6. Upto(g, n + 1)
    BY <2>3, <2>4, <2>5
  <2>7. QED  BY <2>6
<1>3. \A n \in Nat : \E f : Upto(f, n)
  <2> HIDE DEF T
  <2>1. \A n \in Nat : n \in T
    BY <1>1, <1>2, Induction
  <2> HIDE DEF Upto
  <2>2. QED  BY <2>1 DEF T
<1> HIDE DEF T
\* Two of them agree as far as both go.
<1>4. ASSUME NEW f, NEW g, NEW n \in Nat, NEW m \in Nat, Upto(f, n), Upto(g, m)
      PROVE  \A k \in Nat : k <= n /\ k <= m => f[k] = g[k]
  <2> DEFINE Q == {k \in Nat : k <= n /\ k <= m => f[k] = g[k]}
  <2>1. 0 \in Q
    BY <1>4
  <2>2. ASSUME NEW k \in Nat, k \in Q  PROVE k + 1 \in Q
    <3> SUFFICES ASSUME k + 1 <= n, k + 1 <= m  PROVE f[k + 1] = g[k + 1]
      OBVIOUS
    <3>1. k \in 0..n /\ k < n /\ k \in 0..m /\ k < m
      OBVIOUS
    <3>2. f[k] = g[k] /\ f[k + 1] = F[f[k]] /\ g[k + 1] = F[g[k]]
      BY <1>4, <2>2, <3>1
    <3>3. QED  BY <3>2
  <2> HIDE DEF Q
  <2>3. \A k \in Nat : k \in Q
    BY <2>1, <2>2, Induction
  <2>4. QED  BY <2>3 DEF Q
<1> DEFINE part(n) == CHOOSE f : Upto(f, n)
           whole == [n \in Nat |-> part(n)[n]]
<1>5. \A n \in Nat : Upto(part(n), n)
  BY <1>3
<1> HIDE DEF part
<1>6. whole \in [Nat -> S]
  <2>1. ASSUME NEW n \in Nat  PROVE part(n)[n] \in S
    <3>1. n \in 0..n
      OBVIOUS
    <3>2. QED  BY <1>5, <3>1
  <2>2. QED  BY <2>1
<1>7. whole[0] = x
  BY <1>5
<1>8. ASSUME NEW n \in Nat  PROVE whole[n + 1] = F[whole[n]]
  <2>1. n + 1 \in Nat /\ n <= n /\ n <= n + 1 /\ n \in 0..(n + 1) /\ n < n + 1
    OBVIOUS
  <2> HIDE DEF Upto
  <2>2. part(n)[n] = part(n + 1)[n]
    BY <1>4, <1>5, <2>1
  <2>3. part(n + 1)[n + 1] = F[part(n + 1)[n]]
    BY <1>5, <2>1 DEF Upto
  <2>4. QED  BY <2>1, <2>2, <2>3
<1>9. QED  BY <1>6, <1>7, <1>8 DEF Iterates

\* What goes down as long as it changes has stopped after as many turns as it is high.
LEMMA IteratesStop ==
  ASSUME NEW S, NEW F \in [S -> S], NEW x \in S, NEW f, Iterates(f, F, S, x),
         NEW height \in [S -> Nat], \A y \in S : F[y] # y => height[F[y]] < height[y],
         NEW most \in Nat, height[x] <= most
  PROVE  F[f[most]] = f[most]
<1> DEFINE T == {n \in Nat : F[f[n]] = f[n] \/ height[f[n]] + n <= height[x]}
<1>1. \A n \in Nat : f[n] \in S /\ f[n + 1] = F[f[n]] /\ height[f[n]] \in Nat
  BY DEF Iterates
<1>2. 0 \in T
  BY <1>1 DEF Iterates
<1>3. ASSUME NEW n \in Nat, n \in T  PROVE n + 1 \in T
  <2>1. CASE F[f[n]] = f[n]
    BY <1>1, <2>1
  <2>2. CASE F[f[n]] # f[n]
    <3>1. height[f[n + 1]] < height[f[n]] /\ height[f[n]] + n <= height[x]
      BY <1>1, <1>3, <2>2
    <3>2. height[f[n + 1]] \in Nat /\ height[f[n]] \in Nat /\ height[x] \in Nat
      BY <1>1
    <3>3. height[f[n + 1]] + (n + 1) <= height[x]
      BY <3>1, <3>2
    <3>4. QED  BY <3>3
  <2>3. QED  BY <2>1, <2>2
<1>4. most \in T
  <2> HIDE DEF T
  <2>1. QED  BY <1>2, <1>3, Induction
<1>5. SUFFICES ASSUME F[f[most]] # f[most]  PROVE FALSE
  OBVIOUS
<1>6. height[f[most]] + most <= height[x] /\ height[F[f[most]]] < height[f[most]]
  BY <1>1, <1>4, <1>5
<1>7. height[f[most]] \in Nat /\ height[F[f[most]]] \in Nat /\ height[x] \in Nat
  BY <1>1
<1>8. QED  BY <1>6, <1>7
-----------------------------------------------------------------------------
(***************************************************************************)
(* The union-find.  D is a set of bodies and r takes each of them one step *)
(* nearer to who represents it; above[b] are the bodies on the way.        *)
(***************************************************************************)
IsAbove(above, r, D) ==
  /\ above \in [D -> SUBSET D]
  /\ \A b \in D : IF r[b] = b THEN above[b] = {}
                  ELSE b \notin above[b] /\ r[b] \in above[b] /\ above[r[b]] \subseteq above[b]

\* R takes each body to who represents it in the end.
Represents(R, r, D) ==
  /\ R \in [D -> D]
  /\ \A b \in D : R[r[b]] = R[b] /\ r[R[b]] = R[b] /\ (r[b] = b => R[b] = b)

\* What is above lies higher.
LEMMA HigherIsLess ==
  ASSUME NEW D, IsFiniteSet(D), NEW r \in [D -> D], NEW above, IsAbove(above, r, D)
  PROVE  /\ \A b \in D : Cardinality(above[b]) \in Nat /\ Cardinality(above[b]) <= Cardinality(D)
         /\ \A b, c \in D : r[b] # b /\ above[c] \subseteq above[r[b]]
                              => Cardinality(above[c]) < Cardinality(above[b])
<1>1. \A b \in D : above[b] \subseteq D /\ IsFiniteSet(above[b])
  BY FS_Subset DEF IsAbove
<1>2. \A b \in D : Cardinality(above[b]) \in Nat /\ Cardinality(above[b]) <= Cardinality(D)
  BY <1>1, FS_CardinalityType, FS_Subset
<1>3. ASSUME NEW b \in D, NEW c \in D, r[b] # b, above[c] \subseteq above[r[b]]
      PROVE  Cardinality(above[c]) < Cardinality(above[b])
  <2>1. r[b] \in D /\ r[b] \in above[b] /\ above[r[b]] \subseteq above[b]
    BY <1>3 DEF IsAbove
  <2>2. r[b] \notin above[r[b]]
    BY <2>1 DEF IsAbove
  <2>3. above[c] \subseteq above[b] /\ r[b] \notin above[c]
    BY <1>3, <2>1, <2>2
  <2>4. Cardinality(above[c]) < Cardinality(above[b])
    BY <1>1, <2>1, <2>3, FS_Subset, FS_CardinalityType
  <2>5. QED  BY <2>4
<1>4. QED  BY <1>2, <1>3

\* Halving a path leaves everything above as it was and everybody represented alike.
LEMMA HalvingKeeps ==
  ASSUME NEW D, NEW r \in [D -> D], NEW above, IsAbove(above, r, D), NEW R, Represents(R, r, D),
         NEW b \in D, r[b] # b
  PROVE  /\ [r EXCEPT ![b] = r[r[b]]] \in [D -> D]
         /\ IsAbove(above, [r EXCEPT ![b] = r[r[b]]], D)
         /\ Represents(R, [r EXCEPT ![b] = r[r[b]]], D)
         /\ above[r[r[b]]] \subseteq above[r[b]]
         /\ r[r[b]] \in D /\ r[r[b]] # b /\ R[r[r[b]]] = R[b]
<1> DEFINE c == r[b]
           h == r[c]
           new == [r EXCEPT ![b] = h]
<1>1. c \in D /\ h \in D
  OBVIOUS
<1>2. b \notin above[b] /\ c \in above[b] /\ above[c] \subseteq above[b]
  BY DEF IsAbove
<1>3. IF h = c THEN above[c] = {}
      ELSE c \notin above[c] /\ h \in above[c] /\ above[h] \subseteq above[c]
  BY <1>1 DEF IsAbove
<1>4. h # b
  BY <1>2, <1>3
<1>5. h \in above[b] /\ above[h] \subseteq above[b] /\ above[h] \subseteq above[c]
  BY <1>2, <1>3
<1>6. new \in [D -> D] /\ \A d \in D : new[d] = IF d = b THEN h ELSE r[d]
  BY <1>1
<1>7. R[h] = R[b]
  BY <1>1 DEF Represents
<1>8. Represents(R, new, D)
  <2>1. R \in [D -> D]
    BY DEF Represents
  <2>2. ASSUME NEW d \in D
        PROVE  R[new[d]] = R[d] /\ new[R[d]] = R[d] /\ (new[d] = d => R[d] = d)
    <3>1. R[d] \in D /\ R[r[d]] = R[d] /\ r[R[d]] = R[d] /\ (r[d] = d => R[d] = d)
      BY DEF Represents
    <3>2. R[d] # b
      BY <3>1
    <3> HIDE DEF new, h, c
    <3>3. QED  BY <1>4, <1>6, <1>7, <3>1, <3>2
  <2> HIDE DEF new
  <2>3. QED  BY <2>1, <2>2 DEF Represents
<1>9. IsAbove(above, new, D)
  <2> HIDE DEF new, h, c
  <2>1. QED  BY <1>2, <1>4, <1>5, <1>6 DEF IsAbove
<1>10. QED  BY <1>1, <1>4, <1>5, <1>6, <1>7, <1>8, <1>9

\* What the loop of Root has found so far, from b on.
Found(D, above, R, b) ==
  {at \in [root : D, roots : [D -> D]] :
     IsAbove(above, at.roots, D) /\ Represents(R, at.roots, D) /\ R[at.root] = R[b]}

LEMMA OnwardKeeps ==
  ASSUME NEW D, IsFiniteSet(D), NEW above, NEW R, NEW b \in D, NEW at \in Found(D, above, R, b)
  PROVE  /\ Model!Onward(at) \in Found(D, above, R, b)
         /\ Model!Onward(at) = at <=> at.roots[at.root] = at.root
         /\ Model!Onward(at) # at =>
              Cardinality(above[Model!Onward(at).root]) < Cardinality(above[at.root])
<1> DEFINE q == at.roots
           c == at.root
           new == [q EXCEPT ![c] = q[q[c]]]
           next == [root |-> q[q[c]], roots |-> new]
<1>1. /\ q \in [D -> D] /\ c \in D
      /\ IsAbove(above, q, D) /\ Represents(R, q, D) /\ R[c] = R[b]
  BY DEF Found
<1>2. CASE q[c] = c
  BY <1>2 DEF Model!Onward
<1>3. CASE q[c] # c
  <2>1. Model!Onward(at) = next
    BY <1>3 DEF Model!Onward
  <2>2. /\ new \in [D -> D] /\ IsAbove(above, new, D) /\ Represents(R, new, D)
        /\ above[q[q[c]]] \subseteq above[q[c]]
        /\ q[q[c]] \in D /\ q[q[c]] # c /\ R[q[q[c]]] = R[c]
    <3>1. q \in [D -> D] /\ c \in D /\ IsAbove(above, q, D) /\ Represents(R, q, D) /\ q[c] # c
      BY <1>1, <1>3
    <3> HIDE DEF q, c
    <3>2. new \in [D -> D]
      BY ONLY <3>1, HalvingKeeps
    <3>3. IsAbove(above, new, D)
      BY ONLY <3>1, HalvingKeeps
    <3>4. Represents(R, new, D)
      BY ONLY <3>1, HalvingKeeps
    <3>5. above[q[q[c]]] \subseteq above[q[c]]
      BY ONLY <3>1, HalvingKeeps
    <3>6. q[q[c]] \in D /\ q[q[c]] # c /\ R[q[q[c]]] = R[c]
      <4>1. q[c] \in D /\ q[q[c]] \in D
        BY ONLY <3>1
      <4>2. R[q[q[c]]] = R[c]
        BY ONLY <3>1, <4>1 DEF Represents
      <4>3. q[q[c]] # c
        BY ONLY <3>1, <4>1 DEF IsAbove
      <4>4. QED  BY <4>1, <4>2, <4>3
    <3>7. QED  BY <3>2, <3>3, <3>4, <3>5, <3>6
  <2>3. next.root = q[q[c]] /\ next.roots = new
    OBVIOUS
  <2>4. Cardinality(above[next.root]) < Cardinality(above[c])
    <3> HIDE DEF q, c, new, next
    <3>1. QED  BY <1>1, <1>3, <2>2, <2>3, HigherIsLess
  <2>5. next \in [root : D, roots : [D -> D]]
    BY <2>2
  <2> HIDE DEF new, next
  <2>6. next \in Found(D, above, R, b)
    BY <1>1, <2>2, <2>3, <2>5 DEF Found
  <2>7. next # at
    BY <2>2, <2>3
  <2>8. QED  BY <1>3, <2>1, <2>4, <2>6, <2>7
<1>4. QED  BY <1>2, <1>3

\* The model has its own Cardinality.
LEMMA SameCardinality == \A S : Model!Cardinality(S) = Cardinality(S)
BY DEF Model!Cardinality, Cardinality, Model!IsFiniteSet, IsFiniteSet

Walks(f, roots, body) ==
  f = [n \in Nat |-> IF n = 0 THEN [root |-> body, roots |-> roots] ELSE Model!Onward(f[n - 1])]

LEMMA FindIsWalk ==
  ASSUME NEW roots, NEW body
  PROVE  Model!Find(roots, body)
           = (CHOOSE f : Walks(f, roots, body))[Cardinality(DOMAIN roots)]
<1>1. Model!Find(roots, body)
        = (CHOOSE f : Walks(f, roots, body))[Model!Cardinality(DOMAIN roots)]
  BY DEF Model!Find, Walks
<1>2. QED  BY <1>1, SameCardinality

\* Root returns who represents a body, and leaves the forest as it was.
LEMMA FindFinds ==
  ASSUME NEW D, IsFiniteSet(D), NEW r \in [D -> D], NEW above, IsAbove(above, r, D),
         NEW R, Represents(R, r, D), NEW b \in D
  PROVE  /\ Model!Find(r, b).root = R[b]
         /\ Model!Find(r, b).roots \in [D -> D]
         /\ IsAbove(above, Model!Find(r, b).roots, D)
         /\ Represents(R, Model!Find(r, b).roots, D)
<1> DEFINE G == Found(D, above, R, b)
           F == [at \in G |-> Model!Onward(at)]
           x == [root |-> b, roots |-> r]
           height == [at \in G |-> Cardinality(above[at.root])]
           most == Cardinality(D)
<1>1. x \in G
  BY DEF Found
<1>2. F \in [G -> G] /\ \A at \in G : F[at] = Model!Onward(at)
  BY OnwardKeeps
<1>3. \A at \in G : at.root \in D /\ IsAbove(above, at.roots, D) /\ at.roots \in [D -> D]
  BY DEF Found
<1>4. \A at \in G : height[at] \in Nat /\ height[at] <= most
  BY <1>3, HigherIsLess
<1>5. most \in Nat
  BY FS_CardinalityType
<1>6. height \in [G -> Nat]
  BY <1>4
<1>7. \A at \in G : F[at] # at => height[F[at]] < height[at]
  <2>1. ASSUME NEW at \in G, F[at] # at  PROVE height[F[at]] < height[at]
    <3>1. F[at] = Model!Onward(at) /\ F[at] \in G
      BY <1>2
    <3>2. Cardinality(above[Model!Onward(at).root]) < Cardinality(above[at.root])
      BY <2>1, <3>1, OnwardKeeps
    <3>3. height[F[at]] = Cardinality(above[F[at].root]) /\ height[at] = Cardinality(above[at.root])
      BY <3>1
    <3>4. QED  BY <3>1, <3>2, <3>3
  <2>2. QED  BY <2>1
<1> HIDE DEF G, F, height, x, most
<1>8. \E f : Walks(f, r, b)
  <2>1. PICK f : Iterates(f, F, G, x)
    BY <1>1, <1>2, IteratesExist
  <2>2. f \in [Nat -> G] /\ f[0] = x /\ \A n \in Nat : f[n + 1] = Model!Onward(f[n])
    BY <1>2, <2>1 DEF Iterates
  <2>3. ASSUME NEW n \in Nat
        PROVE  f[n] = IF n = 0 THEN x ELSE Model!Onward(f[n - 1])
    <3>1. n # 0 => n - 1 \in Nat /\ (n - 1) + 1 = n
      OBVIOUS
    <3>2. n # 0 => f[(n - 1) + 1] = Model!Onward(f[n - 1])
      BY <2>2, <3>1
    <3>3. QED  BY <2>2, <3>1, <3>2
  <2>4. f = [n \in Nat |-> f[n]]
    BY <2>2
  <2>5. f = [n \in Nat |-> IF n = 0 THEN x ELSE Model!Onward(f[n - 1])]
    BY <2>3, <2>4
  <2>6. Walks(f, r, b)
    BY <2>5 DEF Walks, x
  <2>7. QED  BY <2>6
<1> DEFINE f == CHOOSE g : Walks(g, r, b)
<1>9. Walks(f, r, b)
  BY <1>8
<1> HIDE DEF f
<1>10. Iterates(f, F, G, x)
  <2>1. f = [n \in Nat |-> IF n = 0 THEN x ELSE Model!Onward(f[n - 1])]
    BY <1>9 DEF Walks, x
  <2>2. f[0] = x
    BY <2>1
  <2>3. \A n \in Nat : f[n + 1] = Model!Onward(f[n])
    <3>1. ASSUME NEW n \in Nat  PROVE f[n + 1] = Model!Onward(f[n])
      <4>1. n + 1 \in Nat /\ n + 1 # 0 /\ (n + 1) - 1 = n
        OBVIOUS
      <4>2. QED  BY <2>1, <4>1
    <3>2. QED  BY <3>1
  <2>4. \A n \in Nat : f[n] \in G
    <3> DEFINE T == {n \in Nat : f[n] \in G}
    <3>1. 0 \in T
      BY <1>1, <2>2
    <3>2. ASSUME NEW n \in Nat, n \in T  PROVE n + 1 \in T
      BY <1>2, <2>3, <3>2
    <3> HIDE DEF T
    <3>3. \A n \in Nat : n \in T
      BY <3>1, <3>2, Induction
    <3>4. QED  BY <3>3 DEF T
  <2>5. f \in [Nat -> G]
    BY <2>1, <2>4
  <2>6. QED  BY <1>2, <2>2, <2>3, <2>4, <2>5 DEF Iterates
<1>11. F[f[most]] = f[most]
  BY <1>1, <1>2, <1>4, <1>5, <1>6, <1>7, <1>10, IteratesStop
<1>12. Model!Find(r, b) = f[most]
  BY FindIsWalk DEF f, most
<1>13. f[most] \in G
  BY <1>5, <1>10 DEF Iterates
<1>14. Model!Onward(f[most]) = f[most]
  BY <1>2, <1>11, <1>13
<1>15. f[most].roots[f[most].root] = f[most].root
  BY <1>13, <1>14, OnwardKeeps DEF G
<1>16. f[most].root \in D /\ f[most].roots \in [D -> D] /\ IsAbove(above, f[most].roots, D)
       /\ Represents(R, f[most].roots, D) /\ R[f[most].root] = R[b]
  BY <1>13 DEF G, Found
<1>17. f[most].root = R[b]
  BY <1>15, <1>16 DEF Represents
<1>18. QED  BY <1>12, <1>16, <1>17

\* What holds of every body that is its own representative and is passed down to
\* those below holds of all.
LEMMA Climbing ==
  ASSUME NEW D, IsFiniteSet(D), NEW r \in [D -> D], NEW above, IsAbove(above, r, D),
         NEW S, \A b \in D : (r[b] = b => b \in S) /\ (r[b] \in S => b \in S)
  PROVE  \A b \in D : b \in S
<1> DEFINE height(b) == Cardinality(above[b])
           Low == {height(b) : b \in D \ S}
<1>1. SUFFICES ASSUME NEW c \in D, c \notin S  PROVE FALSE
  OBVIOUS
<1>2. \A b \in D : height(b) \in Nat
  BY HigherIsLess
<1>3. Low \subseteq Nat /\ Low # {}
  BY <1>1, <1>2
<1>4. PICK n \in Low : \A m \in Low : n <= m
  <2> HIDE DEF Low
  <2>1. QED  BY <1>3, Least
<1>5. PICK b \in D \ S : n = height(b)
  BY <1>4
<1>6. r[b] \in D /\ r[b] \notin S /\ r[b] # b
  BY <1>5
<1>7. height(r[b]) < height(b)
  BY <1>5, <1>6, HigherIsLess
<1>8. height(r[b]) \in Low
  BY <1>6
<1>9. height(b) <= height(r[b])
  BY <1>4, <1>5, <1>8
<1>10. height(b) \in Nat /\ height(r[b]) \in Nat
  BY <1>2, <1>6
<1> HIDE DEF height
<1>11. QED  BY <1>7, <1>9, <1>10

\* A body is represented by one body.
LEMMA OneRepresents ==
  ASSUME NEW D, IsFiniteSet(D), NEW r \in [D -> D], NEW above, IsAbove(above, r, D),
         NEW R, Represents(R, r, D), NEW Q, Represents(Q, r, D)
  PROVE  R = Q
<1> DEFINE S == {b \in D : R[b] = Q[b]}
<1>1. \A b \in D : (r[b] = b => b \in S) /\ (r[b] \in S => b \in S)
  BY DEF Represents
<1>2. \A b \in D : b \in S
  <2> HIDE DEF S
  <2>1. QED  BY <1>1, Climbing
<1>3. QED  BY <1>2 DEF Represents

Ups(f, r, b) == f = [n \in Nat |-> IF n = 0 THEN b ELSE r[f[n - 1]]]

LEMMA UpsIterate ==
  ASSUME NEW D, NEW r \in [D -> D], NEW b \in D
  PROVE  Iterates(CHOOSE f : Ups(f, r, b), r, D, b)
<1>1. \E f : Ups(f, r, b)
  <2>1. PICK f : Iterates(f, r, D, b)
    BY IteratesExist
  <2>2. f \in [Nat -> D] /\ f[0] = b /\ \A n \in Nat : f[n + 1] = r[f[n]]
    BY <2>1 DEF Iterates
  <2>3. ASSUME NEW n \in Nat  PROVE f[n] = IF n = 0 THEN b ELSE r[f[n - 1]]
    <3>1. n # 0 => n - 1 \in Nat /\ (n - 1) + 1 = n
      OBVIOUS
    <3>2. n # 0 => f[(n - 1) + 1] = r[f[n - 1]]
      BY <2>2, <3>1
    <3>3. QED  BY <2>2, <3>1, <3>2
  <2>4. f = [n \in Nat |-> f[n]]
    BY <2>2
  <2>5. f = [n \in Nat |-> IF n = 0 THEN b ELSE r[f[n - 1]]]
    BY <2>3, <2>4
  <2>6. Ups(f, r, b)
    BY <2>5 DEF Ups
  <2>7. QED  BY <2>6
<1> DEFINE f == CHOOSE g : Ups(g, r, b)
<1>2. Ups(f, r, b)
  BY <1>1
<1> HIDE DEF f
<1>3. f = [n \in Nat |-> IF n = 0 THEN b ELSE r[f[n - 1]]]
  BY <1>2 DEF Ups
<1>4. f[0] = b
  BY <1>3
<1>5. \A n \in Nat : f[n + 1] = r[f[n]]
  <2>1. ASSUME NEW n \in Nat  PROVE f[n + 1] = r[f[n]]
    <3>1. n + 1 \in Nat /\ n + 1 # 0 /\ (n + 1) - 1 = n
      OBVIOUS
    <3>2. QED  BY <1>3, <3>1
  <2>2. QED  BY <2>1
<1>6. \A n \in Nat : f[n] \in D
  <2> DEFINE T == {n \in Nat : f[n] \in D}
  <2>1. 0 \in T
    BY <1>4
  <2>2. ASSUME NEW n \in Nat, n \in T  PROVE n + 1 \in T
    BY <1>5, <2>2
  <2> HIDE DEF T
  <2>3. \A n \in Nat : n \in T
    BY <2>1, <2>2, Induction
  <2>4. QED  BY <2>3 DEF T
<1>7. f \in [Nat -> D]
  BY <1>3, <1>6
<1>8. Iterates(f, r, D, b)
  BY <1>4, <1>5, <1>7 DEF Iterates
<1>9. QED  BY <1>8 DEF f

\* The representatives are where the paths end.
RepresentativesOf(r, D) == [b \in D |-> (CHOOSE f : Ups(f, r, b))[Cardinality(D)]]

LEMMA PathsEnd ==
  ASSUME NEW D, IsFiniteSet(D), NEW r \in [D -> D], NEW above, IsAbove(above, r, D)
  PROVE  Represents(RepresentativesOf(r, D), r, D)
<1> DEFINE R == RepresentativesOf(r, D)
           most == Cardinality(D)
           f(b) == CHOOSE g : Ups(g, r, b)
           height == [b \in D |-> Cardinality(above[b])]
<1>1. most \in Nat
  BY FS_CardinalityType
<1>2. \A b \in D : Iterates(f(b), r, D, b)
  BY UpsIterate
<1>3. \A b \in D : R[b] = f(b)[most]
  BY DEF RepresentativesOf
<1>4. height \in [D -> Nat] /\ (\A b \in D : height[b] <= most)
      /\ \A b \in D : r[b] # b => height[r[b]] < height[b]
  BY HigherIsLess
<1> HIDE DEF R, most, f, height
<1>5. ASSUME NEW b \in D  PROVE R[b] \in D /\ r[R[b]] = R[b]
  <2>1. r[f(b)[most]] = f(b)[most]
    BY <1>1, <1>2, <1>4, IteratesStop
  <2>2. f(b)[most] \in D
    BY <1>1, <1>2 DEF Iterates
  <2>3. QED  BY <1>3, <2>1, <2>2
<1>6. ASSUME NEW b \in D, r[b] = b  PROVE R[b] = b
  <2> DEFINE T == {n \in Nat : f(b)[n] = b}
  <2>1. f(b)[0] = b /\ \A n \in Nat : f(b)[n + 1] = r[f(b)[n]]
    BY <1>2 DEF Iterates
  <2>2. 0 \in T
    BY <2>1
  <2>3. ASSUME NEW n \in Nat, n \in T  PROVE n + 1 \in T
    BY <1>6, <2>1, <2>3
  <2> HIDE DEF T
  <2>4. \A n \in Nat : n \in T
    BY <2>2, <2>3, Induction
  <2>5. QED  BY <1>1, <1>3, <2>4 DEF T
\* The path of the next body is the rest of that of b.
<1>7. ASSUME NEW b \in D  PROVE R[r[b]] = R[b]
  <2> DEFINE T == {n \in Nat : f(r[b])[n] = f(b)[n + 1]}
  <2>1. f(b)[0] = b /\ \A n \in Nat : f(b)[n + 1] = r[f(b)[n]]
    BY <1>2 DEF Iterates
  <2>2. f(r[b])[0] = r[b] /\ \A n \in Nat : f(r[b])[n + 1] = r[f(r[b])[n]]
    <3>1. r[b] \in D
      OBVIOUS
    <3>2. QED  BY <1>2, <3>1 DEF Iterates
  <2>3. 0 \in T
    BY <2>1, <2>2
  <2>4. ASSUME NEW n \in Nat, n \in T  PROVE n + 1 \in T
    <3>1. n + 1 \in Nat /\ f(r[b])[n] = f(b)[n + 1]
      BY <2>4
    <3>2. f(r[b])[n + 1] = r[f(b)[n + 1]] /\ f(b)[(n + 1) + 1] = r[f(b)[n + 1]]
      BY <2>1, <2>2, <3>1
    <3>3. QED  BY <3>1, <3>2
  <2> HIDE DEF T
  <2>5. \A n \in Nat : n \in T
    BY <2>3, <2>4, Induction
  <2>6. f(r[b])[most] = r[f(b)[most]]
    BY <1>1, <2>1, <2>5 DEF T
  <2>7. r[b] \in D
    OBVIOUS
  <2>8. R[r[b]] = f(r[b])[most] /\ R[b] = f(b)[most]
    BY <1>3, <2>7
  <2>9. QED  BY <1>5, <2>6, <2>8
<1>8. R \in [D -> D]
  BY <1>5 DEF R, RepresentativesOf
<1>9. Represents(R, r, D)
  BY <1>5, <1>6, <1>7, <1>8 DEF Represents
<1>10. QED  BY <1>9 DEF R

IsForest(r, above, R, D) == r \in [D -> D] /\ IsAbove(above, r, D) /\ Represents(R, r, D)

LEMMA AskingKeeps ==
  ASSUME NEW D, IsFiniteSet(D), NEW r, NEW above, NEW R, IsForest(r, above, R, D),
         NEW a \in D, NEW b \in D
  PROVE  /\ Model!AlreadyConnected(r, a, b).yes <=> R[a] = R[b]
         /\ Model!AlreadyConnected(r, a, b).yes \in BOOLEAN
         /\ IsForest(Model!AlreadyConnected(r, a, b).roots, above, R, D)
<1> DEFINE one == Model!Find(r, a)
           two == Model!Find(one.roots, b)
<1>1. one.root = R[a] /\ IsForest(one.roots, above, R, D)
  BY FindFinds DEF IsForest
<1> HIDE DEF one
<1>2. two.root = R[b] /\ IsForest(two.roots, above, R, D)
  BY <1>1, FindFinds DEF IsForest
<1>3. Model!AlreadyConnected(r, a, b) = [yes |-> one.root = two.root, roots |-> two.roots]
  BY DEF Model!AlreadyConnected, one
<1>4. /\ Model!AlreadyConnected(r, a, b).yes = (one.root = two.root)
      /\ Model!AlreadyConnected(r, a, b).roots = two.roots
  <2> HIDE DEF two
  <2>1. QED  BY <1>3
<1> HIDE DEF two
<1>5. QED  BY <1>1, <1>2, <1>4

\* Connecting puts the one tree, as it is, beneath the root of the other.
Moved(R, p, q, D) == [b \in D |-> IF R[b] = p THEN q ELSE R[b]]

LEMMA ConnectJoins ==
  ASSUME NEW D, IsFiniteSet(D), NEW r, NEW above, NEW R, IsForest(r, above, R, D),
         NEW a \in D, NEW b \in D, R[a] # R[b]
  PROVE  \E up : IsForest(Model!Connect(r, a, b), up, Moved(R, R[a], R[b], D), D)
<1> DEFINE two == Model!Find(r, b)
           one == Model!Find(two.roots, a)
           s == one.roots
           p == R[a]
           q == R[b]
           new == [s EXCEPT ![p] = q]
           up == [c \in D |-> IF R[c] = p THEN above[c] \cup {q} ELSE above[c]]
           Q == Moved(R, p, q, D)
<1>1. two.root = q /\ IsForest(two.roots, above, R, D)
  BY FindFinds DEF IsForest
<1> HIDE DEF two
<1>2. one.root = p /\ IsForest(s, above, R, D)
  BY <1>1, FindFinds DEF IsForest
<1>3. Model!Connect(r, a, b) = [s EXCEPT ![one.root] = two.root]
  BY DEF Model!Connect, two
<1> HIDE DEF one
<1>4. Model!Connect(r, a, b) = new
  BY <1>1, <1>2, <1>3
<1>5. p \in D /\ q \in D /\ p # q /\ R[p] = p /\ R[q] = q /\ s[p] = p /\ s[q] = q
  BY <1>2 DEF IsForest, Represents
<1>6. s \in [D -> D] /\ \A c \in D : R[c] \in D /\ s[c] \in D
  BY <1>2 DEF IsForest, Represents
<1> HIDE DEF s, p, q
<1>7. new \in [D -> D] /\ \A c \in D : new[c] = IF c = p THEN q ELSE s[c]
  BY <1>5, <1>6
<1>8. Q \in [D -> D] /\ \A c \in D : Q[c] = IF R[c] = p THEN q ELSE R[c]
  BY <1>5, <1>6 DEF Moved
<1>9. IsAbove(above, s, D) /\ Represents(R, s, D)
  BY <1>2 DEF IsForest
<1>10. up \in [D -> SUBSET D]
       /\ \A c \in D : up[c] = IF R[c] = p THEN above[c] \cup {q} ELSE above[c]
  BY <1>5, <1>9 DEF IsAbove
<1> HIDE DEF new, Q, up
<1>11. Represents(Q, new, D)
  <2>1. ASSUME NEW c \in D
        PROVE  Q[new[c]] = Q[c] /\ new[Q[c]] = Q[c] /\ (new[c] = c => Q[c] = c)
    <3>1. R[c] \in D /\ s[c] \in D /\ R[s[c]] = R[c] /\ s[R[c]] = R[c] /\ (s[c] = c => R[c] = c)
      BY <1>6, <1>9 DEF Represents
    <3>2. CASE R[c] = p
      BY <1>5, <1>7, <1>8, <3>1, <3>2
    <3>3. CASE R[c] # p
      BY <1>5, <1>7, <1>8, <3>1, <3>3
    <3>4. QED  BY <3>2, <3>3
  <2>2. QED  BY <1>8, <2>1 DEF Represents
<1>12. IsAbove(up, new, D)
  <2>1. ASSUME NEW c \in D
        PROVE  IF new[c] = c THEN up[c] = {}
               ELSE c \notin up[c] /\ new[c] \in up[c] /\ up[new[c]] \subseteq up[c]
    <3>1. IF s[c] = c THEN above[c] = {}
          ELSE c \notin above[c] /\ s[c] \in above[c] /\ above[s[c]] \subseteq above[c]
      BY <1>9 DEF IsAbove
    <3>2. R[s[c]] = R[c] /\ (s[c] = c => R[c] = c) /\ s[c] \in D
      BY <1>6, <1>9 DEF Represents
    <3>3. above[q] = {}
      BY <1>5, <1>9 DEF IsAbove
    <3>4. CASE c = p
      BY <1>5, <1>7, <1>10, <3>1, <3>3, <3>4
    <3>5. CASE c # p /\ s[c] = c
      BY <1>5, <1>7, <1>10, <3>1, <3>2, <3>5
    <3>6. CASE c # p /\ s[c] # c
      <4>1. c # q
        BY <1>5, <3>6
      <4>2. new[c] = s[c] /\ new[c] # c
        BY <1>7, <3>6
      <4>3. c \notin up[c] /\ s[c] \in up[c]
        BY <1>10, <3>1, <3>6, <4>1
      <4>4. up[s[c]] \subseteq up[c]
        BY <1>10, <3>1, <3>2, <3>6
      <4>5. QED  BY <4>2, <4>3, <4>4
    <3>7. QED  BY <3>4, <3>5, <3>6
  <2>2. QED  BY <1>10, <2>1 DEF IsAbove
<1>13. IsForest(Model!Connect(r, a, b), up, Q, D)
  BY <1>4, <1>7, <1>11, <1>12 DEF IsForest
<1>14. QED  BY <1>13 DEF Q, p, q

\* What the precheck has found when it has asked for the bodies up to n.
Asked(at) == Model!AlreadyConnected(at[2].roots, at[1] + 1, 0)

LEMMA PrecheckKnows ==
  ASSUME NEW N \in Nat, NEW above, NEW R, DOMAIN related_root = 0..N,
         IsForest(related_root, above, R, 0..N)
  PROVE  /\ Model!Precheck.reached <=> \A b \in 0..N : R[b] = R[0]
         /\ IsForest(Model!Precheck.roots, above, R, 0..N)
<1> DEFINE D == 0..N
           V == {found \in [reached : BOOLEAN, roots : [D -> D]] :
                   IsForest(found.roots, above, R, D)}
           S == {at \in D \X V : at[2].reached <=> \A b \in 0..at[1] : R[b] = R[0]}
           more(found, connected) ==
             [reached |-> found.reached /\ connected.yes, roots |-> connected.roots]
           F == [at \in S |-> IF at[1] = N THEN at ELSE <<at[1] + 1, more(at[2], Asked(at))>>]
           first == [reached |-> TRUE, roots |-> related_root]
           Asks(f) == f = [n \in 0..N |-> IF n = 0 THEN first
                             ELSE more(f[n - 1], Model!AlreadyConnected(f[n - 1].roots, n, 0))]
<1>1. IsFiniteSet(D) /\ 0 \in D /\ N \in D /\ Cardinality(D) = N + 1
  BY FS_Interval
<1>2. first \in V /\ first.reached = TRUE
  BY DEF IsForest
<1>3. <<0, first>> \in S
  <2> HIDE DEF V, first
  <2>1. \A b \in 0..0 : R[b] = R[0]
    OBVIOUS
  <2>2. <<0, first>> \in D \X V /\ <<0, first>>[1] = 0 /\ <<0, first>>[2] = first
    BY <1>1, <1>2
  <2>3. QED  BY <1>2, <2>1, <2>2
<1>4. ASSUME NEW at \in S  PROVE F[at] \in S
  <2>1. CASE at[1] = N
    BY <2>1
  <2>2. CASE at[1] # N
    <3> DEFINE n == at[1]
               connected == Asked(at)
               next == more(at[2], connected)
    <3>1. at[2] \in V /\ n \in D /\ n + 1 \in D /\ (at[2].reached <=> \A b \in 0..n : R[b] = R[0])
      <4> HIDE DEF V, F
      <4>1. at \in D \X V /\ (at[2].reached <=> \A b \in 0..n : R[b] = R[0])
        OBVIOUS
      <4>2. QED  BY <2>2, <4>1
    <3>2. IsForest(at[2].roots, above, R, D) /\ at[2].reached \in BOOLEAN
      BY <3>1
    <3>3. /\ connected.yes <=> R[n + 1] = R[0]
          /\ connected.yes \in BOOLEAN /\ IsForest(connected.roots, above, R, D)
      <4> HIDE DEF V, S, D
      <4>1. QED  BY <1>1, <3>1, <3>2, AskingKeeps DEF Asked
    <3>4. F[at] = <<n + 1, next>>
      BY <2>2
    <3> HIDE DEF connected
    <3>5. next \in V
      BY <3>2, <3>3 DEF IsForest
    <3>6. 0..(n + 1) = (0..n) \cup {n + 1}
      BY <3>1
    <3>7. next.reached <=> \A b \in 0..(n + 1) : R[b] = R[0]
      BY <3>1, <3>2, <3>3, <3>6
    <3> HIDE DEF next, V, F
    <3>8. <<n + 1, next>> \in S
      BY <3>1, <3>5, <3>7
    <3>9. QED  BY <3>4, <3>8
  <2>3. QED  BY <2>1, <2>2
<1>5. F \in [S -> S]
  BY <1>4
<1>6. \E f : Asks(f) /\ \A n \in 0..N : <<n, f[n]>> \in S
  <2> HIDE DEF F, S
  <2>1. PICK g : Iterates(g, F, S, <<0, first>>)
    BY <1>3, <1>5, IteratesExist
  <2>2. g[0] = <<0, first>> /\ \A n \in Nat : g[n + 1] = F[g[n]] /\ g[n] \in S
    BY <2>1 DEF Iterates
  <2>3. \A at \in S : at = <<at[1], at[2]>> /\ at[1] \in D
    BY DEF S
  <2>4. \A at \in S : F[at] = IF at[1] = N THEN at ELSE <<at[1] + 1, more(at[2], Asked(at))>>
    BY DEF F
  <2> DEFINE T == {n \in Nat : n <= N => g[n][1] = n}
  <2>5. 0 \in T
    BY <2>2
  <2>6. ASSUME NEW n \in Nat, n \in T  PROVE n + 1 \in T
    <3> SUFFICES ASSUME n + 1 <= N  PROVE g[n + 1][1] = n + 1
      OBVIOUS
    <3>1. g[n][1] = n /\ n # N
      BY <2>6
    <3>2. g[n + 1] = <<n + 1, more(g[n][2], Asked(g[n]))>>
      BY <2>2, <2>4, <3>1
    <3>3. QED  BY <3>2
  <2> HIDE DEF T
  <2>7. \A n \in 0..N : g[n][1] = n
    <3>1. \A n \in Nat : n \in T
      BY <2>5, <2>6, Induction
    <3>2. QED  BY <3>1 DEF T
  <2> DEFINE f == [n \in 0..N |-> g[n][2]]
  <2>8. \A n \in 0..N : <<n, f[n]>> \in S
    <3>1. ASSUME NEW n \in 0..N  PROVE <<n, f[n]>> \in S
      <4>1. g[n] \in S /\ g[n][1] = n
        <5>1. n \in Nat
          OBVIOUS
        <5>2. g[n] \in S
          BY <2>2, <5>1
        <5>3. QED  BY <2>7, <5>2
      <4>2. f[n] = g[n][2]
        OBVIOUS
      <4> HIDE DEF f
      <4>3. g[n] = <<n, f[n]>>
        BY <2>3, <4>1, <4>2
      <4>4. QED  BY <4>1, <4>3
    <3>2. QED  BY <3>1
  <2>9. ASSUME NEW n \in 0..N
        PROVE  f[n] = IF n = 0 THEN first
                      ELSE more(f[n - 1], Model!AlreadyConnected(f[n - 1].roots, n, 0))
    <3>1. CASE n = 0
      BY <2>2, <3>1
    <3>2. CASE n # 0
      <4> DEFINE m == n - 1
      <4>1. m \in Nat /\ m \in 0..N /\ m + 1 = n /\ m # N
        BY <3>2
      <4>2. g[m][1] = m /\ g[m][2] = f[m] /\ g[m] \in S
        BY <2>2, <2>7, <4>1
      <4> HIDE DEF m, more
      <4>3. g[n] = <<m + 1, more(g[m][2], Asked(g[m]))>>
        BY <2>2, <2>4, <4>1, <4>2
      <4>4. g[n][2] = more(f[m], Asked(g[m]))
        BY <4>2, <4>3
      <4>5. Asked(g[m]) = Model!AlreadyConnected(f[m].roots, n, 0)
        BY <4>1, <4>2 DEF Asked
      <4>6. f[n] = more(f[m], Model!AlreadyConnected(f[m].roots, n, 0))
        BY <4>4, <4>5
      <4>7. QED  BY <3>2, <4>6 DEF m
    <3>3. QED  BY <3>1, <3>2
  <2> HIDE DEF more
  <2>10. Asks(f)
    BY <2>9
  <2> HIDE DEF f, Asks
  <2>11. QED  BY <2>8, <2>10
<1> DEFINE f == CHOOSE g : Asks(g)
<1>7. Asks(f)
  BY <1>6
<1>8. \A n \in 0..N : <<n, f[n]>> \in S
  <2>1. PICK g : Asks(g) /\ \A n \in 0..N : <<n, g[n]>> \in S
    BY <1>6
  <2> DEFINE T == {n \in Nat : n \in 0..N => f[n] = g[n]}
  <2> HIDE DEF f, more, first
  <2>2. 0 \in T
    BY <1>7, <2>1
  <2>3. ASSUME NEW n \in Nat, n \in T  PROVE n + 1 \in T
    <3> SUFFICES ASSUME n + 1 \in 0..N  PROVE f[n + 1] = g[n + 1]
      OBVIOUS
    <3>1. n \in 0..N /\ f[n] = g[n] /\ n + 1 # 0 /\ (n + 1) - 1 = n
      BY <2>3
    <3>2. f[n + 1] = more(f[n], Model!AlreadyConnected(f[n].roots, n + 1, 0))
      BY <1>7, <3>1
    <3>3. g[n + 1] = more(g[n], Model!AlreadyConnected(g[n].roots, n + 1, 0))
      BY <2>1, <3>1
    <3>4. QED  BY <3>1, <3>2, <3>3
  <2> HIDE DEF T, Asks
  <2>4. \A n \in Nat : n \in T
    BY <2>2, <2>3, Induction
  <2>5. \A n \in 0..N : f[n] = g[n]
    BY <2>4 DEF T
  <2>6. QED  BY <2>1, <2>5
<1>9. Model!Precheck = f[N]
  <2>1. N = Model!Cardinality(Model!Ordinals) - 1
    BY <1>1, SameCardinality DEF Model!Ordinals
  <2>2. QED  BY <2>1 DEF Model!Precheck
<1> HIDE DEF f
<1>10. f[N].reached <=> \A b \in 0..N : R[b] = R[0]
  BY <1>1, <1>8
<1>11. IsForest(f[N].roots, above, R, D)
  BY <1>1, <1>8
<1>12. QED  BY <1>9, <1>10, <1>11
-----------------------------------------------------------------------------
(***************************************************************************)
(* The trees, and what the relations between bodies know of them.          *)
(***************************************************************************)
TreeOf(R, p, D) == {b \in D : R[b] = p}
TreesOf(R, D) == {TreeOf(R, p, D) : p \in {b \in D : R[b] = b}}

IsRepresentation(R, D) == R \in [D -> D] /\ \A b \in D : R[R[b]] = R[b]

Uncut(s, S) == s.parent \in S <=> s.child \in S

\* A relation stays within a tree, together the relations hold each tree together, and
\* without any one of them something comes apart.
Knows(relations, R, D) ==
  /\ \A s \in relations : s.parent \in D /\ s.child \in D /\ R[s.parent] = R[s.child]
  /\ \A S : (\A s \in relations : Uncut(s, S)) => \A b \in D : b \in S <=> R[b] \in S
  /\ \A s \in relations : \E C : ~Uncut(s, C) /\ \A t \in relations \ {s} : Uncut(t, C)

LEMMA TreesCover ==
  ASSUME NEW D, NEW R, IsRepresentation(R, D)
  PROVE  UNION TreesOf(R, D) = D
<1>1. \A b \in D : R[b] \in D /\ R[R[b]] = R[b] /\ b \in TreeOf(R, R[b], D)
  BY DEF IsRepresentation, TreeOf
<1>2. \A b \in D : \E one \in TreesOf(R, D) : b \in one
  BY <1>1 DEF TreesOf
<1>3. \A one \in TreesOf(R, D) : one \subseteq D
  BY DEF TreesOf, TreeOf
<1>4. QED  BY <1>2, <1>3

LEMMA TreesJoin ==
  ASSUME NEW D, NEW R, IsRepresentation(R, D), NEW a \in D, NEW b \in D, R[a] # R[b]
  PROVE  /\ IsRepresentation(Moved(R, R[a], R[b], D), D)
         /\ TreeOf(R, R[a], D) \in TreesOf(R, D) /\ TreeOf(R, R[b], D) \in TreesOf(R, D)
         /\ a \in TreeOf(R, R[a], D) /\ b \in TreeOf(R, R[b], D)
         /\ TreeOf(R, R[a], D) # TreeOf(R, R[b], D)
         /\ TreesOf(Moved(R, R[a], R[b], D), D)
              = (TreesOf(R, D) \ {TreeOf(R, R[a], D), TreeOf(R, R[b], D)})
                  \cup {TreeOf(R, R[a], D) \cup TreeOf(R, R[b], D)}
<1> DEFINE p == R[a]
           q == R[b]
           Q == Moved(R, p, q, D)
           one == TreeOf(R, p, D)
           other == TreeOf(R, q, D)
<1>1. p \in D /\ q \in D /\ R[p] = p /\ R[q] = q /\ \A c \in D : R[c] \in D /\ R[R[c]] = R[c]
  BY DEF IsRepresentation
<1>2. a \in one /\ b \in other /\ p \in one /\ q \in other
  BY <1>1 DEF TreeOf
<1> HIDE DEF p, q
<1>3. p # q
  BY DEF p, q
<1>4. one \in TreesOf(R, D) /\ other \in TreesOf(R, D)
  BY <1>1 DEF TreesOf
<1>5. one # other
  BY <1>2, <1>3 DEF TreeOf
<1>6. Q \in [D -> D] /\ \A c \in D : Q[c] = IF R[c] = p THEN q ELSE R[c]
  BY <1>1 DEF Moved
<1> HIDE DEF Q
<1>7. IsRepresentation(Q, D)
  BY <1>1, <1>3, <1>6 DEF IsRepresentation
<1>8. \A c \in D : Q[c] = c <=> R[c] = c /\ c # p
  BY <1>1, <1>3, <1>6
<1>9. TreeOf(Q, q, D) = one \cup other
  BY <1>6 DEF TreeOf
<1>10. \A c \in D : c # p /\ c # q => TreeOf(Q, c, D) = TreeOf(R, c, D)
  BY <1>6 DEF TreeOf
<1>11. \A c \in D : R[c] = c => (TreeOf(R, c, D) = one <=> c = p) /\ (TreeOf(R, c, D) = other <=> c = q)
  BY <1>1 DEF TreeOf
<1>12. ASSUME NEW some
       PROVE  some \in TreesOf(Q, D) <=> some \in (TreesOf(R, D) \ {one, other}) \cup {one \cup other}
  <2> HIDE DEF one, other
  <2>1. ASSUME some \in TreesOf(Q, D)
        PROVE  some \in (TreesOf(R, D) \ {one, other}) \cup {one \cup other}
    <3>1. PICK c \in D : Q[c] = c /\ some = TreeOf(Q, c, D)
      BY <2>1 DEF TreesOf
    <3>2. R[c] = c /\ c # p
      BY <1>8, <3>1
    <3>3. CASE c = q
      BY <1>9, <3>1, <3>3
    <3>4. CASE c # q
      <4>1. some = TreeOf(R, c, D)
        BY <1>10, <3>1, <3>2, <3>4
      <4>2. some \in TreesOf(R, D)
        BY <3>2, <4>1 DEF TreesOf
      <4>3. QED  BY <1>11, <3>2, <3>4, <4>1, <4>2
    <3>5. QED  BY <3>3, <3>4
  <2>2. ASSUME some \in TreesOf(R, D) \ {one, other}  PROVE some \in TreesOf(Q, D)
    <3>1. PICK c \in D : R[c] = c /\ some = TreeOf(R, c, D)
      BY <2>2 DEF TreesOf
    <3>2. c # p /\ c # q
      BY <2>2, <3>1 DEF one, other
    <3>3. Q[c] = c /\ some = TreeOf(Q, c, D)
      BY <1>8, <1>10, <3>1, <3>2
    <3>4. QED  BY <3>3 DEF TreesOf
  <2>3. one \cup other \in TreesOf(Q, D)
    <3>1. Q[q] = q
      BY <1>1, <1>3, <1>8
    <3>2. QED  BY <1>1, <1>9, <3>1 DEF TreesOf
  <2>4. QED  BY <2>1, <2>2, <2>3
<1>13. TreesOf(Q, D) = (TreesOf(R, D) \ {one, other}) \cup {one \cup other}
  <2> HIDE DEF one, other
  <2>1. QED  BY <1>12
<1>14. QED  BY <1>2, <1>4, <1>5, <1>7, <1>13 DEF p, q, Q

\* A relation between two trees is known of the tree they become.
LEMMA KnowsMore ==
  ASSUME NEW D, NEW R, IsRepresentation(R, D), NEW relations, Knows(relations, R, D),
         NEW s, s.parent \in D, s.child \in D, R[s.parent] # R[s.child]
  PROVE  Knows(relations \cup {s}, Moved(R, R[s.parent], R[s.child], D), D)
<1> DEFINE a == s.parent
           b == s.child
           p == R[a]
           q == R[b]
           Q == Moved(R, p, q, D)
           more == relations \cup {s}
           other == TreeOf(R, q, D)
<1>1. p \in D /\ q \in D /\ R[p] = p /\ R[q] = q /\ \A c \in D : R[c] \in D /\ R[R[c]] = R[c]
  BY DEF IsRepresentation
<1>2. Q \in [D -> D] /\ \A c \in D : Q[c] = IF R[c] = p THEN q ELSE R[c]
  BY <1>1 DEF Moved
<1>3. a \in D /\ b \in D /\ p = R[a] /\ q = R[b] /\ p # q
  OBVIOUS
<1>4. \A t \in relations : t.parent \in D /\ t.child \in D /\ R[t.parent] = R[t.child]
  BY DEF Knows
<1>5. s \notin relations
  BY <1>4
<1>6. \A t \in relations : Uncut(t, other)
  BY <1>4 DEF Uncut, TreeOf
<1>7. ~Uncut(s, other)
  BY <1>3 DEF Uncut, TreeOf
<1> HIDE DEF Q, p, q
<1>8. \A t \in more : t.parent \in D /\ t.child \in D /\ Q[t.parent] = Q[t.child]
  BY <1>2, <1>3, <1>4
<1>9. ASSUME NEW S, \A t \in more : Uncut(t, S), NEW c \in D  PROVE c \in S <=> Q[c] \in S
  <2>1. \A d \in D : d \in S <=> R[d] \in S
    BY <1>9 DEF Knows
  <2>2. a \in S <=> b \in S
    BY <1>9 DEF Uncut
  <2>3. p \in S <=> q \in S
    BY <1>3, <2>1, <2>2
  <2>4. QED  BY <1>2, <2>1, <2>3
<1>10. ASSUME NEW t \in more  PROVE \E C : ~Uncut(t, C) /\ \A k \in more \ {t} : Uncut(k, C)
  <2> HIDE DEF other
  <2>1. CASE t = s
    BY <1>6, <1>7, <2>1
  <2>2. CASE t # s
    <3>1. PICK C : ~Uncut(t, C) /\ \A k \in relations \ {t} : Uncut(k, C)
      BY <2>2 DEF Knows
    <3>2. CASE Uncut(s, C)
      <4>1. \A k \in more \ {t} : Uncut(k, C)
        BY <3>1, <3>2
      <4>2. QED  BY <3>1, <4>1
    <3>3. CASE ~Uncut(s, C)
      <4> DEFINE turned == (C \ other) \cup (other \ C)
      <4>1. \A k : Uncut(k, turned) <=> (Uncut(k, C) <=> Uncut(k, other))
        BY DEF Uncut
      <4> HIDE DEF turned
      <4>2. ~Uncut(t, turned)
        BY <1>6, <2>2, <3>1, <4>1
      <4>3. \A k \in more \ {t} : Uncut(k, turned)
        BY <1>6, <1>7, <3>1, <3>3, <4>1
      <4>4. QED  BY <4>2, <4>3
    <3>4. QED  BY <3>2, <3>3
  <2>3. QED  BY <2>1, <2>2
<1>11. Knows(more, Q, D)
  <2> HIDE DEF more
  <2>1. QED  BY <1>8, <1>9, <1>10 DEF Knows
<1>12. QED  BY <1>11 DEF p, q, Q

\* So is what is known when a body is added that is related to none.
LEMMA KnowsOneMore ==
  ASSUME NEW D, NEW R, IsRepresentation(R, D), NEW relations, Knows(relations, R, D),
         NEW new, new \notin D, NEW Q,
         Q = [b \in D \cup {new} |-> IF b = new THEN new ELSE R[b]]
  PROVE  /\ Knows(relations, Q, D \cup {new})
         /\ IsRepresentation(Q, D \cup {new})
         /\ TreesOf(Q, D \cup {new}) = TreesOf(R, D) \cup {{new}}
<1> DEFINE E == D \cup {new}
<1>1. \A b \in D : R[b] \in D /\ R[R[b]] = R[b] /\ b # new /\ Q[b] = R[b] /\ R[b] # new
  BY DEF IsRepresentation
<1>2. Q[new] = new /\ Q \in [E -> E]
  BY <1>1
<1>3. IsRepresentation(Q, E)
  BY <1>1, <1>2 DEF IsRepresentation
<1>4. \A t \in relations : t.parent \in D /\ t.child \in D /\ R[t.parent] = R[t.child]
  BY DEF Knows
<1>5. \A t \in relations : t.parent \in E /\ t.child \in E /\ Q[t.parent] = Q[t.child]
  BY <1>1, <1>4
<1>6. ASSUME NEW S, \A t \in relations : Uncut(t, S), NEW c \in E  PROVE c \in S <=> Q[c] \in S
  BY <1>1, <1>2, <1>6 DEF Knows
<1>7. \A t \in relations : \E C : ~Uncut(t, C) /\ \A k \in relations \ {t} : Uncut(k, C)
  BY DEF Knows
<1>8. Knows(relations, Q, E)
  <2> HIDE DEF E
  <2>1. QED  BY <1>5, <1>6, <1>7 DEF Knows
<1>9. \A p \in D : TreeOf(Q, p, E) = TreeOf(R, p, D) /\ (Q[p] = p <=> R[p] = p)
  BY <1>1, <1>2 DEF TreeOf
<1>10. TreeOf(Q, new, E) = {new}
  BY <1>1, <1>2 DEF TreeOf
<1>11. TreesOf(Q, E) = TreesOf(R, D) \cup {{new}}
  <2>1. {b \in E : Q[b] = b} = {b \in D : R[b] = b} \cup {new}
    BY <1>1, <1>2
  <2>2. TreesOf(Q, E) = {TreeOf(Q, p, E) : p \in {b \in D : R[b] = b}} \cup {TreeOf(Q, new, E)}
    BY <2>1 DEF TreesOf
  <2>3. {TreeOf(Q, p, E) : p \in {b \in D : R[b] = b}} = {TreeOf(R, p, D) : p \in {b \in D : R[b] = b}}
    BY <1>9
  <2>4. QED  BY <1>10, <2>2, <2>3 DEF TreesOf
<1>12. QED  BY <1>3, <1>8, <1>11

LEMMA ForestGrows ==
  ASSUME NEW D, NEW r, NEW above, NEW R, IsForest(r, above, R, D), NEW new, new \notin D,
         NEW wider, wider = [b \in D \cup {new} |-> IF b = new THEN new ELSE r[b]],
         NEW Q, Q = [b \in D \cup {new} |-> IF b = new THEN new ELSE R[b]]
  PROVE  \E up : IsForest(wider, up, Q, D \cup {new})
<1> DEFINE E == D \cup {new}
           up == [b \in E |-> IF b = new THEN {} ELSE above[b]]
<1>1. \A b \in D : r[b] \in D /\ R[b] \in D /\ above[b] \subseteq D /\ b # new
                   /\ r[b] # new /\ R[b] # new
  BY DEF IsForest, IsAbove, Represents
<1>2. /\ wider \in [E -> E] /\ wider[new] = new /\ \A b \in D : wider[b] = r[b]
      /\ Q \in [E -> E] /\ Q[new] = new /\ \A b \in D : Q[b] = R[b]
      /\ up \in [E -> SUBSET E] /\ up[new] = {} /\ \A b \in D : up[b] = above[b]
  BY <1>1
<1>3. \A b \in D : R[r[b]] = R[b] /\ r[R[b]] = R[b] /\ (r[b] = b => R[b] = b)
  BY DEF IsForest, Represents
<1>4. \A b \in D : IF r[b] = b THEN above[b] = {}
                   ELSE b \notin above[b] /\ r[b] \in above[b] /\ above[r[b]] \subseteq above[b]
  BY DEF IsForest, IsAbove
<1>5. \A b \in E : b = new \/ b \in D
  OBVIOUS
<1> HIDE DEF E, up
<1>6. Represents(Q, wider, E)
  BY <1>1, <1>2, <1>3, <1>5 DEF Represents
<1>7. IsAbove(up, wider, E)
  <2>1. ASSUME NEW b \in E
        PROVE  IF wider[b] = b THEN up[b] = {}
               ELSE b \notin up[b] /\ wider[b] \in up[b] /\ up[wider[b]] \subseteq up[b]
    <3>1. CASE b = new
      BY <1>2, <3>1
    <3>2. CASE b \in D
      BY <1>1, <1>2, <1>4, <3>2
    <3>3. QED  BY <1>5, <3>1, <3>2
  <2>2. QED  BY <1>2, <2>1 DEF IsAbove
<1>8. IsForest(wider, up, Q, E)
  BY <1>2, <1>6, <1>7 DEF IsForest
<1>9. QED  BY <1>8 DEF E

LEMMA RepresentsOnce ==
  ASSUME NEW D, NEW r, NEW above, NEW R, IsForest(r, above, R, D)
  PROVE  IsRepresentation(R, D) /\ \A b \in D : r[b] = b <=> R[b] = b
<1>1. \A b \in D : R[b] \in D /\ R[r[b]] = R[b] /\ r[R[b]] = R[b] /\ (r[b] = b => R[b] = b)
  BY DEF IsForest, Represents
<1>2. R \in [D -> D]
  BY DEF IsForest, Represents
<1>3. QED  BY <1>1, <1>2 DEF IsRepresentation

\* The trees the model speaks of are those of its union-find.
LEMMA TreesAreKnown ==
  ASSUME NEW D, IsFiniteSet(D), NEW r, NEW above, NEW R, IsForest(r, above, R, D)
  PROVE  {{b \in D : (CHOOSE f : Ups(f, r, b))[Cardinality(D)] = p} :
             p \in {b \in D : r[b] = b}} = TreesOf(R, D)
<1> DEFINE end(b) == (CHOOSE f : Ups(f, r, b))[Cardinality(D)]
<1>1. \A b \in D : RepresentativesOf(r, D)[b] = end(b)
  BY DEF RepresentativesOf
<1>2. RepresentativesOf(r, D) = R
  BY PathsEnd, OneRepresents DEF IsForest
<1>3. \A b \in D : end(b) = R[b]
  BY <1>1, <1>2
<1> HIDE DEF end
<1>4. \A p : {b \in D : end(b) = p} = TreeOf(R, p, D)
  BY <1>3 DEF TreeOf
<1>5. {b \in D : r[b] = b} = {b \in D : R[b] = b}
  BY RepresentsOnce
<1>6. {{b \in D : end(b) = p} : p \in {b \in D : r[b] = b}} = TreesOf(R, D)
  BY <1>4, <1>5 DEF TreesOf
<1>7. QED  BY <1>6 DEF end

LEMMA ModelTrees ==
  Model!Trees = {{b \in DOMAIN related_root :
                    (CHOOSE f : Ups(f, related_root, b))[Cardinality(DOMAIN related_root)] = p} :
                   p \in {b \in DOMAIN related_root : related_root[b] = b}}
<1>1. \A b : Model!Representative(b)
               = (CHOOSE f : Ups(f, related_root, b))[Cardinality(DOMAIN related_root)]
  BY SameCardinality DEF Model!Representative, Model!Ordinals, Ups
<1>2. QED  BY <1>1 DEF Model!Trees, Model!Ordinals

LEMMA ModelTreesNext ==
  Model!Trees' = {{b \in DOMAIN related_root' :
                    (CHOOSE f : Ups(f, related_root', b))[Cardinality(DOMAIN related_root')] = p} :
                   p \in {b \in DOMAIN related_root' : related_root'[b] = b}}
<1>1. \A b : Model!Representative(b)'
               = (CHOOSE f : Ups(f, related_root', b))[Cardinality(DOMAIN related_root')]
  BY SameCardinality DEF Model!Representative, Model!Ordinals, Ups
<1>2. QED  BY <1>1 DEF Model!Trees, Model!Ordinals
-----------------------------------------------------------------------------
(***************************************************************************)
(* Finalize.  The tree grows level by level from the world.                *)
(***************************************************************************)
Wider(within, joined) ==
  within \cup {joint.child : joint \in {k \in joined : k.parent \in within}}
         \cup {joint.parent : joint \in {k \in joined : k.child \in within}}

Levels(f, joined) == f = [n \in Nat |-> IF n = 0 THEN {0} ELSE Wider(f[n - 1], joined)]

LEMMA GrownIsLevels ==
  ASSUME NEW joined
  PROVE  Model!Grown(joined) = CHOOSE f : Levels(f, joined)
BY DEF Model!Grown, Levels, Wider

LEMMA WiderIsMore ==
  ASSUME NEW within, NEW joined
  PROVE  /\ within \subseteq Wider(within, joined)
         /\ \A joint \in joined : (joint.parent \in within => joint.child \in Wider(within, joined))
                               /\ (joint.child \in within => joint.parent \in Wider(within, joined))
         /\ \A b \in Wider(within, joined) :
              \/ b \in within
              \/ \E joint \in joined : \/ joint.parent \in within /\ b = joint.child
                                       \/ joint.child \in within /\ b = joint.parent
BY DEF Wider

LEMMA LevelsIterate ==
  ASSUME NEW D, 0 \in D, NEW joined, \A joint \in joined : joint.parent \in D /\ joint.child \in D
  PROVE  Iterates(Model!Grown(joined), [within \in SUBSET D |-> Wider(within, joined)],
                  SUBSET D, {0})
<1> DEFINE F == [within \in SUBSET D |-> Wider(within, joined)]
<1>1. F \in [SUBSET D -> SUBSET D]
  <2>1. ASSUME NEW within \in SUBSET D  PROVE Wider(within, joined) \subseteq D
    BY WiderIsMore
  <2>2. QED  BY <2>1
<1>2. {0} \in SUBSET D /\ \A within \in SUBSET D : F[within] = Wider(within, joined)
  OBVIOUS
<1> HIDE DEF F
<1>3. \E f : Levels(f, joined)
  <2>1. PICK f : Iterates(f, F, SUBSET D, {0})
    BY <1>1, <1>2, IteratesExist
  <2>2. f \in [Nat -> SUBSET D] /\ f[0] = {0} /\ \A n \in Nat : f[n + 1] = Wider(f[n], joined)
    BY <1>2, <2>1 DEF Iterates
  <2>3. ASSUME NEW n \in Nat  PROVE f[n] = IF n = 0 THEN {0} ELSE Wider(f[n - 1], joined)
    <3>1. n # 0 => n - 1 \in Nat /\ (n - 1) + 1 = n
      OBVIOUS
    <3>2. n # 0 => f[(n - 1) + 1] = Wider(f[n - 1], joined)
      BY <2>2, <3>1
    <3>3. QED  BY <2>2, <3>1, <3>2
  <2>4. f = [n \in Nat |-> f[n]]
    BY <2>2
  <2>5. f = [n \in Nat |-> IF n = 0 THEN {0} ELSE Wider(f[n - 1], joined)]
    BY <2>3, <2>4
  <2>6. Levels(f, joined)
    BY <2>5 DEF Levels
  <2>7. QED  BY <2>6
<1> DEFINE f == CHOOSE g : Levels(g, joined)
<1>4. Levels(f, joined)
  BY <1>3
<1> HIDE DEF f
<1>5. f = [n \in Nat |-> IF n = 0 THEN {0} ELSE Wider(f[n - 1], joined)]
  BY <1>4 DEF Levels
<1>6. f[0] = {0}
  BY <1>5
<1>7. \A n \in Nat : f[n + 1] = Wider(f[n], joined)
  <2>1. ASSUME NEW n \in Nat  PROVE f[n + 1] = Wider(f[n], joined)
    <3>1. n + 1 \in Nat /\ n + 1 # 0 /\ (n + 1) - 1 = n
      OBVIOUS
    <3>2. QED  BY <1>5, <3>1
  <2>2. QED  BY <2>1
<1>8. \A n \in Nat : f[n] \in SUBSET D
  <2> DEFINE T == {n \in Nat : f[n] \in SUBSET D}
  <2>1. 0 \in T
    BY <1>2, <1>6
  <2>2. ASSUME NEW n \in Nat, n \in T  PROVE n + 1 \in T
    <3>1. f[n + 1] = F[f[n]] /\ f[n] \in SUBSET D
      BY <1>2, <1>7, <2>2
    <3>2. QED  BY <1>1, <3>1
  <2> HIDE DEF T
  <2>3. \A n \in Nat : n \in T
    BY <2>1, <2>2, Induction
  <2>4. QED  BY <2>3 DEF T
<1>9. f \in [Nat -> SUBSET D]
  BY <1>5, <1>8
<1>10. Iterates(f, F, SUBSET D, {0})
  BY <1>2, <1>6, <1>7, <1>8, <1>9 DEF Iterates
<1>11. QED  BY <1>10, GrownIsLevels DEF F, f

\* If only all bodies together are closed, the last level is all bodies.
LEMMA LastLevel ==
  ASSUME NEW D, IsFiniteSet(D), 0 \in D,
         NEW joined, \A joint \in joined : joint.parent \in D /\ joint.child \in D,
         \A S \in SUBSET D : 0 \in S /\ (\A joint \in joined : Uncut(joint, S)) => S = D
  PROVE  Model!Grown(joined)[Cardinality(D)] = D
<1> DEFINE F == [within \in SUBSET D |-> Wider(within, joined)]
           f == Model!Grown(joined)
           most == Cardinality(D)
           height == [within \in SUBSET D |-> most - Cardinality(within)]
<1>1. Iterates(f, F, SUBSET D, {0}) /\ {0} \in SUBSET D
  BY LevelsIterate
<1>2. F \in [SUBSET D -> SUBSET D]
  <2>1. ASSUME NEW within \in SUBSET D  PROVE Wider(within, joined) \subseteq D
    BY WiderIsMore
  <2>2. QED  BY <2>1
<1>3. most \in Nat /\ \A within \in SUBSET D :
        IsFiniteSet(within) /\ Cardinality(within) \in Nat /\ Cardinality(within) <= most
  BY FS_CardinalityType, FS_Subset
<1>4. ASSUME NEW within \in SUBSET D  PROVE height[within] \in Nat /\ height[within] <= most
  <2> HIDE DEF most
  <2>1. QED  BY <1>3
<1>5. height \in [SUBSET D -> Nat]
  BY <1>4
<1>6. ASSUME NEW within \in SUBSET D, F[within] # within  PROVE height[F[within]] < height[within]
  <2>1. F[within] \in SUBSET D /\ within \subseteq F[within]
    BY <1>2, WiderIsMore
  <2>2. Cardinality(within) < Cardinality(F[within])
    <3> HIDE DEF F
    <3>1. QED  BY <1>3, <1>6, <2>1, FS_Subset, FS_CardinalityType
  <2>3. height[F[within]] = most - Cardinality(F[within]) /\ height[within] = most - Cardinality(within)
    BY <2>1
  <2> HIDE DEF F, most, height
  <2>4. QED  BY <1>3, <2>1, <2>2, <2>3
<1>7. F[f[most]] = f[most]
  <2> DEFINE S == SUBSET D
             x == {0}
  <2> HIDE DEF F, f, most, height
  <2>1. F \in [S -> S] /\ x \in S /\ Iterates(f, F, S, x) /\ height \in [S -> Nat]
    BY <1>1, <1>2, <1>5
  <2>2. \A y \in S : F[y] # y => height[F[y]] < height[y]
    BY <1>6
  <2>3. most \in Nat /\ height[x] <= most
    BY <1>3, <1>4, <2>1
  <2> HIDE DEF S, x
  <2>4. QED  BY <2>1, <2>2, <2>3, IteratesStop
<1>8. f[most] \in SUBSET D /\ \A n \in Nat : f[n] \subseteq F[f[n]] /\ f[n + 1] = F[f[n]] /\ f[n] \in SUBSET D
  <2>1. \A n \in Nat : f[n] \in SUBSET D /\ f[n + 1] = F[f[n]]
    <3> HIDE DEF F, f
    <3>1. QED  BY <1>1 DEF Iterates
  <2> HIDE DEF f
  <2>2. \A n \in Nat : f[n] \subseteq F[f[n]]
    BY <2>1, WiderIsMore
  <2>3. QED  BY <1>3, <2>1, <2>2
<1>9. 0 \in f[most]
  <2> DEFINE T == {n \in Nat : 0 \in f[n]}
  <2>1. 0 \in T
    <3> HIDE DEF f
    <3>1. QED  BY <1>1 DEF Iterates
  <2>2. ASSUME NEW n \in Nat, n \in T  PROVE n + 1 \in T
    <3> HIDE DEF f, F
    <3>1. QED  BY <1>8, <2>2
  <2> HIDE DEF T
  <2>3. \A n \in Nat : n \in T
    BY <2>1, <2>2, Induction
  <2>4. QED  BY <1>3, <2>3 DEF T
<1>10. ASSUME NEW joint \in joined  PROVE Uncut(joint, f[most])
  <2>1. Wider(f[most], joined) = f[most]
    BY <1>7, <1>8
  <2> HIDE DEF f, most
  <2>2. QED  BY <2>1, WiderIsMore DEF Uncut
<1> HIDE DEF f, most
<1>11. f[most] = D
  BY <1>8, <1>9, <1>10
<1>12. QED  BY <1>11 DEF f, most

Around(s, relations, side) ==
  0 \in side /\ \A t \in relations \ {s} : t.parent \in side <=> t.child \in side

LEMMA ReverseIsFacing ==
  ASSUME NEW D, IsFiniteSet(D), 0 \in D, NEW R, NEW relations, Knows(relations, R, D),
         \A b \in D : R[b] = R[0], Model!Ordinals = D, NEW joined,
         joined = {Model!Joint(s.parent, s.child, s.kind) : s \in relations},
         NEW s \in relations
  PROVE  Model!MustReverse(Model!Joint(s.parent, s.child, s.kind), joined)
           <=> \A side \in SUBSET D : Around(s, relations, side) => s.child \in side
<1> DEFINE f == Model!Grown(joined)
           most == Cardinality(D)
           a == s.parent
           b == s.child
<1>1. \A t \in relations : t.parent \in D /\ t.child \in D
  BY DEF Knows
<1>2. /\ \A t \in relations : \E k \in joined : k.parent = t.parent /\ k.child = t.child
      /\ \A k \in joined : \E t \in relations : k.parent = t.parent /\ k.child = t.child
  <2>1. \A t \in relations : Model!Joint(t.parent, t.child, t.kind) \in joined
    OBVIOUS
  <2>2. \A k \in joined : \E t \in relations : k = Model!Joint(t.parent, t.child, t.kind)
    OBVIOUS
  <2>3. \A p, c, kind : Model!Joint(p, c, kind).parent = p /\ Model!Joint(p, c, kind).child = c
    BY DEF Model!Joint
  <2>4. QED  BY <2>1, <2>2, <2>3
<1>3. most \in Nat
  BY FS_CardinalityType
<1>4. Model!MustReverse(Model!Joint(a, b, s.kind), joined)
        <=> \E n \in 0..most : b \in f[n] /\ a \notin f[n]
  BY SameCardinality DEF Model!MustReverse, Model!Joint
<1>5. \A joint \in joined : joint.parent \in D /\ joint.child \in D
  BY <1>1, <1>2
<1>6. /\ f[0] = {0}
      /\ \A n \in Nat : f[n] \in SUBSET D /\ f[n + 1] = Wider(f[n], joined)
  <2> HIDE DEF f
  <2>1. Iterates(f, [within \in SUBSET D |-> Wider(within, joined)], SUBSET D, {0})
    BY <1>5, LevelsIterate DEF f
  <2>2. QED  BY <2>1 DEF Iterates
<1>7. f[most] = D
  <2>1. ASSUME NEW S \in SUBSET D, 0 \in S, \A joint \in joined : Uncut(joint, S)
        PROVE  S = D
    <3>1. \A t \in relations : Uncut(t, S)
      BY <1>2, <2>1 DEF Uncut
    <3>2. \A c \in D : c \in S <=> R[c] \in S
      BY <3>1 DEF Knows
    <3>3. \A c \in D : c \in S
      BY <2>1, <3>2
    <3>4. QED  BY <3>3
  <2>2. QED  BY <1>5, <2>1, LastLevel
<1> HIDE DEF f, most, a, b
\* As long as a level has the child and not the parent, no side that has the world
\* lacks the level.
<1>8. ASSUME NEW n \in 0..most, b \in f[n], a \notin f[n],
             NEW side \in SUBSET D, Around(s, relations, side)
      PROVE  b \in side
  <2>1. \A m \in Nat : f[m] \subseteq f[m + 1]
    <3>1. ASSUME NEW m \in Nat  PROVE f[m] \subseteq f[m + 1]
      <4>1. f[m + 1] = Wider(f[m], joined)
        BY <1>6
      <4>2. QED  BY <4>1, WiderIsMore
    <3>2. QED  BY <3>1
  <2> DEFINE T == {m \in Nat : a \in f[m] \/ f[m] \subseteq side}
  <2>2. 0 \in T
    BY <1>6, <1>8 DEF Around
  <2>3. ASSUME NEW m \in Nat, m \in T  PROVE m + 1 \in T
    <3> SUFFICES ASSUME a \notin f[m + 1]  PROVE f[m + 1] \subseteq side
      OBVIOUS
    <3>1. a \notin f[m] /\ f[m] \subseteq side
      BY <2>1, <2>3
    <3>2. ASSUME NEW c \in f[m + 1]  PROVE c \in side
      <4>1. CASE c \in f[m]
        BY <3>1, <4>1
      <4>2. CASE c \notin f[m]
        <5>1. PICK joint \in joined : \/ joint.parent \in f[m] /\ c = joint.child
                                      \/ joint.child \in f[m] /\ c = joint.parent
          <6>1. f[m + 1] = Wider(f[m], joined)
            BY <1>6
          <6>2. QED  BY <3>2, <4>2, <6>1, WiderIsMore
        <5>2. PICK t \in relations : joint.parent = t.parent /\ joint.child = t.child
          BY <1>2
        <5>3. t # s
          BY <3>1, <3>2, <5>1, <5>2 DEF a
        <5>4. t.parent \in side <=> t.child \in side
          BY <1>8, <5>3 DEF Around
        <5>5. QED  BY <3>1, <5>1, <5>2, <5>4
      <4>3. QED  BY <4>1, <4>2
    <3>3. QED  BY <3>2
  <2> HIDE DEF T
  <2>4. \A m \in Nat : m \in T
    BY <2>2, <2>3, Induction
  <2>5. n \in Nat
    BY <1>3
  <2>6. QED  BY <1>8, <2>4, <2>5 DEF T
\* The first level that has the child has not come past the relation.
<1>9. ASSUME \A side \in SUBSET D : Around(s, relations, side) => b \in side
      PROVE  \E n \in 0..most : b \in f[n] /\ a \notin f[n]
  <2>1. PICK C : ~Uncut(s, C) /\ \A t \in relations \ {s} : Uncut(t, C)
    BY DEF Knows
  <2> DEFINE side == IF 0 \in C THEN C \cap D ELSE D \ C
  <2>2. side \in SUBSET D /\ 0 \in side
    OBVIOUS
  <2>3. \A t \in relations : Uncut(t, side) <=> Uncut(t, C)
    BY <1>1 DEF Uncut
  <2> HIDE DEF side
  <2>4. Around(s, relations, side)
    BY <2>1, <2>2, <2>3 DEF Around, Uncut
  <2>5. b \in side /\ a \notin side
    BY <1>9, <2>1, <2>2, <2>3, <2>4 DEF Uncut, a, b
  <2> DEFINE T == {m \in Nat : b \in f[m]}
  <2>6. most \in T
    BY <1>1, <1>3, <1>7 DEF b
  <2>7. PICK n \in T : \A m \in T : n <= m
    <3>1. T \subseteq Nat /\ T # {}
      BY <2>6
    <3> HIDE DEF T
    <3>2. QED  BY <3>1, Least
  <2>8. n \in 0..most /\ b \in f[n]
    BY <1>3, <2>6, <2>7
  <2> DEFINE U == {m \in Nat : m <= n => f[m] \subseteq side}
  <2>9. 0 \in U
    BY <1>6, <2>2
  <2>10. ASSUME NEW m \in Nat, m \in U  PROVE m + 1 \in U
    <3> SUFFICES ASSUME m + 1 <= n  PROVE f[m + 1] \subseteq side
      OBVIOUS
    <3>1. f[m] \subseteq side
      BY <2>8, <2>10
    <3>2. b \notin f[m]
      <4>1. ~ (n <= m)
        BY <2>8
      <4>2. QED  BY <2>7, <4>1
    <3>3. a \notin f[m]
      BY <2>5, <3>1
    <3>4. ASSUME NEW c \in f[m + 1]  PROVE c \in side
      <4>1. CASE c \in f[m]
        BY <3>1, <4>1
      <4>2. CASE c \notin f[m]
        <5>1. PICK joint \in joined : \/ joint.parent \in f[m] /\ c = joint.child
                                      \/ joint.child \in f[m] /\ c = joint.parent
          <6>1. f[m + 1] = Wider(f[m], joined)
            BY <1>6
          <6>2. QED  BY <3>4, <4>2, <6>1, WiderIsMore
        <5>2. PICK t \in relations : joint.parent = t.parent /\ joint.child = t.child
          BY <1>2
        <5>3. t # s
          BY <3>2, <3>3, <5>1, <5>2 DEF a, b
        <5>4. t.parent \in side <=> t.child \in side
          BY <2>4, <5>3 DEF Around
        <5>5. QED  BY <3>1, <5>1, <5>2, <5>4
      <4>3. QED  BY <4>1, <4>2
    <3>5. QED  BY <3>4
  <2> HIDE DEF U
  <2>11. \A m \in Nat : m \in U
    BY <2>9, <2>10, Induction
  <2>12. f[n] \subseteq side
    BY <2>8, <2>11 DEF U
  <2>13. QED  BY <2>5, <2>8, <2>12
<1>10. QED  BY <1>4, <1>8, <1>9 DEF a, b
-----------------------------------------------------------------------------
(***************************************************************************)
(* The model's union-find knows its trees and relations, whatever was      *)
(* stated and refused so far.                                              *)
(***************************************************************************)
IsKnown(r, relations, above, R, N) ==
  DOMAIN r = 0..N /\ IsForest(r, above, R, 0..N) /\ Knows(relations, R, 0..N)

LEMMA ModelTreesAre ==
  ASSUME NEW relations, NEW N \in Nat, NEW above, NEW R, IsKnown(related_root, relations, above, R, N)
  PROVE  Model!Trees = TreesOf(R, 0..N)
<1> DEFINE D == DOMAIN related_root
<1>1. D = 0..N /\ IsForest(related_root, above, R, D) /\ IsFiniteSet(D)
  BY FS_Interval DEF IsKnown
<1>2. Model!Trees = TreesOf(R, D)
  BY <1>1, ModelTrees, TreesAreKnown
<1>3. QED  BY <1>1, <1>2

LEMMA ModelTreesAreNext ==
  ASSUME NEW relations, NEW N \in Nat, NEW above, NEW R,
         IsKnown(related_root', relations, above, R, N)
  PROVE  Model!Trees' = TreesOf(R, 0..N)
<1> DEFINE D == DOMAIN related_root'
<1>1. D = 0..N /\ IsForest(related_root', above, R, D) /\ IsFiniteSet(D)
  BY FS_Interval DEF IsKnown
<1>2. Model!Trees' = TreesOf(R, D)
  BY <1>1, ModelTreesNext, TreesAreKnown
<1>3. QED  BY <1>1, <1>2

BodiesFit ==
  /\ \A name \in DOMAIN frame_body : frame_body[name] \in DOMAIN related_root
  /\ is_free \subseteq DOMAIN related_root \ {0}
  /\ IsFiniteSet(DOMAIN joints) /\ DOMAIN joints \subseteq CallerName
  /\ \A name \in DOMAIN joints : \E parent, child \in DOMAIN related_root, kind \in Kind :
       joints[name] = Model!Joint(parent, child, kind)

StageFits ==
  /\ stage \in {"building", "finalized", "failed"}
  /\ stage = "building" => tree = joints

ForestInv ==
  /\ \E N \in Nat : \E above, R : IsKnown(related_root, Model!Stated, above, R, N)
  /\ BodiesFit
  /\ StageFits

LEMMA ModelStarts == Model!Init => ForestInv /\ Model!Promised!Init
<1> SUFFICES ASSUME Model!Init  PROVE ForestInv /\ Model!Promised!Init
  OBVIOUS
<1> USE DEF Model!Init
<1> DEFINE D == 0..0
           above == [b \in D |-> {}]
           R == [b \in D |-> b]
<1>1. D = {0} /\ related_root = [b \in {0} |-> 0] /\ IsFiniteSet(D)
  <2>1. D = {0} /\ related_root = [b \in {0} |-> 0]
    OBVIOUS
  <2>2. IsFiniteSet({0})
    BY FS_Singleton
  <2>3. QED  BY <2>1, <2>2
<1>2. IsForest(related_root, above, R, D)
  BY <1>1 DEF IsForest, IsAbove, Represents
<1>3. joints = [name \in {} |-> Model!Joint(0, 0, "free")] /\ DOMAIN joints = {}
  OBVIOUS
<1>4. Model!Stated = {}
  BY <1>3 DEF Model!Stated
<1>5. Knows(Model!Stated, R, D)
  BY <1>1, <1>4 DEF Knows
<1>6. DOMAIN related_root = D
  BY <1>1
<1>7. IsKnown(related_root, Model!Stated, above, R, 0)
  BY <1>2, <1>5, <1>6 DEF IsKnown
<1>8. BodiesFit /\ StageFits
  BY <1>1, <1>3, FS_EmptySet DEF BodiesFit, StageFits
<1>9. ForestInv
  BY <1>7, <1>8 DEF ForestInv
<1>10. TreesOf(R, D) = {{0}}
  BY <1>1 DEF TreesOf, TreeOf
<1>11. Model!Trees = {{0}}
  <2> HIDE DEF above, R, D
  <2>1. Model!Trees = TreesOf(R, D)
    BY <1>1, <1>2, <1>6, ModelTrees, TreesAreKnown
  <2>2. QED  BY <1>10, <2>1
<1>12. Model!Promised!Init
  BY <1>4, <1>11 DEF Model!Promised!Init
<1>13. QED  BY <1>9, <1>12

\* A call that is refused has at most shortened paths.
LEMMA OnlyPathsChange ==
  ASSUME ForestInv, UNCHANGED <<frame_body, is_free, joints, tree, stage>>,
         NEW N \in Nat, NEW above, NEW R, IsKnown(related_root, Model!Stated, above, R, N),
         IsForest(related_root', above, R, 0..N)
  PROVE  ForestInv' /\ UNCHANGED Model!Promised!vars
<1>1. IsFiniteSet(0..N)
  BY FS_Interval
<1>2. DOMAIN related_root' = 0..N /\ DOMAIN related_root = 0..N
  BY DEF IsKnown, IsForest
<1>3. Model!Stated' = Model!Stated
  BY DEF Model!Stated
<1>4. IsKnown(related_root', Model!Stated', above, R, N)
  BY <1>2, <1>3 DEF IsKnown
<1>5. BodiesFit' /\ StageFits'
  BY <1>2 DEF ForestInv, BodiesFit, StageFits
<1>6. ForestInv'
  BY <1>4, <1>5 DEF ForestInv
<1>7. Model!Trees = TreesOf(R, 0..N)
  BY ModelTreesAre
<1>8. Model!Trees' = TreesOf(R, 0..N)
  BY <1>4, ModelTreesAreNext
<1>9. UNCHANGED Model!Promised!vars
  BY <1>3, <1>7, <1>8 DEF Model!Promised!vars, Model!InTree
<1>10. QED  BY <1>6, <1>9

LEMMA BodiesAre ==
  ASSUME ForestInv
  PROVE  \E N \in Nat : \E above, R :
           /\ IsKnown(related_root, Model!Stated, above, R, N)
           /\ Model!Ordinals = 0..N /\ IsFiniteSet(0..N) /\ Cardinality(0..N) = N + 1
           /\ IsRepresentation(R, 0..N) /\ \A b \in 0..N : related_root[b] = b <=> R[b] = b
           /\ Model!Trees = TreesOf(R, 0..N) /\ Model!Promised!Bodies = 0..N
           /\ Model!Cardinality(Model!Ordinals) = N + 1
           /\ Model!Promised!Cardinality(Model!Promised!Bodies) = N + 1
<1>1. PICK N, above, R : N \in Nat /\ IsKnown(related_root, Model!Stated, above, R, N)
  BY DEF ForestInv
<1>2. Model!Ordinals = 0..N
  BY <1>1 DEF IsKnown, Model!Ordinals
<1>3. IsFiniteSet(0..N) /\ Cardinality(0..N) = N + 1
  BY <1>1, FS_Interval
<1>4. IsRepresentation(R, 0..N) /\ \A b \in 0..N : related_root[b] = b <=> R[b] = b
  BY <1>1, RepresentsOnce DEF IsKnown
<1>5. Model!Trees = TreesOf(R, 0..N)
  BY <1>1, ModelTreesAre
<1>6. Model!Promised!Bodies = 0..N
  BY <1>4, <1>5, TreesCover DEF Model!Promised!Bodies
<1>7. Model!Cardinality(Model!Ordinals) = N + 1
  BY <1>2, <1>3, SameCardinality
<1>8. \A S : Model!Promised!Cardinality(S) = Cardinality(S)
  BY DEF Model!Promised!Cardinality, Cardinality, Model!Promised!IsFiniteSet, IsFiniteSet
<1>9. Model!Promised!Cardinality(Model!Promised!Bodies) = N + 1
  BY <1>3, <1>6, <1>8
<1>10. QED  BY <1>1, <1>2, <1>3, <1>4, <1>5, <1>6, <1>7, <1>9

LEMMA AddRigidBodySteps ==
  ASSUME ForestInv, NEW name \in FrameName, Model!AddRigidBody(name)
  PROVE  ForestInv' /\ Model!Promised!AddBody(name)
<1>1. PICK N, above, R :
        /\ N \in Nat
        /\ IsKnown(related_root, Model!Stated, above, R, N)
        /\ IsFiniteSet(0..N) /\ Model!Cardinality(Model!Ordinals) = N + 1
        /\ IsRepresentation(R, 0..N) /\ Model!Trees = TreesOf(R, 0..N)
        /\ Model!Promised!Cardinality(Model!Promised!Bodies) = N + 1
  BY BodiesAre
<1> DEFINE D == 0..N
           new == N + 1
           E == D \cup {new}
           Q == [b \in E |-> IF b = new THEN new ELSE R[b]]
<1>2. D \cup {new} = 0..(N + 1) /\ new \notin D /\ N + 1 \in Nat
  BY <1>1
<1>3. DOMAIN related_root = D /\ IsForest(related_root, above, R, D) /\ Knows(Model!Stated, R, D)
  BY <1>1 DEF IsKnown
<1>4. /\ Model!Buildable /\ name \notin DOMAIN frame_body
      /\ UNCHANGED <<is_free, joints, tree, stage>>
  BY DEF Model!AddRigidBody
<1>5. related_root' = [b \in E |-> IF b = new THEN new ELSE related_root[b]]
  BY <1>1, <1>2, <1>3 DEF Model!AddRigidBody, Model!With
<1>6. frame_body' = [n \in DOMAIN frame_body \cup {name} |-> IF n = name THEN new ELSE frame_body[n]]
  BY <1>1, <1>4 DEF Model!AddRigidBody, Model!With
<1>7. Model!Stated' = Model!Stated
  BY <1>4 DEF Model!Stated
<1> HIDE DEF D, new, Q
<1>8. Knows(Model!Stated, Q, E) /\ TreesOf(Q, E) = TreesOf(R, D) \cup {{new}}
  <2>1. new \notin D
    BY <1>2 DEF new
  <2>2. Q = [b \in D \cup {new} |-> IF b = new THEN new ELSE R[b]]
    BY DEF Q
  <2>3. IsRepresentation(R, D) /\ Knows(Model!Stated, R, D)
    BY <1>1, <1>3 DEF D
  <2> HIDE DEF E
  <2>4. QED  BY <2>1, <2>2, <2>3, KnowsOneMore DEF E
<1>9. PICK up : IsForest(related_root', up, Q, E)
  <2>1. new \notin D /\ IsForest(related_root, above, R, D)
    BY <1>2, <1>3
  <2>2. Q = [b \in D \cup {new} |-> IF b = new THEN new ELSE R[b]]
    BY DEF Q
  <2>3. \E up : IsForest(related_root', up, Q, D \cup {new})
    BY <1>5, <2>1, <2>2, ForestGrows
  <2>4. QED  BY <2>3
<1>10. IsKnown(related_root', Model!Stated', up, Q, N + 1)
  BY <1>2, <1>5, <1>7, <1>8, <1>9 DEF IsKnown
<1>11. BodiesFit' /\ StageFits'
  <2>1. DOMAIN related_root' = D \cup {new} /\ DOMAIN related_root = D /\ 0 # new
    BY <1>1, <1>3, <1>5 DEF new
  <2>2. \A n \in DOMAIN frame_body' : frame_body'[n] \in DOMAIN related_root'
    BY <1>6, <2>1 DEF ForestInv, BodiesFit
  <2>3. BodiesFit'
    BY <1>4, <2>1, <2>2 DEF ForestInv, BodiesFit
  <2>4. StageFits'
    BY <1>4 DEF ForestInv, StageFits
  <2>5. QED  BY <2>3, <2>4
<1>12. ForestInv'
  BY <1>2, <1>10, <1>11 DEF ForestInv
<1>13. Model!Trees' = Model!Trees \cup {{new}}
  <2>1. Model!Trees' = TreesOf(Q, 0..(N + 1))
    BY <1>2, <1>10, ModelTreesAreNext
  <2>2. QED  BY <1>1, <1>2, <1>8, <2>1 DEF D
<1>14. UNCHANGED <<Model!Stated, stage, IF stage = "finalized" THEN Model!InTree ELSE {}>>
  BY <1>4, <1>7 DEF Model!InTree
<1>15. Model!Promised!AddBody(name)
  BY <1>1, <1>4, <1>6, <1>13, <1>14 DEF Model!Promised!AddBody, Model!Promised!Named, new
<1>16. QED  BY <1>12, <1>15

LEMMA AddFixedFrameSteps ==
  ASSUME ForestInv, NEW name \in FrameName, NEW body \in Model!Ordinals,
         Model!AddFixedFrame(name, body)
  PROVE  ForestInv' /\ body \in Model!Promised!Bodies /\ Model!Promised!AddFrame(name, body)
<1>1. PICK N, above, R :
        /\ N \in Nat
        /\ IsKnown(related_root, Model!Stated, above, R, N)
        /\ Model!Ordinals = 0..N /\ Model!Promised!Bodies = 0..N
  BY BodiesAre
<1>2. /\ name \notin DOMAIN frame_body
      /\ UNCHANGED <<related_root, is_free, joints, tree, stage>>
  BY DEF Model!AddFixedFrame
<1>3. frame_body' = [n \in DOMAIN frame_body \cup {name} |-> IF n = name THEN body ELSE frame_body[n]]
  BY <1>2 DEF Model!AddFixedFrame, Model!With
<1>4. Model!Stated' = Model!Stated
  BY <1>2 DEF Model!Stated
<1>5. IsKnown(related_root', Model!Stated', above, R, N)
  BY <1>1, <1>2, <1>4
<1>6. BodiesFit' /\ StageFits'
  <2>1. DOMAIN related_root' = DOMAIN related_root /\ body \in DOMAIN related_root
    BY <1>2 DEF Model!Ordinals
  <2>2. \A n \in DOMAIN frame_body' : frame_body'[n] \in DOMAIN related_root'
    BY <1>3, <2>1 DEF ForestInv, BodiesFit
  <2>3. BodiesFit'
    BY <1>2, <2>1, <2>2 DEF ForestInv, BodiesFit
  <2>4. StageFits'
    BY <1>2 DEF ForestInv, StageFits
  <2>5. QED  BY <2>3, <2>4
<1>7. ForestInv'
  BY <1>1, <1>5, <1>6 DEF ForestInv
<1>8. Model!Trees' = Model!Trees
  BY <1>1, <1>5, ModelTreesAre, ModelTreesAreNext
<1>9. UNCHANGED <<Model!Stated, stage, IF stage = "finalized" THEN Model!InTree ELSE {}>>
  BY <1>2, <1>4 DEF Model!InTree
<1>10. Model!Promised!AddFrame(name, body)
  BY <1>2, <1>3, <1>8, <1>9 DEF Model!Promised!AddFrame, Model!Promised!Named
<1>11. QED  BY <1>1, <1>7, <1>10

LEMMA RefuseJointSteps ==
  ASSUME ForestInv, NEW name \in CallerName, NEW parent \in FrameName, NEW child \in FrameName,
         Model!RefuseJoint(name, parent, child)
  PROVE  ForestInv' /\ UNCHANGED Model!Promised!vars
<1>1. PICK N, above, R :
        N \in Nat /\ IsKnown(related_root, Model!Stated, above, R, N) /\ IsFiniteSet(0..N)
  BY BodiesAre
<1> DEFINE a == frame_body[parent]
           b == frame_body[child]
<1>2. a \in 0..N /\ b \in 0..N
  BY <1>1 DEF Model!RefuseJoint, Model!PrepareRelation, ForestInv, BodiesFit, IsKnown
<1>3. related_root' = Model!AlreadyConnected(related_root, a, b).roots
      /\ UNCHANGED <<frame_body, is_free, joints, tree, stage>>
  BY DEF Model!RefuseJoint
<1> HIDE DEF a, b
<1>4. IsForest(related_root', above, R, 0..N)
  <2>1. IsForest(related_root, above, R, 0..N)
    BY <1>1 DEF IsKnown
  <2> DEFINE D == 0..N
  <2> HIDE DEF D
  <2>2. IsForest(related_root', above, R, D)
    BY <1>1, <1>2, <1>3, <2>1, AskingKeeps DEF D
  <2>3. QED  BY <2>2 DEF D
<1>5. QED  BY <1>1, <1>3, <1>4, OnlyPathsChange

\* A relation between two trees.
LEMMA RelatingKeeps ==
  ASSUME ForestInv, NEW N \in Nat, NEW above, NEW R,
         IsKnown(related_root, Model!Stated, above, R, N),
         NEW roots, IsForest(roots, above, R, 0..N),
         NEW s, s.parent \in 0..N, s.child \in 0..N, R[s.parent] # R[s.child],
         related_root' = Model!Connect(roots, s.parent, s.child),
         Model!Stated' = Model!Stated \cup {s},
         UNCHANGED <<frame_body, stage>>, stage = "building"
  PROVE  /\ \E up, Q : IsKnown(related_root', Model!Stated', up, Q, N)
         /\ Model!Promised!Relate(s)
<1> DEFINE D == 0..N
           Q == Moved(R, R[s.parent], R[s.child], D)
<1>1. IsFiniteSet(D)
  BY FS_Interval
<1>2. IsForest(related_root, above, R, D) /\ Knows(Model!Stated, R, D) /\ DOMAIN related_root = D
  BY DEF IsKnown
<1>3. IsRepresentation(R, D) /\ s.parent \in D /\ s.child \in D /\ IsForest(roots, above, R, D)
  BY <1>2, RepresentsOnce
<1> HIDE DEF D
<1>4. PICK up : IsForest(related_root', up, Q, D)
  BY <1>1, <1>3, ConnectJoins
<1>5. Knows(Model!Stated', Q, D)
  BY <1>2, <1>3, KnowsMore
<1>6. DOMAIN related_root' = D
  BY <1>4 DEF IsForest
<1>7. IsKnown(related_root', Model!Stated', up, Q, N)
  BY <1>4, <1>5, <1>6 DEF IsKnown, D
<1>8. Model!Trees = TreesOf(R, D)
  BY ModelTreesAre DEF D
<1>9. Model!Trees' = TreesOf(Q, D)
  BY <1>7, ModelTreesAreNext DEF D
<1> DEFINE one == TreeOf(R, R[s.parent], D)
           other == TreeOf(R, R[s.child], D)
<1>10. /\ one \in Model!Trees /\ other \in Model!Trees /\ one # other
       /\ s.parent \in one /\ s.child \in other
       /\ Model!Trees' = (Model!Trees \ {one, other}) \cup {one \cup other}
  BY <1>3, <1>8, <1>9, TreesJoin
<1> HIDE DEF one, other
<1>11. UNCHANGED <<frame_body, stage, IF stage = "finalized" THEN Model!InTree ELSE {}>>
  OBVIOUS
<1>12. Model!Promised!Relate(s)
  BY <1>10, <1>11 DEF Model!Promised!Relate
<1>13. QED  BY <1>7, <1>12

LEMMA AddJointSteps ==
  ASSUME ForestInv, NEW kind \in Kind, NEW name \in CallerName,
         NEW parent \in FrameName, NEW child \in FrameName, NoName \notin CallerName,
         Model!AddJoint(kind, name, parent, child)
  PROVE  ForestInv' /\ Model!Promised!AddJoint(name, kind)
<1>1. PICK N, above, R :
        /\ N \in Nat
        /\ IsKnown(related_root, Model!Stated, above, R, N) /\ IsFiniteSet(0..N)
        /\ Model!Promised!Bodies = 0..N
  BY BodiesAre
<1> DEFINE D == 0..N
           a == frame_body[parent]
           b == frame_body[child]
           joint == Model!Joint(a, b, kind)
           s == Model!Relation(name, joint)
           connected == Model!AlreadyConnected(related_root, a, b)
<1>2. DOMAIN related_root = D /\ IsForest(related_root, above, R, D) /\ IsFiniteSet(D)
  BY <1>1 DEF IsKnown
<1>3. Model!PrepareRelation(parent, child, name) /\ UNCHANGED <<frame_body, is_free, stage>>
  BY DEF Model!AddJoint
<1>4. name \notin DOMAIN joints /\ a \in D /\ b \in D /\ stage = "building"
  BY <1>2, <1>3 DEF Model!PrepareRelation, Model!Buildable, ForestInv, BodiesFit
<1>5. joint.parent = a /\ joint.child = b /\ joint.kind = kind
  BY DEF Model!Joint
<1>6. /\ ~connected.yes
      /\ tree' = Model!With(tree, name, joint) /\ joints' = Model!With(joints, name, joint)
      /\ related_root' = Model!Connect(connected.roots, a, b)
  BY <1>5 DEF Model!AddJoint
<1>7. s.name = name /\ s.parent = a /\ s.child = b /\ s.kind = kind
      /\ s = Model!Promised!Relation(name, a, b, kind)
  BY <1>5 DEF Model!Relation, Model!Promised!Relation
<1> HIDE DEF D, a, b, joint, s, connected
<1>8. IsForest(connected.roots, above, R, D) /\ R[a] # R[b]
  BY <1>2, <1>4, <1>6, AskingKeeps DEF connected
<1>9. /\ joints' = [n \in DOMAIN joints \cup {name} |-> IF n = name THEN joint ELSE joints[n]]
      /\ DOMAIN joints' = DOMAIN joints \cup {name}
  BY <1>6 DEF Model!With
<1>10. Model!Stated' = Model!Stated \cup {s}
  <2>1. {Model!Relation(n, joints'[n]) : n \in DOMAIN joints'}
          = {Model!Relation(n, joints[n]) : n \in DOMAIN joints} \cup {s}
    <3>1. \A n \in DOMAIN joints : joints'[n] = joints[n] /\ n \in DOMAIN joints'
      BY <1>4, <1>9
    <3>2. joints'[name] = joint /\ name \in DOMAIN joints'
      BY <1>9
    <3>3. QED  BY <1>9, <3>1, <3>2 DEF s
  <2>2. QED  BY <1>3, <2>1 DEF Model!Stated
<1>11. /\ \E up, Q : IsKnown(related_root', Model!Stated', up, Q, N)
       /\ Model!Promised!Relate(s)
  <2>1. IsForest(connected.roots, above, R, 0..N) /\ s.parent \in 0..N /\ s.child \in 0..N
        /\ R[s.parent] # R[s.child]
        /\ related_root' = Model!Connect(connected.roots, s.parent, s.child)
    BY <1>4, <1>6, <1>7, <1>8 DEF D
  <2>2. QED  BY <1>1, <1>3, <1>4, <1>10, <2>1, RelatingKeeps
<1>12. DOMAIN related_root' = DOMAIN related_root
  BY <1>2, <1>11 DEF IsKnown, D
<1>13. BodiesFit' /\ StageFits'
  <2>1. IsFiniteSet(DOMAIN joints') /\ DOMAIN joints' \subseteq CallerName
    BY <1>9, FS_AddElement DEF ForestInv, BodiesFit
  <2>2. ASSUME NEW n \in DOMAIN joints'
        PROVE  \E p, c \in DOMAIN related_root', k \in Kind : joints'[n] = Model!Joint(p, c, k)
    <3>1. CASE n = name
      BY <1>2, <1>4, <1>9, <1>12, <3>1 DEF joint
    <3>2. CASE n # name
      <4>1. n \in DOMAIN joints /\ joints'[n] = joints[n]
        BY <1>9, <3>2
      <4>2. QED  BY <1>12, <4>1 DEF ForestInv, BodiesFit
    <3>3. QED  BY <3>1, <3>2
  <2>3. BodiesFit'
    BY <1>3, <1>12, <2>1, <2>2 DEF ForestInv, BodiesFit
  <2>4. tree' = joints'
    BY <1>4, <1>6 DEF ForestInv, StageFits
  <2>5. StageFits'
    BY <1>3, <2>4 DEF ForestInv, StageFits
  <2>6. QED  BY <2>3, <2>5
<1>14. ForestInv'
  BY <1>1, <1>11, <1>13 DEF ForestInv
<1>15. \A r \in Model!Stated : r.name # name
  <2>1. \A n, j : Model!Relation(n, j).name = n
    BY DEF Model!Relation
  <2>2. QED  BY <1>4, <2>1 DEF Model!Stated
<1>16. Model!Promised!AddJoint(name, kind)
  <2>1. a \in Model!Promised!Bodies /\ b \in Model!Promised!Bodies
    BY <1>1, <1>4 DEF D
  <2>2. QED  BY <1>7, <1>11, <1>15, <2>1 DEF Model!Promised!AddJoint
<1>17. QED  BY <1>14, <1>16

LEMMA DeclareFreeBodySteps ==
  ASSUME ForestInv, NEW body \in Model!Ordinals, Model!DeclareFreeBody(body)
  PROVE  /\ ForestInv'
         /\ \/ UNCHANGED Model!Promised!vars
            \/ body \in Model!Promised!Bodies /\ Model!Promised!DeclareFree(body)
<1>1. PICK N, above, R :
        /\ N \in Nat
        /\ IsKnown(related_root, Model!Stated, above, R, N) /\ IsFiniteSet(0..N)
        /\ Model!Promised!Bodies = 0..N /\ Model!Ordinals = 0..N
  BY BodiesAre
<1> DEFINE D == 0..N
           s == Model!Relation(NoName, Model!Joint(0, body, "free"))
           connected == Model!AlreadyConnected(related_root, body, 0)
<1>2. /\ DOMAIN related_root = D /\ IsForest(related_root, above, R, D)
      /\ IsFiniteSet(D) /\ 0 \in D /\ body \in D
  BY <1>1 DEF IsKnown
<1>3. /\ body # 0 /\ body \notin is_free /\ stage = "building"
      /\ UNCHANGED <<frame_body, joints, tree, stage>>
  BY DEF Model!DeclareFreeBody, Model!Buildable
<1>4. IF connected.yes THEN related_root' = connected.roots /\ UNCHANGED is_free
      ELSE related_root' = Model!Connect(connected.roots, 0, body) /\ is_free' = is_free \cup {body}
  BY DEF Model!DeclareFreeBody
<1>5. s.parent = 0 /\ s.child = body /\ s = Model!Promised!Relation(NoName, 0, body, "free")
  BY DEF Model!Relation, Model!Promised!Relation, Model!Joint
<1> HIDE DEF D, connected
<1>6. IsForest(connected.roots, above, R, D) /\ (connected.yes <=> R[body] = R[0])
  BY <1>2, AskingKeeps DEF connected
<1>7. CASE connected.yes
  <2>1. IsForest(related_root', above, R, 0..N)
    BY <1>4, <1>6, <1>7 DEF D
  <2>2. QED  BY <1>1, <1>3, <1>4, <1>7, <2>1, OnlyPathsChange
<1>8. CASE ~connected.yes
  <2>1. related_root' = Model!Connect(connected.roots, 0, body) /\ is_free' = is_free \cup {body}
    BY <1>4, <1>8
  <2>2. Model!Stated' = Model!Stated \cup {s}
    BY <1>3, <2>1 DEF Model!Stated
  <2> HIDE DEF s
  <2>3. IsForest(connected.roots, above, R, 0..N) /\ s.parent \in 0..N /\ s.child \in 0..N
        /\ R[s.parent] # R[s.child]
        /\ related_root' = Model!Connect(connected.roots, s.parent, s.child)
    BY <1>2, <1>5, <1>6, <1>8, <2>1 DEF D
  <2>4. /\ \E up, Q : IsKnown(related_root', Model!Stated', up, Q, N)
        /\ Model!Promised!Relate(s)
    BY <1>1, <1>3, <2>2, <2>3, RelatingKeeps
  <2>5. DOMAIN related_root' = DOMAIN related_root
    BY <1>2, <2>4 DEF IsKnown, D
  <2>6. BodiesFit' /\ StageFits'
    BY <1>2, <1>3, <2>1, <2>5 DEF ForestInv, BodiesFit, StageFits
  <2>7. ForestInv'
    BY <1>1, <2>4, <2>6 DEF ForestInv
  <2>8. Model!Promised!DeclareFree(body)
    BY <1>5, <2>4 DEF Model!Promised!DeclareFree
  <2>9. QED  BY <1>1, <1>2, <2>7, <2>8 DEF D
<1>9. QED  BY <1>7, <1>8

LEMMA RefuseFinalizeSteps ==
  ASSUME ForestInv, Model!RefuseFinalize
  PROVE  ForestInv' /\ UNCHANGED Model!Promised!vars
<1>1. PICK N, above, R : N \in Nat /\ IsKnown(related_root, Model!Stated, above, R, N)
  BY BodiesAre
<1>2. IsForest(Model!Precheck.roots, above, R, 0..N)
  BY <1>1, PrecheckKnows DEF IsKnown
<1>3. related_root' = Model!Precheck.roots /\ UNCHANGED <<frame_body, is_free, joints, tree, stage>>
  BY DEF Model!RefuseFinalize
<1>4. QED  BY <1>1, <1>2, <1>3, OnlyPathsChange

LEMMA PrivateNameIsNew ==
  ASSUME IsFiniteSet(DOMAIN tree), NEW body
  PROVE  Model!PrivateName(body) \notin DOMAIN tree /\ Model!PrivateName(body)[1] = body
<1> DEFINE n == Cardinality(DOMAIN tree)
           T == {k \in 0..n : <<body, k>> \notin DOMAIN tree}
           Fits(name) == /\ name \in {body} \X (0..n) /\ name \notin DOMAIN tree
                         /\ \A k \in 0..name[2] - 1 : <<body, k>> \in DOMAIN tree
<1>1. n \in Nat
  BY FS_CardinalityType
<1>2. T # {}
  <2> SUFFICES ASSUME T = {}  PROVE FALSE
    OBVIOUS
  <2> DEFINE f == [k \in 0..n |-> <<body, k>>]
  <2>1. \A k \in 0..n : <<body, k>> \in DOMAIN tree
    OBVIOUS
  <2> HIDE DEF n
  <2>2. f \in [0..n -> DOMAIN tree]
    BY <2>1
  <2>3. IsFiniteSet(0..n) /\ Cardinality(0..n) = n + 1
    BY <1>1, FS_Interval
  <2>4. Cardinality(DOMAIN tree) < Cardinality(0..n)
    BY <1>1, <2>3 DEF n
  <2> HIDE DEF f
  <2>5. \E x, y \in 0..n : x # y /\ f[x] = f[y]
    <3> DEFINE S == 0..n
               names == DOMAIN tree
    <3>1. f \in [S -> names] /\ IsFiniteSet(S) /\ IsFiniteSet(names)
          /\ Cardinality(names) < Cardinality(S)
      BY <2>2, <2>3, <2>4
    <3> HIDE DEF S, names
    <3>2. \E x, y \in S : x # y /\ f[x] = f[y]
      BY <3>1, FS_PigeonHole
    <3>3. QED  BY <3>2 DEF S
  <2>6. QED  BY <2>5 DEF f
<1>3. PICK k \in T : \A m \in T : k <= m
  <2>1. T \subseteq Nat
    BY <1>1
  <2> HIDE DEF T
  <2>2. QED  BY <1>2, <2>1, Least
<1>4. Fits(<<body, k>>)
  <2>1. k \in 0..n /\ <<body, k>> \notin DOMAIN tree
    OBVIOUS
  <2>2. ASSUME NEW m \in 0..(k - 1)  PROVE <<body, m>> \in DOMAIN tree
    <3>1. m \in 0..n /\ ~ (k <= m)
      BY <1>1, <2>1, <2>2
    <3>2. m \notin T
      BY <1>3, <3>1
    <3>3. QED  BY <3>1, <3>2
  <2>3. <<body, k>>[2] = k /\ <<body, k>> \in {body} \X (0..n)
    BY <2>1
  <2> HIDE DEF n
  <2>4. QED  BY <2>1, <2>2, <2>3
<1>5. Model!PrivateName(body) = CHOOSE name \in {body} \X (0..n) :
        name \notin DOMAIN tree /\ \A m \in 0..name[2] - 1 : <<body, m>> \in DOMAIN tree
  <2>1. n = Model!Cardinality(DOMAIN tree)
    BY SameCardinality
  <2> HIDE DEF n
  <2>2. QED  BY <2>1 DEF Model!PrivateName
<1> HIDE DEF n, T
<1>6. Fits(Model!PrivateName(body))
  <2> DEFINE N == {body} \X (0..n)
             P(name) == name \notin DOMAIN tree /\ \A m \in 0..name[2] - 1 : <<body, m>> \in DOMAIN tree
  <2>1. \E name \in N : P(name)
    BY <1>4
  <2>2. Model!PrivateName(body) = CHOOSE name \in N : P(name)
    BY <1>5
  <2> HIDE DEF N, P
  <2>3. Model!PrivateName(body) \in N /\ P(Model!PrivateName(body))
    BY <2>1, <2>2
  <2>4. QED  BY <2>3 DEF N, P
<1>7. \A name \in {body} \X (0..n) : name[1] = body
  OBVIOUS
<1>8. QED  BY <1>6, <1>7

\* What the finished tree holds are the relations that were stated.
LEMMA NothingIsLost ==
  ASSUME ForestInv, stage = "building", NoName \notin CallerName,
         tree' = Model!WithPrivateJoints, UNCHANGED <<joints, is_free>>
  PROVE  /\ \A body \in is_free : Model!PrivateName(body) \notin DOMAIN tree
         /\ Model!InTree' = Model!Stated
         /\ {tree'[name] : name \in DOMAIN tree'}
              = {Model!Joint(s.parent, s.child, s.kind) : s \in Model!Stated}
<1>1. tree = joints /\ IsFiniteSet(DOMAIN tree)
  BY DEF ForestInv, StageFits, BodiesFit
<1>2. \A body \in is_free :
        Model!PrivateName(body) \notin DOMAIN tree /\ Model!PrivateName(body)[1] = body
  BY <1>1, PrivateNameIsNew
<1> DEFINE P == {Model!PrivateName(body) : body \in is_free}
<1>3. /\ DOMAIN tree' = DOMAIN joints \cup P
      /\ \A name \in DOMAIN joints : tree'[name] = joints[name]
      /\ \A name \in P : tree'[name] = Model!Joint(0, name[1], "free")
  BY <1>1, <1>2 DEF Model!WithPrivateJoints
<1>4. \A body \in is_free : /\ Model!PrivateName(body) \in P /\ Model!PrivateName(body) \notin DOMAIN joints
                            /\ tree'[Model!PrivateName(body)] = Model!Joint(0, body, "free")
  <2>1. ASSUME NEW body \in is_free  PROVE Model!PrivateName(body) \in P
    OBVIOUS
  <2> HIDE DEF P
  <2>2. QED  BY <1>1, <1>2, <1>3, <2>1
<1>5. \A name \in P : \E body \in is_free : name = Model!PrivateName(body)
  OBVIOUS
<1> HIDE DEF P
<1> DEFINE kept(name) == Model!Relation(IF name \in DOMAIN joints THEN name ELSE NoName, tree'[name])
           bare(s) == Model!Joint(s.parent, s.child, s.kind)
<1>6. /\ \A name \in DOMAIN joints : kept(name) = Model!Relation(name, joints[name])
      /\ \A body \in is_free : kept(Model!PrivateName(body))
                                 = Model!Relation(NoName, Model!Joint(0, body, "free"))
  BY <1>3, <1>4
<1>7. /\ \A s \in Model!Stated : \/ \E name \in DOMAIN joints : s = Model!Relation(name, joints[name])
                                 \/ \E body \in is_free : s = Model!Relation(NoName, Model!Joint(0, body, "free"))
      /\ \A name \in DOMAIN joints : Model!Relation(name, joints[name]) \in Model!Stated
      /\ \A body \in is_free : Model!Relation(NoName, Model!Joint(0, body, "free")) \in Model!Stated
  BY DEF Model!Stated
<1>8. Model!InTree' = {kept(name) : name \in DOMAIN tree'}
  BY DEF Model!InTree
<1> HIDE DEF kept
<1>9. /\ \A name \in DOMAIN tree' : kept(name) \in Model!Stated
      /\ \A s \in Model!Stated : \E name \in DOMAIN tree' : s = kept(name)
  <2>1. ASSUME NEW name \in DOMAIN tree'  PROVE kept(name) \in Model!Stated
    <3>1. CASE name \in DOMAIN joints
      BY <1>6, <1>7, <3>1
    <3>2. CASE name \in P
      BY <1>5, <1>6, <1>7, <3>2
    <3>3. QED  BY <1>3, <3>1, <3>2
  <2>2. ASSUME NEW s \in Model!Stated  PROVE \E name \in DOMAIN tree' : s = kept(name)
    BY <1>3, <1>4, <1>6, <1>7
  <2>3. QED  BY <2>1, <2>2
<1>10. Model!InTree' = Model!Stated
  BY <1>8, <1>9
<1>11. \A name \in DOMAIN tree' : bare(kept(name)) = tree'[name]
  <2>1. \A n, j : /\ Model!Relation(n, j).parent = j.parent /\ Model!Relation(n, j).child = j.child
                  /\ Model!Relation(n, j).kind = j.kind
    BY DEF Model!Relation
  <2>2. \A p, c, k : bare(Model!Joint(p, c, k)) = Model!Joint(p, c, k)
    BY DEF Model!Joint
  <2>3. \A name \in DOMAIN tree' : \E p, c, k : tree'[name] = Model!Joint(p, c, k)
    <3>1. ASSUME NEW name \in DOMAIN tree'  PROVE \E p, c, k : tree'[name] = Model!Joint(p, c, k)
      <4>1. CASE name \in DOMAIN joints
        BY <1>3, <4>1 DEF ForestInv, BodiesFit
      <4>2. CASE name \in P
        BY <1>3, <4>2
      <4>3. QED  BY <1>3, <4>1, <4>2
    <3>2. QED  BY <3>1
  <2>4. \A name \in DOMAIN tree' : bare(kept(name)) = bare(tree'[name])
    BY <2>1 DEF kept
  <2>5. QED  BY <2>2, <2>3, <2>4
<1> HIDE DEF bare
<1>12. {tree'[name] : name \in DOMAIN tree'} = {bare(s) : s \in Model!Stated}
  BY <1>9, <1>11
<1>13. QED  BY <1>2, <1>10, <1>12 DEF bare

LEMMA FinalizeSteps ==
  ASSUME ForestInv, Model!Finalize, NoName \notin CallerName
  PROVE  ForestInv' /\ Model!Promised!Finalize
<1>1. PICK N, above, R :
        /\ N \in Nat
        /\ IsKnown(related_root, Model!Stated, above, R, N)
        /\ Model!Ordinals = 0..N /\ IsFiniteSet(0..N)
        /\ IsRepresentation(R, 0..N) /\ Model!Trees = TreesOf(R, 0..N)
        /\ Model!Promised!Bodies = 0..N
  BY BodiesAre
<1> DEFINE D == 0..N
           joined == {tree'[name] : name \in DOMAIN tree'}
           bare(s) == Model!Joint(s.parent, s.child, s.kind)
<1>2. /\ stage = "building" /\ Model!Precheck.reached
      /\ related_root' = Model!Precheck.roots /\ tree' = Model!WithPrivateJoints
      /\ UNCHANGED <<frame_body, is_free, joints>>
  BY DEF Model!Finalize, Model!Buildable
<1>3. stage' = IF \/ \E body \in is_free : Model!PrivateName(body) \in DOMAIN tree
                  \/ \E joint \in joined : joint.kind \in OneWay /\ Model!MustReverse(joint, joined)
               THEN "failed" ELSE "finalized"
  BY DEF Model!Finalize
<1>4. /\ \A body \in is_free : Model!PrivateName(body) \notin DOMAIN tree
      /\ Model!InTree' = Model!Stated /\ joined = {bare(s) : s \in Model!Stated}
  BY <1>2, NothingIsLost
<1>5. /\ IsForest(Model!Precheck.roots, above, R, 0..N)
      /\ \A b \in 0..N : R[b] = R[0]
  BY <1>1, <1>2, PrecheckKnows DEF IsKnown
<1>6. Model!Stated' = Model!Stated
  BY <1>2 DEF Model!Stated
<1> HIDE DEF joined
\* The state that is left.
<1>7. DOMAIN related_root' = 0..N /\ DOMAIN related_root = 0..N
  BY <1>1, <1>2, <1>5 DEF IsKnown, IsForest
<1>8. IsKnown(related_root', Model!Stated', above, R, N)
  BY <1>1, <1>2, <1>5, <1>6, <1>7 DEF IsKnown
<1>9. BodiesFit' /\ StageFits'
  BY <1>2, <1>3, <1>7 DEF ForestInv, BodiesFit, StageFits
<1>10. ForestInv'
  BY <1>1, <1>8, <1>9 DEF ForestInv
<1>11. Model!Trees' = Model!Trees
  BY <1>1, <1>8, ModelTreesAreNext
<1>12. Model!Trees = {Model!Promised!Bodies}
  <2>1. 0 \in D /\ \A b \in D : R[b] = R[0] /\ R[b] \in D /\ R[R[b]] = R[b]
    BY <1>1, <1>5 DEF IsRepresentation
  <2> HIDE DEF D
  <2>2. TreeOf(R, R[0], D) = D
    BY <2>1 DEF TreeOf
  <2>3. {b \in D : R[b] = b} = {R[0]}
    BY <2>1
  <2>4. TreesOf(R, D) = {D}
    BY <2>2, <2>3 DEF TreesOf
  <2>5. QED  BY <1>1, <2>4 DEF D
\* The joints that would have to be traversed the other way.
<1>13. \A s \in Model!Stated :
         Model!MustReverse(bare(s), joined)
           <=> \A side \in SUBSET D : Around(s, Model!Stated, side) => s.child \in side
  <2>1. ASSUME NEW s \in Model!Stated
        PROVE  Model!MustReverse(bare(s), joined)
           <=> \A side \in SUBSET D : Around(s, Model!Stated, side) => s.child \in side
    <3>1. /\ IsFiniteSet(D) /\ 0 \in D /\ Knows(Model!Stated, R, D)
          /\ (\A b \in D : R[b] = R[0]) /\ Model!Ordinals = D
      BY <1>1, <1>5 DEF IsKnown
    <3>2. joined = {Model!Joint(t.parent, t.child, t.kind) : t \in Model!Stated}
      BY <1>4
    <3> HIDE DEF D
    <3>3. QED  BY <3>1, <3>2, ReverseIsFacing
  <2>2. QED  BY <2>1
<1>14. \A s \in Model!Stated :
         bare(s).kind \in OneWay /\ Model!MustReverse(bare(s), joined) <=> Model!Promised!FacesTheWorld(s)
  <2>1. ASSUME NEW s \in Model!Stated
        PROVE  bare(s).kind \in OneWay /\ Model!MustReverse(bare(s), joined)
                 <=> Model!Promised!FacesTheWorld(s)
    <3>1. bare(s).kind = s.kind
      BY DEF Model!Joint
    <3>2. Model!Promised!FacesTheWorld(s)
            <=> s.kind \in OneWay /\ \A side \in SUBSET D : Around(s, Model!Stated, side) => s.child \in side
      BY <1>1 DEF Model!Promised!FacesTheWorld, Around
    <3> HIDE DEF bare, D
    <3>3. QED  BY <1>13, <3>1, <3>2
  <2>2. QED  BY <2>1
<1> HIDE DEF bare, D
<1>15. (\E joint \in joined : joint.kind \in OneWay /\ Model!MustReverse(joint, joined))
         <=> \E s \in Model!Stated : Model!Promised!FacesTheWorld(s)
  BY <1>4, <1>14
<1>16. stage' = IF \E s \in Model!Stated : Model!Promised!FacesTheWorld(s) THEN "failed" ELSE "finalized"
  BY <1>3, <1>4, <1>15
<1>17. Model!Promised!Finalize
  <2>1. (IF stage = "finalized" THEN Model!InTree ELSE {}) = {}
    BY <1>2
  <2>2. CASE \E s \in Model!Stated : Model!Promised!FacesTheWorld(s)
    <3>1. stage' = "failed" /\ (IF stage' = "finalized" THEN Model!InTree' ELSE {}) = {}
      BY <1>16, <2>2
    <3>2. QED  BY <1>2, <1>6, <1>11, <1>12, <2>1, <2>2, <3>1 DEF Model!Promised!Finalize
  <2>3. CASE ~\E s \in Model!Stated : Model!Promised!FacesTheWorld(s)
    <3>1. stage' = "finalized" /\ (IF stage' = "finalized" THEN Model!InTree' ELSE {}) = Model!Stated
      BY <1>4, <1>16, <2>3
    <3>2. QED  BY <1>2, <1>6, <1>11, <1>12, <2>1, <2>3, <3>1 DEF Model!Promised!Finalize
  <2>4. QED  BY <2>2, <2>3
<1>18. QED  BY <1>10, <1>17

LEMMA ForestSteps ==
  NoName \notin CallerName /\ ForestInv /\ [Model!Next]_modelVars
    => ForestInv' /\ [Model!Promised!Next]_(Model!Promised!vars)
<1> SUFFICES ASSUME NoName \notin CallerName, ForestInv, [Model!Next]_modelVars
             PROVE  ForestInv' /\ [Model!Promised!Next]_(Model!Promised!vars)
  OBVIOUS
<1>1. CASE UNCHANGED modelVars
  <2>1. UNCHANGED <<frame_body, related_root, is_free, joints, tree, stage>>
    BY <1>1 DEF modelVars
  <2>2. PICK N, above, R : N \in Nat /\ IsKnown(related_root, Model!Stated, above, R, N)
    BY DEF ForestInv
  <2>3. IsForest(related_root', above, R, 0..N)
    BY <2>1, <2>2 DEF IsKnown
  <2>4. QED  BY <2>1, <2>2, <2>3, OnlyPathsChange
<1>2. CASE Model!Next
  <2>1. Model!Next => stage = "building"
    BY DEF Model!Next, Model!AddRigidBody, Model!AddFixedFrame, Model!RefuseJoint, Model!AddJoint,
           Model!DeclareFreeBody, Model!RefuseFinalize, Model!Finalize, Model!Buildable,
           Model!PrepareRelation
  <2>2. stage = "building"
    BY <1>2, <2>1
  <2>3. ASSUME NEW name \in FrameName, Model!AddRigidBody(name)
        PROVE  ForestInv' /\ Model!Promised!Next
    BY <2>2, <2>3, AddRigidBodySteps DEF Model!Promised!Next, Model!Promised!Describe
  <2>4. ASSUME NEW name \in FrameName, NEW body \in Model!Ordinals, Model!AddFixedFrame(name, body)
        PROVE  ForestInv' /\ Model!Promised!Next
    BY <2>2, <2>4, AddFixedFrameSteps DEF Model!Promised!Next, Model!Promised!Describe
  <2>5. ASSUME NEW name \in CallerName, NEW parent \in FrameName, NEW child \in FrameName,
               NEW kind \in Kind, Model!AddJoint(kind, name, parent, child)
        PROVE  ForestInv' /\ Model!Promised!Next
    BY <2>2, <2>5, AddJointSteps DEF Model!Promised!Next, Model!Promised!Describe
  <2>6. ASSUME NEW body \in Model!Ordinals, Model!DeclareFreeBody(body)
        PROVE  ForestInv' /\ [Model!Promised!Next]_(Model!Promised!vars)
    BY <2>2, <2>6, DeclareFreeBodySteps DEF Model!Promised!Next, Model!Promised!Describe
  <2>7. ASSUME Model!Finalize  PROVE ForestInv' /\ Model!Promised!Next
    BY <2>2, <2>7, FinalizeSteps DEF Model!Promised!Next
  <2>8. QED
    BY <1>2, <2>3, <2>4, <2>5, <2>6, <2>7, RefuseJointSteps, RefuseFinalizeSteps DEF Model!Next
<1>3. QED  BY <1>1, <1>2

\* Whatever is at work, the model's variables are as they were or take a step of the model's.
LEMMA ModelMoves ==
  [MCNext]_<<atWork, vars, modelVars, trackVars, startupVars, closureVars>> => [Model!Next]_modelVars
BY DEF MCNext

\* In whatever order relations are stated and whatever is refused between them, the model
\* is the forest of what was stated (MultibodyModel of multibody_model.cc), for any number
\* of bodies, names and kinds of joints.
THEOREM TheForestIsBuilt == MCSpec => BuildsTheForest
<1>1. NoName \notin CallerName
  BY ConstructionAssumptions DEF Model!ModelAssumption
<1>2. MCInit => ForestInv /\ Model!Promised!Init
  BY ModelStarts DEF MCInit
<1>3. ForestInv /\ [MCNext]_<<atWork, vars, modelVars, trackVars, startupVars, closureVars>>
        => ForestInv' /\ [Model!Promised!Next]_(Model!Promised!vars)
  BY <1>1, ForestSteps, ModelMoves
<1>4. QED
  BY <1>2, <1>3, PTL DEF MCSpec, BuildsTheForest, Model!BuildsTheForest, Model!Promised!Spec
-----------------------------------------------------------------------------
(***************************************************************************)
(* The closure of the library's sources.                                   *)
(***************************************************************************)
\* Those of some edges that includes make.
Including(edges) == {e \in edges : e[2]}

EndsOf(edges) == {e[1] : e \in edges}

\* Nothing has been walked, and the lines of the ledger were read or will be.
NotBegun ==
  /\ line <= Len(ledger) + 1 /\ exit \in {"running", "unusable"}
  /\ pending = <<>> /\ reached = {} /\ named = {} /\ violations = <<>> /\ missing = <<>>

\* What was reached follows from the roots, and what does not follow from it yet lies on
\* the stack, as an include if it is one.
WalkIsOn ==
  LET edges == Closure!ToSet(pending)
      ahead == EndsOf(edges)
      included == EndsOf(Including(edges))
  IN  /\ \A S : Closure!Closed(S) => reached \cup ahead \subseteq S
      /\ Closure!Roots \cup Closure!Led(reached, sources.includes) = named \cup included
      /\ Closure!Led(reached, sources.units) \subseteq reached \cup ahead

Reported ==
  Closure!Reports("forbidden", {f \in reached : Closure!Barred(f)}) \cup
  Closure!Reports("unclassified", {f \in reached : Closure!Unclassified(f)}) \cup
  Closure!Reports("unmet_dependency", {f \in named : Closure!Declined(f)})

FoundOnce ==
  /\ violations \in Seq([kind : {"forbidden", "unclassified", "unmet_dependency"}, path : File])
  /\ missing \in Seq(File)
  /\ Closure!IsInjective(violations) /\ Closure!ToSet(violations) = Reported
  /\ Closure!IsInjective(missing)
  /\ Closure!ToSet(missing) = {f \in reached : Closure!Taken(f)} \ sources.present

Begun ==
  /\ line > Len(ledger) + 1 /\ exit \in {"running", "unusable", "passed", "violated"}
  /\ pending \in Seq(File \X BOOLEAN)
  /\ reached \subseteq File /\ named \subseteq reached
  /\ WalkIsOn /\ FoundOnce
  /\ exit \in {"passed", "violated"} =>
       /\ pending = <<>>
       /\ exit = "passed" <=> violations = <<>> /\ missing = <<>> /\ Closure!Unreached = {}

ClosureInv ==
  /\ ledger \in Ledgers /\ sources \in SourceTrees
  /\ line \in Nat \ {0}
  /\ DOMAIN dispositions \subseteq File /\ IsFiniteSet(DOMAIN dispositions)
  /\ NotBegun \/ Begun
\* What the library says of a sequence as a set.
LEMMA SetOf ==
  ASSUME NEW S, NEW s \in Seq(S)
  PROVE  /\ Closure!ToSet(s) = {s[i] : i \in 1 .. Len(s)}
         /\ Closure!ToSet(s) \subseteq S
         /\ s = <<>> <=> Closure!ToSet(s) = {}
<1>1. DOMAIN s = 1 .. Len(s) /\ Len(s) \in Nat /\ \A i \in 1 .. Len(s) : s[i] \in S
  BY ElementOfSeq, LenProperties
<1>2. Closure!ToSet(s) = {s[i] : i \in 1 .. Len(s)}
  BY <1>1 DEF Closure!ToSet
<1>3. s # <<>> => 1 \in 1 .. Len(s)
  BY <1>1, EmptySeq
<1>4. s = <<>> => 1 .. Len(s) = {}
  OBVIOUS
<1>5. QED  BY <1>1, <1>2, <1>3, <1>4

LEMMA SetOfAppended ==
  ASSUME NEW S, NEW s \in Seq(S), NEW e \in S
  PROVE  /\ Append(s, e) \in Seq(S) /\ Closure!ToSet(Append(s, e)) = Closure!ToSet(s) \cup {e}
         /\ Closure!IsInjective(s) /\ e \notin Closure!ToSet(s) => Closure!IsInjective(Append(s, e))
<1> DEFINE t == Append(s, e)
<1>1. /\ t \in Seq(S) /\ Len(s) \in Nat /\ Len(t) = Len(s) + 1 /\ t[Len(s) + 1] = e
      /\ \A i \in 1 .. Len(s) : t[i] = s[i]
  BY AppendProperties
<1> HIDE DEF t
<1>2. Closure!ToSet(s) = {s[i] : i \in 1 .. Len(s)} /\ Closure!ToSet(t) = {t[i] : i \in 1 .. Len(t)}
  BY <1>1, SetOf
<1>3. 1 .. Len(t) = (1 .. Len(s)) \cup {Len(s) + 1}
  BY <1>1
<1>4. Closure!ToSet(t) = Closure!ToSet(s) \cup {e}
  <2>1. {t[i] : i \in 1 .. Len(t)} = {t[i] : i \in 1 .. Len(s)} \cup {t[Len(s) + 1]}
    BY <1>3
  <2>2. {t[i] : i \in 1 .. Len(s)} = {s[i] : i \in 1 .. Len(s)}
    BY <1>1
  <2>3. QED  BY <1>1, <1>2, <2>1, <2>2
<1>5. ASSUME Closure!IsInjective(s), e \notin Closure!ToSet(s)
      PROVE  Closure!IsInjective(t)
  <2>1. DOMAIN s = 1 .. Len(s) /\ DOMAIN t = 1 .. Len(t)
    BY <1>1, LenProperties
  <2>2. \A i \in 1 .. Len(s) : s[i] # e
    BY <1>2, <1>5
  <2>3. QED
    BY <1>1, <1>3, <1>5, <2>1, <2>2 DEF Closure!IsInjective
<1>6. QED  BY <1>1, <1>4, <1>5 DEF t

LEMMA SetOfJoined ==
  ASSUME NEW S, NEW s \in Seq(S), NEW t \in Seq(S)
  PROVE  /\ s \o t \in Seq(S)
         /\ Closure!ToSet(s \o t) = Closure!ToSet(s) \cup Closure!ToSet(t)
<1> DEFINE joined == s \o t
<1>1. /\ joined \in Seq(S) /\ Len(joined) = Len(s) + Len(t) /\ Len(s) \in Nat /\ Len(t) \in Nat
      /\ \A i \in 1 .. Len(s) + Len(t) : joined[i] = IF i <= Len(s) THEN s[i] ELSE t[i - Len(s)]
  BY ConcatProperties, LenProperties
<1> HIDE DEF joined
<1>2. /\ Closure!ToSet(s) = {s[i] : i \in 1 .. Len(s)} /\ Closure!ToSet(t) = {t[i] : i \in 1 .. Len(t)}
      /\ Closure!ToSet(joined) = {joined[i] : i \in 1 .. Len(joined)}
  BY <1>1, SetOf
<1>3. ASSUME NEW i \in 1 .. Len(joined)  PROVE joined[i] \in Closure!ToSet(s) \cup Closure!ToSet(t)
  <2>1. CASE i <= Len(s)
    <3>1. i \in 1 .. Len(s) /\ joined[i] = s[i]
      BY <1>1, <2>1
    <3>2. QED  BY <1>2, <3>1
  <2>2. CASE ~ (i <= Len(s))
    <3>1. i - Len(s) \in 1 .. Len(t) /\ joined[i] = t[i - Len(s)]
      BY <1>1, <2>2
    <3>2. QED  BY <1>2, <3>1
  <2>3. QED  BY <2>1, <2>2
<1>4. ASSUME NEW i \in 1 .. Len(s)  PROVE s[i] \in Closure!ToSet(joined)
  <2>1. i \in 1 .. Len(joined) /\ joined[i] = s[i]
    BY <1>1
  <2>2. QED  BY <1>2, <2>1
<1>5. ASSUME NEW i \in 1 .. Len(t)  PROVE t[i] \in Closure!ToSet(joined)
  <2>1. Len(s) + i \in 1 .. Len(joined) /\ ~ (Len(s) + i <= Len(s)) /\ (Len(s) + i) - Len(s) = i
    BY <1>1
  <2>2. joined[Len(s) + i] = t[i]
    BY <1>1, <2>1
  <2>3. QED  BY <1>2, <2>1, <2>2
<1>6. Closure!ToSet(joined) = Closure!ToSet(s) \cup Closure!ToSet(t)
  <2>1. \A x : x \in Closure!ToSet(joined) => x \in Closure!ToSet(s) \cup Closure!ToSet(t)
    BY <1>2, <1>3
  <2>2. \A x : x \in Closure!ToSet(s) => x \in Closure!ToSet(joined)
    BY <1>2, <1>4
  <2>3. \A x : x \in Closure!ToSet(t) => x \in Closure!ToSet(joined)
    BY <1>2, <1>5
  <2>4. QED  BY <2>1, <2>2, <2>3, Zenon
<1>7. QED  BY <1>1, <1>6 DEF joined

LEMMA SetOfPopped ==
  ASSUME NEW S, NEW s \in Seq(S), s # <<>>
  PROVE  /\ Closure!Last(s) \in S /\ Closure!Front(s) \in Seq(S)
         /\ Closure!ToSet(s) = Closure!ToSet(Closure!Front(s)) \cup {Closure!Last(s)}
<1> DEFINE t == Closure!Front(s)
           e == Closure!Last(s)
           n == Len(s) - 1
<1>1. Len(s) \in Nat /\ Len(s) # 0 /\ \A i \in 1 .. Len(s) : s[i] \in S
  BY ElementOfSeq, EmptySeq, LenProperties
<1>2. t = SubSeq(s, 1, n) /\ e = s[Len(s)]
  BY DEF Closure!Front, Closure!Last
<1>3. n \in Nat /\ n = Len(s) - 1 /\ 1 .. Len(s) = (1 .. n) \cup {Len(s)} /\ Len(s) \in 1 .. Len(s)
  BY <1>1
<1> HIDE DEF t, e, n
<1>4. \A i \in 1 .. n : s[i] \in S
  BY <1>1, <1>3
<1>5. t \in Seq(S) /\ Len(t) = n /\ \A i \in 1 .. n : t[i] = s[i]
  <2>1. /\ t \in Seq(S) /\ Len(t) = (IF 1 <= n THEN n - 1 + 1 ELSE 0)
        /\ \A i \in 1 .. n - 1 + 1 : t[i] = s[1 + i - 1]
    BY <1>2, <1>3, <1>4, SubSeqProperties
  <2>2. n - 1 + 1 = n /\ \A i \in 1 .. n : 1 + i - 1 = i
    BY <1>3
  <2>3. QED  BY <1>3, <2>1, <2>2
<1>6. Closure!ToSet(s) = {s[i] : i \in 1 .. Len(s)} /\ Closure!ToSet(t) = {t[i] : i \in 1 .. n}
  BY <1>5, SetOf
<1>7. QED
  <2>1. {s[i] : i \in 1 .. Len(s)} = {s[i] : i \in 1 .. n} \cup {s[Len(s)]}
    BY <1>3
  <2>2. {s[i] : i \in 1 .. n} = {t[i] : i \in 1 .. n}
    BY <1>5
  <2>3. QED  BY <1>1, <1>2, <1>3, <1>5, <1>6, <2>1, <2>2 DEF t, e

\* h[i] is what of the first i elements of s is not known.
Drops(h, s, known, n) ==
  h = [i \in 0 .. n |->
         IF i = 0 THEN <<>> ELSE IF s[i] \in known THEN h[i - 1] ELSE Append(h[i - 1], s[i])]

LEMMA DropsExists ==
  ASSUME NEW s, NEW known
  PROVE  \A n \in Nat : \E h : Drops(h, s, known, n)
<1> DEFINE Body(h, i) ==
             IF i = 0 THEN <<>> ELSE IF s[i] \in known THEN h[i - 1] ELSE Append(h[i - 1], s[i])
           T == {n \in Nat : \E h : h = [i \in 0 .. n |-> Body(h, i)]}
<1>1. 0 \in T
  <2> DEFINE h == [i \in 0 .. 0 |-> <<>>]
  <2>1. h = [i \in 0 .. 0 |-> Body(h, i)]
    OBVIOUS
  <2>2. QED  BY <2>1
<1>2. ASSUME NEW n \in Nat, n \in T  PROVE n + 1 \in T
  <2>1. PICK h : h = [i \in 0 .. n |-> Body(h, i)]
    BY <1>2
  <2> DEFINE longer == [i \in 0 .. n + 1 |-> Body(h, i)]
  <2>2. ASSUME NEW i \in 0 .. n + 1  PROVE Body(h, i) = Body(longer, i)
    <3>1. CASE i = 0
      BY <3>1
    <3>2. CASE i # 0
      <4>1. i - 1 \in 0 .. n /\ i - 1 \in 0 .. n + 1
        BY <3>2
      <4> HIDE DEF Body
      <4>2. h[i - 1] = Body(h, i - 1) /\ longer[i - 1] = Body(h, i - 1)
        BY <4>1, <2>1
      <4>3. h[i - 1] = longer[i - 1]
        BY <4>2
      <4> HIDE DEF longer
      <4>4. QED  BY <4>3 DEF Body
    <3>3. QED  BY <3>1, <3>2
  <2> HIDE DEF Body
  <2>3. longer = [i \in 0 .. n + 1 |-> Body(longer, i)]
    BY <2>2
  <2> HIDE DEF longer
  <2>4. QED  BY <2>3
<1> HIDE DEF T
<1>3. \A n \in Nat : n \in T
  BY <1>1, <1>2, Induction
<1>4. QED  BY <1>3 DEF T, Drops

\* What is new is what is not known (the loops over includes and units).
LEMMA NewAre ==
  ASSUME NEW S, NEW s \in Seq(S), NEW known
  PROVE  /\ Closure!New(s, known) \in Seq(S)
         /\ Closure!ToSet(Closure!New(s, known)) = Closure!ToSet(s) \ known
<1> DEFINE h == CHOOSE dropped : Drops(dropped, s, known, Len(s))
           Upto(n) == {s[i] : i \in 1 .. n} \ known
           T == {n \in Nat : n <= Len(s) => h[n] \in Seq(S) /\ Closure!ToSet(h[n]) = Upto(n)}
<1>1. Len(s) \in Nat /\ \A i \in 1 .. Len(s) : s[i] \in S
  BY ElementOfSeq, LenProperties
<1>2. Drops(h, s, known, Len(s))
  BY <1>1, DropsExists
<1>3. Closure!New(s, known) = h[Len(s)]
  BY Zenon DEF Closure!New, Drops
<1> HIDE DEF h
<1>4. 0 \in T
  <2>1. h[0] = <<>>
    BY <1>1, <1>2 DEF Drops
  <2>2. <<>> \in Seq(S) /\ Closure!ToSet(<<>>) = {}
    <3>1. <<>> \in Seq(S)
      OBVIOUS
    <3>2. QED  BY <3>1, SetOf
  <2>3. Upto(0) = {}
    OBVIOUS
  <2>4. QED  BY <2>1, <2>2, <2>3
<1>5. ASSUME NEW n \in Nat, n \in T  PROVE n + 1 \in T
  <2> SUFFICES ASSUME n + 1 <= Len(s)
               PROVE  h[n + 1] \in Seq(S) /\ Closure!ToSet(h[n + 1]) = Upto(n + 1)
    OBVIOUS
  <2>1. h[n] \in Seq(S) /\ Closure!ToSet(h[n]) = Upto(n)
    BY <1>1, <1>5
  <2>2. s[n + 1] \in S /\ n + 1 \in 0 .. Len(s) /\ n + 1 # 0 /\ (n + 1) - 1 = n
    BY <1>1
  <2>3. h[n + 1] = IF s[n + 1] \in known THEN h[n] ELSE Append(h[n], s[n + 1])
    BY <1>2, <2>2 DEF Drops
  <2>4. {s[i] : i \in 1 .. n + 1} = {s[i] : i \in 1 .. n} \cup {s[n + 1]}
    <3>1. 1 .. n + 1 = (1 .. n) \cup {n + 1}
      OBVIOUS
    <3>2. QED  BY <3>1
  <2>5. CASE s[n + 1] \in known
    BY <2>1, <2>3, <2>4, <2>5
  <2>6. CASE s[n + 1] \notin known
    <3>1. /\ h[n + 1] \in Seq(S)
          /\ Closure!ToSet(h[n + 1]) = Closure!ToSet(h[n]) \cup {s[n + 1]}
      BY <2>1, <2>2, <2>3, <2>6, SetOfAppended
    <3>2. QED  BY <2>1, <2>4, <2>6, <3>1
  <2>7. QED  BY <2>5, <2>6
<1>6. Len(s) \in T
  <2> HIDE DEF T
  <2>1. QED  BY <1>1, <1>4, <1>5, Induction
<1>7. h[Len(s)] \in Seq(S) /\ Closure!ToSet(h[Len(s)]) = Upto(Len(s))
  BY <1>1, <1>6
<1>8. QED  BY <1>3, <1>7, SetOf

LEMMA EdgesAre ==
  ASSUME NEW s \in Seq(File), NEW b \in BOOLEAN
  PROVE  /\ Closure!Edges(s, b) \in Seq(File \X BOOLEAN)
         /\ Closure!ToSet(Closure!Edges(s, b)) = {<<f, b>> : f \in Closure!ToSet(s)}
<1> DEFINE t == Closure!Edges(s, b)
<1>1. Len(s) \in Nat /\ \A i \in 1 .. Len(s) : s[i] \in File
  BY ElementOfSeq, LenProperties
<1>2. t = [i \in 1 .. Len(s) |-> <<s[i], b>>]
  BY DEF Closure!Edges
<1> HIDE DEF t
<1>3. t \in Seq(File \X BOOLEAN)
  BY <1>1, <1>2, IsASeq
<1>4. Closure!ToSet(t) = {t[i] : i \in 1 .. Len(s)}
  BY <1>2 DEF Closure!ToSet
<1>5. Closure!ToSet(s) = {s[i] : i \in 1 .. Len(s)}
  BY SetOf
<1>6. QED  BY <1>2, <1>3, <1>4, <1>5 DEF t

LEMMA SameCount == \A S : Closure!Cardinality(S) = Cardinality(S)
BY DEF Closure!Cardinality, Cardinality

\* A finite set in some order.
LEMMA SomeOrder ==
  ASSUME NEW S, IsFiniteSet(S)
  PROVE  /\ Closure!SetToSeq(S) \in Seq(S)
         /\ Closure!ToSet(Closure!SetToSeq(S)) = S
<1> DEFINE n == Cardinality(S)
           s == Closure!SetToSeq(S)
           D == 1 .. n
<1>1. n \in Nat /\ \E f \in [D -> S] : Closure!IsInjective(f)
  <2>1. n \in Nat /\ ExistsBijection(D, S)
    BY FS_CardinalityType
  <2>2. PICK f \in Injection(D, S) : TRUE
    BY <2>1 DEF ExistsBijection, Bijection
  <2>3. f \in [D -> S] /\ \A a, b \in D : f[a] = f[b] => a = b
    BY <2>2 DEF Injection, IsInjective
  <2>4. Closure!IsInjective(f)
    BY <2>3 DEF Closure!IsInjective
  <2>5. QED  BY <2>1, <2>3, <2>4
<1>2. s = CHOOSE f \in [D -> S] : Closure!IsInjective(f)
  BY SameCount DEF Closure!SetToSeq
<1> HIDE DEF s
<1>3. s \in [D -> S] /\ Closure!IsInjective(s)
  BY <1>1, <1>2
<1>4. IsFiniteSet(D) /\ Cardinality(D) = n
  BY <1>1, FS_Interval
<1>5. s \in Injection(D, S)
  BY <1>3 DEF Injection, IsInjective, Closure!IsInjective
<1>6. s \in Surjection(D, S)
  <2> HIDE DEF D
  <2>1. QED  BY <1>4, <1>5, FS_Injection
<1>7. {s[i] : i \in D} = S
  BY <1>3, <1>6 DEF Surjection
<1>8. s \in Seq(S)
  BY <1>1, <1>3
<1>9. Closure!ToSet(s) = {s[i] : i \in D}
  BY <1>3 DEF Closure!ToSet
<1>10. QED  BY <1>7, <1>8, <1>9 DEF s
-----------------------------------------------------------------------------
LEMMA EdgesTogether ==
  /\ \A A, B : EndsOf(A \cup B) = EndsOf(A) \cup EndsOf(B)
  /\ \A A, B : Including(A \cup B) = Including(A) \cup Including(B)
  /\ \A f, b : EndsOf({<<f, b>>}) = {f}
  /\ \A f : Including({<<f, TRUE>>}) = {<<f, TRUE>>} /\ Including({<<f, FALSE>>}) = {}
  /\ \A X : EndsOf({<<f, TRUE>> : f \in X}) = X /\ EndsOf({<<f, FALSE>> : f \in X}) = X
  /\ \A X : /\ Including({<<f, TRUE>> : f \in X}) = {<<f, TRUE>> : f \in X}
            /\ Including({<<f, FALSE>> : f \in X}) = {}
  /\ EndsOf({}) = {} /\ Including({}) = {}
<1> USE DEF EndsOf, Including
<1>1. \A A, B : EndsOf(A \cup B) = EndsOf(A) \cup EndsOf(B)
  OBVIOUS
<1>2. \A A, B : Including(A \cup B) = Including(A) \cup Including(B)
  OBVIOUS
<1>3. ASSUME NEW f, NEW b  PROVE EndsOf({<<f, b>>}) = {f}
  <2>1. <<f, b>>[1] = f
    OBVIOUS
  <2>2. \A e : EndsOf({e}) = {e[1]}
    OBVIOUS
  <2>3. QED  BY <2>1, <2>2 DEF EndsOf
<1>4. ASSUME NEW f
      PROVE  Including({<<f, TRUE>>}) = {<<f, TRUE>>} /\ Including({<<f, FALSE>>}) = {}
  <2>1. <<f, TRUE>>[2] /\ ~ <<f, FALSE>>[2]
    OBVIOUS
  <2>2. QED  BY Zenon, <2>1 DEF Including
<1>5. ASSUME NEW X
      PROVE  EndsOf({<<f, TRUE>> : f \in X}) = X /\ EndsOf({<<f, FALSE>> : f \in X}) = X
  <2>1. \A f : <<f, TRUE>>[1] = f /\ <<f, FALSE>>[1] = f
    OBVIOUS
  <2>2. QED  BY <2>1 DEF EndsOf
<1>6. ASSUME NEW X
      PROVE  /\ Including({<<f, TRUE>> : f \in X}) = {<<f, TRUE>> : f \in X}
             /\ Including({<<f, FALSE>> : f \in X}) = {}
  <2>1. \A f : <<f, TRUE>>[2] /\ ~ <<f, FALSE>>[2]
    OBVIOUS
  <2>2. QED  BY Zenon, <2>1 DEF Including
<1>7. EndsOf({}) = {} /\ Including({}) = {}
  OBVIOUS
<1>8. QED  BY <1>1, <1>2, <1>3, <1>4, <1>5, <1>6, <1>7

\* What the ledger and the tree say does not change.
LEMMA TheyStay ==
  ASSUME UNCHANGED <<ledger, sources, dispositions>>
  PROVE  /\ Closure!Roots' = Closure!Roots
         /\ \A f : /\ Closure!Barred(f)' = Closure!Barred(f)
                   /\ Closure!Taken(f)' = Closure!Taken(f)
                   /\ Closure!Declined(f)' = Closure!Declined(f)
                   /\ Closure!Unclassified(f)' = Closure!Unclassified(f)
         /\ \A S : Closure!Closed(S)' = Closure!Closed(S)
         /\ \A S, edges : Closure!Led(S, edges)' = Closure!Led(S, edges)
<1>1. \A f : Closure!Disposition(f)' = Closure!Disposition(f)
  BY DEF Closure!Disposition
<1>2. \A d : Closure!Says(d)' = Closure!Says(d)
  BY DEF Closure!Says
<1>3. Closure!Roots' = Closure!Roots
  BY <1>1 DEF Closure!Roots
<1>4. \A f : Closure!Barred(f)' = Closure!Barred(f)
  BY <1>1, <1>2 DEF Closure!Barred
<1>5. \A f : /\ Closure!Taken(f)' = Closure!Taken(f)
             /\ Closure!Declined(f)' = Closure!Declined(f)
             /\ Closure!Unclassified(f)' = Closure!Unclassified(f)
  BY <1>1, <1>2, <1>4
     DEF Closure!Taken, Closure!Declined, Closure!Unclassified, Closure!Undecided
<1>6. \A S, edges : Closure!Led(S, edges)' = Closure!Led(S, edges)
  BY <1>5 DEF Closure!Led
<1>7. \A S : Closure!Closed(S)' = Closure!Closed(S)
  BY <1>3, <1>6 DEF Closure!Closed
<1>8. QED  BY <1>3, <1>4, <1>5, <1>6, <1>7

LEMMA FoundStays ==
  ASSUME UNCHANGED <<ledger, sources, dispositions, reached, named, violations, missing>>
  PROVE  FoundOnce' = FoundOnce
<1>1. Reported' = Reported
  BY TheyStay DEF Reported, Closure!Reports
<1>2. /\ Closure!ToSet(violations)' = Closure!ToSet(violations)
      /\ Closure!ToSet(missing)' = Closure!ToSet(missing)
      /\ Closure!IsInjective(violations)' = Closure!IsInjective(violations)
      /\ Closure!IsInjective(missing)' = Closure!IsInjective(missing)
  BY DEF Closure!ToSet, Closure!IsInjective
<1>3. {f \in reached : Closure!Taken(f)}' = {f \in reached : Closure!Taken(f)}
  BY TheyStay
<1>4. QED  BY <1>1, <1>2, <1>3 DEF FoundOnce

LEMMA WalkStays ==
  ASSUME UNCHANGED <<ledger, sources, dispositions, pending, reached, named>>
  PROVE  WalkIsOn' = WalkIsOn
<1>1. Closure!ToSet(pending)' = Closure!ToSet(pending)
  BY DEF Closure!ToSet
<1>2. QED  BY <1>1, TheyStay DEF WalkIsOn

\* The assumption, for the tree at hand.
LEMMA TreesAre ==
  ASSUME sources \in SourceTrees, NEW f \in File
  PROVE  sources.includes[f] \in Seq(File) /\ sources.units[f] \in Seq(File)
BY ConstructionAssumptions DEF Closure!ClosureAssumption

LEMMA LinesAre ==
  ASSUME ledger \in Ledgers
  PROVE  ledger \in Seq([directive : Closure!Directive, path : File, reason : BOOLEAN])
BY ConstructionAssumptions DEF Closure!ClosureAssumption

\* One file more.
LEMMA LedMore ==
  ASSUME NEW S, NEW f, NEW edges
  PROVE  Closure!Led(S \cup {f}, edges) =
           Closure!Led(S, edges) \cup
             IF Closure!Taken(f) /\ f \in sources.present THEN Closure!ToSet(edges[f]) ELSE {}
BY DEF Closure!Led

\* Of the last edge.
LEMMA TheLast ==
  ASSUME pending \in Seq(File \X BOOLEAN), pending # <<>>
  PROVE  LET f == Closure!Last(pending)[1]
             b == Closure!Last(pending)[2]
             rest == Closure!ToSet(Closure!Front(pending))
         IN  /\ f \in File /\ b \in BOOLEAN
             /\ Closure!Front(pending) \in Seq(File \X BOOLEAN)
             /\ EndsOf(Closure!ToSet(pending)) = EndsOf(rest) \cup {f}
             /\ EndsOf(Including(Closure!ToSet(pending))) =
                  EndsOf(Including(rest)) \cup (IF b THEN {f} ELSE {})
<1> DEFINE e == Closure!Last(pending)
           rest == Closure!ToSet(Closure!Front(pending))
<1>1. /\ e \in File \X BOOLEAN /\ Closure!Front(pending) \in Seq(File \X BOOLEAN)
      /\ Closure!ToSet(pending) = rest \cup {e}
  BY SetOfPopped
<1> HIDE DEF e, rest
<1>2. e[1] \in File /\ e[2] \in BOOLEAN /\ e = <<e[1], e[2]>>
  BY <1>1
<1>3. EndsOf({e}) = {e[1]}
  BY <1>2, EdgesTogether
<1>4. Including({e}) = IF e[2] THEN {e} ELSE {}
  BY DEF Including
<1>5. EndsOf(Including({e})) = IF e[2] THEN {e[1]} ELSE {}
  BY <1>3, <1>4, EdgesTogether
<1>6. /\ EndsOf(Closure!ToSet(pending)) = EndsOf(rest) \cup {e[1]}
      /\ EndsOf(Including(Closure!ToSet(pending))) =
           EndsOf(Including(rest)) \cup (IF e[2] THEN {e[1]} ELSE {})
  <2>1. EndsOf(rest \cup {e}) = EndsOf(rest) \cup EndsOf({e})
    BY EdgesTogether
  <2>2. /\ Including(rest \cup {e}) = Including(rest) \cup Including({e})
        /\ EndsOf(Including(rest) \cup Including({e})) =
             EndsOf(Including(rest)) \cup EndsOf(Including({e}))
    BY EdgesTogether
  <2>3. QED  BY <1>1, <1>3, <1>5, <2>1, <2>2
<1>7. QED  BY <1>1, <1>2, <1>6 DEF e, rest

\* An edge to what is known tells nothing.
LEMMA SkipKeeps == ClosureInv /\ Closure!Skip => ClosureInv'
<1> SUFFICES ASSUME ClosureInv, Closure!Skip  PROVE ClosureInv'
  OBVIOUS
<1> DEFINE f == Closure!Last(pending)[1]
           b == Closure!Last(pending)[2]
           rest == Closure!ToSet(Closure!Front(pending))
<1>1. /\ exit = "running" /\ pending # <<>> /\ pending' = Closure!Front(pending)
      /\ f \in reached /\ (f \in named \/ ~b)
      /\ UNCHANGED <<ledger, sources, line, dispositions, reached, named, violations, missing, exit>>
  BY DEF Closure!Skip, Closure!Walking, Closure!Known, Closure!input
<1>2. Begun
  BY <1>1 DEF ClosureInv, NotBegun
<1>3. /\ f \in File /\ b \in BOOLEAN
      /\ Closure!Front(pending) \in Seq(File \X BOOLEAN)
      /\ EndsOf(Closure!ToSet(pending)) = EndsOf(rest) \cup {f}
      /\ EndsOf(Including(Closure!ToSet(pending))) =
           EndsOf(Including(rest)) \cup (IF b THEN {f} ELSE {})
  BY <1>1, <1>2, TheLast DEF Begun
<1>4. Closure!ToSet(pending)' = rest
  BY <1>1
<1> HIDE DEF f, b, rest
<1>5. WalkIsOn'
  BY <1>1, <1>2, <1>3, <1>4, TheyStay DEF WalkIsOn, Begun
<1>6. FoundOnce'
  BY <1>1, <1>2, FoundStays DEF Begun
<1>7. Begun'
  BY <1>1, <1>2, <1>3, <1>5, <1>6 DEF Begun
<1>8. QED  BY <1>1, <1>7 DEF ClosureInv

\* The stack, before and after a file is visited.
LEMMA VisitGoesOn ==
  ASSUME ClosureInv, Closure!Visit
  PROVE  pending' \in Seq(File \X BOOLEAN) /\ WalkIsOn'
<1> DEFINE f == Closure!Last(pending)[1]
           b == Closure!Last(pending)[2]
           rest == Closure!Front(pending)
           byName == IF b THEN {f} ELSE {}
           names == Closure!ToSet(sources.includes[f]) \ (named \cup byName)
           others == Closure!ToSet(sources.units[f]) \ (reached \cup {f})
<1>1. /\ exit = "running" /\ pending # <<>>
      /\ reached' = reached \cup {f} /\ named' = named \cup byName
      /\ pending' = rest \o (IF Closure!Enters(f) THEN Closure!Onward(f, b) ELSE <<>>)
      /\ UNCHANGED <<ledger, sources, line, dispositions, exit>>
  BY DEF Closure!Visit, Closure!Walking, Closure!input
<1>2. Begun /\ WalkIsOn /\ sources \in SourceTrees
  BY <1>1 DEF ClosureInv, NotBegun, Begun
<1>3. /\ f \in File /\ b \in BOOLEAN /\ rest \in Seq(File \X BOOLEAN)
      /\ EndsOf(Closure!ToSet(pending)) = EndsOf(Closure!ToSet(rest)) \cup {f}
      /\ EndsOf(Including(Closure!ToSet(pending))) =
           EndsOf(Including(Closure!ToSet(rest))) \cup byName
  BY <1>1, <1>2, TheLast DEF Begun
<1>4. /\ Closure!Onward(f, b) \in Seq(File \X BOOLEAN)
      /\ Closure!ToSet(Closure!Onward(f, b)) =
           {<<g, TRUE>> : g \in names} \cup {<<g, FALSE>> : g \in others}
  <2> DEFINE first == Closure!New(sources.includes[f], named \cup byName)
             then == Closure!New(sources.units[f], reached \cup {f})
  <2>1. sources.includes[f] \in Seq(File) /\ sources.units[f] \in Seq(File)
    BY <1>2, <1>3, TreesAre
  <2>2. Closure!Onward(f, b) = Closure!Edges(first, TRUE) \o Closure!Edges(then, FALSE)
    BY DEF Closure!Onward
  <2>3. /\ first \in Seq(File) /\ Closure!ToSet(first) = names
        /\ then \in Seq(File) /\ Closure!ToSet(then) = others
    BY <2>1, NewAre
  <2> HIDE DEF first, then
  <2>4. /\ Closure!Edges(first, TRUE) \in Seq(File \X BOOLEAN)
        /\ Closure!ToSet(Closure!Edges(first, TRUE)) = {<<g, TRUE>> : g \in names}
    BY <2>3, EdgesAre
  <2>5. /\ Closure!Edges(then, FALSE) \in Seq(File \X BOOLEAN)
        /\ Closure!ToSet(Closure!Edges(then, FALSE)) = {<<g, FALSE>> : g \in others}
    BY <2>3, EdgesAre
  <2> DEFINE p == Closure!Edges(first, TRUE)
             q == Closure!Edges(then, FALSE)
             S == File \X BOOLEAN
  <2>6. p \in Seq(S) /\ q \in Seq(S)
    BY <2>4, <2>5
  <2> HIDE DEF p, q, S, names, others
  <2>7. p \o q \in Seq(S) /\ Closure!ToSet(p \o q) = Closure!ToSet(p) \cup Closure!ToSet(q)
    BY <2>6, SetOfJoined
  <2>8. QED  BY <2>2, <2>4, <2>5, <2>7 DEF p, q, S
<1>5. CASE Closure!Enters(f)
  <2>1. f \notin reached /\ Closure!Taken(f) /\ f \in sources.present
    BY <1>5 DEF Closure!Enters
  <2>2. /\ pending' \in Seq(File \X BOOLEAN)
        /\ Closure!ToSet(pending') =
             Closure!ToSet(rest) \cup ({<<g, TRUE>> : g \in names} \cup {<<g, FALSE>> : g \in others})
    <3> DEFINE onward == Closure!Onward(f, b)
    <3> HIDE DEF onward, rest, names, others
    <3>1. pending' = rest \o onward
      BY <1>1, <1>5 DEF onward
    <3>2. onward \in Seq(File \X BOOLEAN) /\ rest \in Seq(File \X BOOLEAN)
      BY <1>3, <1>4 DEF onward
    <3>3. /\ rest \o onward \in Seq(File \X BOOLEAN)
          /\ Closure!ToSet(rest \o onward) = Closure!ToSet(rest) \cup Closure!ToSet(onward)
      BY <3>2, SetOfJoined
    <3>4. QED  BY <1>4, <3>1, <3>3 DEF onward
  <2> DEFINE A == {<<g, TRUE>> : g \in names}
             B == {<<g, FALSE>> : g \in others}
  <2>3. /\ EndsOf(A) = names /\ EndsOf(B) = others /\ Including(A) = A /\ Including(B) = {}
        /\ Closure!ToSet(pending') = Closure!ToSet(rest) \cup (A \cup B)
    BY <2>2, EdgesTogether
  <2> HIDE DEF A, B
  <2>4. EndsOf(Closure!ToSet(pending')) = EndsOf(Closure!ToSet(rest)) \cup names \cup others
    <3>1. /\ EndsOf(Closure!ToSet(rest) \cup (A \cup B)) =
                EndsOf(Closure!ToSet(rest)) \cup EndsOf(A \cup B)
          /\ EndsOf(A \cup B) = EndsOf(A) \cup EndsOf(B)
      BY EdgesTogether
    <3> HIDE DEF names, others
    <3>2. QED  BY <2>3, <3>1
  <2>5. EndsOf(Including(Closure!ToSet(pending'))) = EndsOf(Including(Closure!ToSet(rest))) \cup names
    <3>1. /\ Including(Closure!ToSet(rest) \cup (A \cup B)) =
                Including(Closure!ToSet(rest)) \cup Including(A \cup B)
          /\ Including(A \cup B) = Including(A) \cup Including(B)
      BY EdgesTogether
    <3>2. Including(Closure!ToSet(pending')) = Including(Closure!ToSet(rest)) \cup A
      BY <2>3, <3>1
    <3>3. EndsOf(Including(Closure!ToSet(rest)) \cup A) =
            EndsOf(Including(Closure!ToSet(rest))) \cup EndsOf(A)
      BY EdgesTogether
    <3> HIDE DEF names
    <3>4. QED  BY <2>3, <3>2, <3>3
  <2>6. /\ Closure!Led(reached', sources.includes) =
             Closure!Led(reached, sources.includes) \cup Closure!ToSet(sources.includes[f])
        /\ Closure!Led(reached', sources.units) =
             Closure!Led(reached, sources.units) \cup Closure!ToSet(sources.units[f])
    BY <1>1, <2>1, LedMore
  <2>7. ASSUME NEW S, Closure!Closed(S)
        PROVE  reached' \cup EndsOf(Closure!ToSet(pending')) \subseteq S
    <3>1. reached \cup EndsOf(Closure!ToSet(rest)) \cup {f} \subseteq S
      BY <1>2, <1>3, <2>7 DEF WalkIsOn
    <3>2. Closure!ToSet(sources.includes[f]) \subseteq S /\ Closure!ToSet(sources.units[f]) \subseteq S
      BY <2>1, <2>7, <3>1 DEF Closure!Closed, Closure!Led
    <3>3. QED  BY <1>1, <2>4, <3>1, <3>2
  <2>8. Closure!Roots \cup Closure!Led(reached', sources.includes) =
          named' \cup EndsOf(Including(Closure!ToSet(pending')))
    BY <1>1, <1>2, <1>3, <2>5, <2>6 DEF WalkIsOn
  <2>9. Closure!Led(reached', sources.units) \subseteq reached' \cup EndsOf(Closure!ToSet(pending'))
    BY <1>1, <1>2, <1>3, <2>4, <2>6 DEF WalkIsOn
  <2> HIDE DEF f, b, rest, names, others, byName
  <2>10. Closure!ToSet(pending)' = Closure!ToSet(pending') /\ sources' = sources
    BY <1>1 DEF Closure!ToSet
  <2>11. QED  BY <1>1, <2>2, <2>7, <2>8, <2>9, <2>10, TheyStay DEF WalkIsOn
<1>6. CASE ~Closure!Enters(f)
  <2>1. /\ pending' = rest
        /\ f \in reached \/ ~ (Closure!Taken(f) /\ f \in sources.present)
    <3>1. rest \o <<>> = rest
      BY <1>3, ConcatEmptySeq
    <3>2. QED  BY <1>1, <1>6, <3>1 DEF Closure!Enters
  <2>2. \A edges : Closure!Led(reached', edges) = Closure!Led(reached, edges)
    BY <1>1, <2>1 DEF Closure!Led
  <2>3. ASSUME NEW S, Closure!Closed(S)
        PROVE  reached' \cup EndsOf(Closure!ToSet(pending')) \subseteq S
    BY <1>1, <1>2, <1>3, <2>1, <2>3 DEF WalkIsOn
  <2>4. Closure!Roots \cup Closure!Led(reached', sources.includes) =
          named' \cup EndsOf(Including(Closure!ToSet(pending')))
    BY <1>1, <1>2, <1>3, <2>1, <2>2 DEF WalkIsOn
  <2>5. Closure!Led(reached', sources.units) \subseteq reached' \cup EndsOf(Closure!ToSet(pending'))
    BY <1>1, <1>2, <1>3, <2>1, <2>2 DEF WalkIsOn
  <2> HIDE DEF f, b, rest, names, others, byName
  <2>6. Closure!ToSet(pending)' = Closure!ToSet(pending') /\ sources' = sources
    BY <1>1 DEF Closure!ToSet
  <2>7. QED  BY <1>1, <1>3, <2>1, <2>3, <2>4, <2>5, <2>6, TheyStay DEF WalkIsOn
<1>7. QED  BY <1>5, <1>6

\* What is found, before and after: Wrong and missing_from_source.
LEMMA WhatIsWrong ==
  /\ \A f : Closure!Barred(f) => ~Closure!Unclassified(f) /\ ~Closure!Declined(f)
  /\ \A f : Closure!Unclassified(f) => ~Closure!Declined(f)
BY DEF Closure!Unclassified, Closure!Undecided, Closure!Declined

LEMMA VisitFindsOnce ==
  ASSUME ClosureInv, Closure!Visit
  PROVE  FoundOnce'
<1> DEFINE f == Closure!Last(pending)[1]
           b == Closure!Last(pending)[2]
           byName == IF b THEN {f} ELSE {}
           Report(kind) == [kind |-> kind, path |-> f]
           Kinds == {"forbidden", "unclassified", "unmet_dependency"}
           Violation == [kind : Kinds, path : File]
           lost == f \notin reached /\ Closure!Taken(f) /\ f \notin sources.present
<1>1. /\ exit = "running" /\ pending # <<>> /\ ~Closure!Known(f, b)
      /\ reached' = reached \cup {f} /\ named' = named \cup byName
      /\ violations' = violations \o Closure!Wrong(f, b)
      /\ missing' = IF lost THEN Append(missing, f) ELSE missing
      /\ UNCHANGED <<ledger, sources, line, dispositions, exit>>
  BY DEF Closure!Visit, Closure!Walking, Closure!input
<1>2. Begun /\ FoundOnce
  BY <1>1 DEF ClosureInv, NotBegun, Begun
<1>3. f \in File /\ b \in BOOLEAN
  BY <1>1, <1>2, TheLast DEF Begun
<1>4. /\ violations \in Seq(Violation) /\ missing \in Seq(File)
      /\ Closure!IsInjective(violations) /\ Closure!ToSet(violations) = Reported
      /\ Closure!IsInjective(missing)
      /\ Closure!ToSet(missing) = {g \in reached : Closure!Taken(g)} \ sources.present
  BY <1>2 DEF FoundOnce
<1> HIDE DEF f, b
<1>5. Reported' =
        Closure!Reports("forbidden", {g \in reached' : Closure!Barred(g)}) \cup
        Closure!Reports("unclassified", {g \in reached' : Closure!Unclassified(g)}) \cup
        Closure!Reports("unmet_dependency", {g \in named' : Closure!Declined(g)})
  BY <1>1, TheyStay DEF Reported, Closure!Reports
<1>6. ASSUME NEW kind \in Kinds, Report(kind) \notin Reported,
             Closure!Wrong(f, b) = <<Report(kind)>>, Reported' = Reported \cup {Report(kind)}
      PROVE  /\ violations' \in Seq(Violation) /\ Closure!IsInjective(violations')
             /\ Closure!ToSet(violations') = Reported'
  <2> DEFINE r == Report(kind)
  <2>1. r \in Violation /\ r \notin Closure!ToSet(violations) /\ violations' = violations \o <<r>>
    BY <1>1, <1>3, <1>4, <1>6
  <2> HIDE DEF r, Violation
  <2>2. violations' = Append(violations, r)
    BY <1>4, <2>1, AppendIsConcat
  <2>3. /\ violations' \in Seq(Violation) /\ Closure!IsInjective(violations')
        /\ Closure!ToSet(violations') = Closure!ToSet(violations) \cup {r}
    <3>1. /\ Append(violations, r) \in Seq(Violation)
          /\ Closure!ToSet(Append(violations, r)) = Closure!ToSet(violations) \cup {r}
          /\ Closure!IsInjective(Append(violations, r))
      BY <1>4, <2>1, SetOfAppended
    <3>2. QED  BY <2>2, <3>1
  <2>4. QED  BY <1>4, <1>6, <2>3 DEF r
<1>7. ASSUME Closure!Wrong(f, b) = <<>>, Reported' = Reported
      PROVE  /\ violations' \in Seq(Violation) /\ Closure!IsInjective(violations')
             /\ Closure!ToSet(violations') = Reported'
  <2> HIDE DEF Violation
  <2>1. violations' = violations
    BY <1>1, <1>4, <1>7, ConcatEmptySeq
  <2>2. QED  BY <1>4, <1>7, <2>1
<1>8. /\ violations' \in Seq(Violation) /\ Closure!IsInjective(violations')
      /\ Closure!ToSet(violations') = Reported'
  <2>1. CASE f \notin reached /\ Closure!Barred(f)
    <3>1. Report("forbidden") \notin Reported
      BY <2>1 DEF Reported, Closure!Reports
    <3>2. Closure!Wrong(f, b) = <<Report("forbidden")>>
      BY <2>1 DEF Closure!Wrong
    <3>3. /\ {g \in reached' : Closure!Barred(g)} = {g \in reached : Closure!Barred(g)} \cup {f}
          /\ {g \in reached' : Closure!Unclassified(g)} = {g \in reached : Closure!Unclassified(g)}
          /\ {g \in named' : Closure!Declined(g)} = {g \in named : Closure!Declined(g)}
      BY <1>1, <2>1, WhatIsWrong
    <3>4. Reported' = Reported \cup {Report("forbidden")}
      BY <1>5, <3>3 DEF Reported, Closure!Reports
    <3>5. QED  BY <1>6, <3>1, <3>2, <3>4
  <2>2. CASE f \notin reached /\ Closure!Unclassified(f)
    <3>1. Report("unclassified") \notin Reported
      BY <2>2 DEF Reported, Closure!Reports
    <3>2. Closure!Wrong(f, b) = <<Report("unclassified")>>
      BY <2>2, WhatIsWrong DEF Closure!Wrong
    <3>3. /\ {g \in reached' : Closure!Barred(g)} = {g \in reached : Closure!Barred(g)}
          /\ {g \in reached' : Closure!Unclassified(g)} =
               {g \in reached : Closure!Unclassified(g)} \cup {f}
          /\ {g \in named' : Closure!Declined(g)} = {g \in named : Closure!Declined(g)}
      BY <1>1, <2>2, WhatIsWrong
    <3>4. Reported' = Reported \cup {Report("unclassified")}
      BY <1>5, <3>3 DEF Reported, Closure!Reports
    <3>5. QED  BY <1>6, <3>1, <3>2, <3>4
  <2>3. CASE b /\ f \notin named /\ Closure!Declined(f)
    <3>1. Report("unmet_dependency") \notin Reported
      BY <2>3 DEF Reported, Closure!Reports
    <3>2. Closure!Wrong(f, b) = <<Report("unmet_dependency")>>
      BY <2>3, WhatIsWrong DEF Closure!Wrong
    <3>3. /\ {g \in reached' : Closure!Barred(g)} = {g \in reached : Closure!Barred(g)}
          /\ {g \in reached' : Closure!Unclassified(g)} = {g \in reached : Closure!Unclassified(g)}
          /\ {g \in named' : Closure!Declined(g)} = {g \in named : Closure!Declined(g)} \cup {f}
      BY <1>1, <2>3, WhatIsWrong
    <3>4. Reported' = Reported \cup {Report("unmet_dependency")}
      BY <1>5, <3>3 DEF Reported, Closure!Reports
    <3>5. QED  BY <1>6, <3>1, <3>2, <3>4
  <2>4. CASE /\ ~ (f \notin reached /\ Closure!Barred(f))
             /\ ~ (f \notin reached /\ Closure!Unclassified(f))
             /\ ~ (b /\ f \notin named /\ Closure!Declined(f))
    <3>1. Closure!Wrong(f, b) = <<>>
      BY <2>4 DEF Closure!Wrong
    <3>2. /\ {g \in reached' : Closure!Barred(g)} = {g \in reached : Closure!Barred(g)}
          /\ {g \in reached' : Closure!Unclassified(g)} = {g \in reached : Closure!Unclassified(g)}
          /\ {g \in named' : Closure!Declined(g)} = {g \in named : Closure!Declined(g)}
      BY <1>1, <2>4
    <3>3. Reported' = Reported
      BY <1>5, <3>2 DEF Reported
    <3>4. QED  BY <1>7, <3>1, <3>3
  <2>5. QED  BY <2>1, <2>2, <2>3, <2>4
<1>9. /\ missing' \in Seq(File) /\ Closure!IsInjective(missing')
      /\ Closure!ToSet(missing') = {g \in reached' : Closure!Taken(g)} \ sources.present
  <2>1. CASE lost
    <3>1. f \notin Closure!ToSet(missing)
      BY <1>4, <2>1
    <3>2. {g \in reached' : Closure!Taken(g)} \ sources.present =
            ({g \in reached : Closure!Taken(g)} \ sources.present) \cup {f}
      BY <1>1, <2>1
    <3>3. QED  BY <1>1, <1>3, <1>4, <2>1, <3>1, <3>2, SetOfAppended
  <2>2. CASE ~lost
    <3>1. {g \in reached' : Closure!Taken(g)} \ sources.present =
            {g \in reached : Closure!Taken(g)} \ sources.present
      BY <1>1, <2>2
    <3>2. QED  BY <1>1, <1>4, <2>2, <3>1
  <2>3. QED  BY <2>1, <2>2
<1>10. /\ Closure!IsInjective(violations)' = Closure!IsInjective(violations')
       /\ Closure!ToSet(violations)' = Closure!ToSet(violations')
       /\ Closure!IsInjective(missing)' = Closure!IsInjective(missing')
       /\ Closure!ToSet(missing)' = Closure!ToSet(missing')
       /\ {g \in reached : Closure!Taken(g)}' = {g \in reached' : Closure!Taken(g)}
  BY <1>1, TheyStay DEF Closure!IsInjective, Closure!ToSet
<1>11. QED  BY <1>1, <1>8, <1>9, <1>10 DEF FoundOnce

LEMMA VisitKeeps == ClosureInv /\ Closure!Visit => ClosureInv'
<1> SUFFICES ASSUME ClosureInv, Closure!Visit  PROVE ClosureInv'
  OBVIOUS
<1> DEFINE f == Closure!Last(pending)[1]
<1>1. /\ exit = "running" /\ pending # <<>>
      /\ reached' = reached \cup {f} /\ named' \subseteq named \cup {f}
      /\ UNCHANGED <<ledger, sources, line, dispositions, exit>>
  BY DEF Closure!Visit, Closure!Walking, Closure!input
<1>2. Begun
  BY <1>1 DEF ClosureInv, NotBegun
<1>3. f \in File
  BY <1>1, <1>2, TheLast DEF Begun
<1>4. pending' \in Seq(File \X BOOLEAN) /\ WalkIsOn' /\ FoundOnce'
  BY VisitGoesOn, VisitFindsOnce
<1> HIDE DEF f
<1>5. Begun'
  BY <1>1, <1>2, <1>3, <1>4 DEF Begun
<1>6. QED  BY <1>1, <1>5 DEF ClosureInv

LEMMA ClosureStarts == Closure!Init => ClosureInv
<1> SUFFICES ASSUME Closure!Init  PROVE ClosureInv
  OBVIOUS
<1> USE DEF Closure!Init
<1>1. Len(ledger) \in Nat
  BY LinesAre, LenProperties
<1>2. NotBegun
  BY <1>1 DEF NotBegun
<1>3. DOMAIN dispositions = {} /\ IsFiniteSet({})
  BY FS_EmptySet
<1>4. QED  BY <1>2, <1>3 DEF ClosureInv

LEMMA ClassifyKeeps == ClosureInv /\ Closure!Classify => ClosureInv'
<1> SUFFICES ASSUME ClosureInv, Closure!Classify  PROVE ClosureInv'
  OBVIOUS
<1> DEFINE l == ledger[line]
<1>1. /\ exit = "running" /\ line <= Len(ledger) /\ line' = line + 1
      /\ dispositions' = IF l.directive \in Closure!Dispositions
                         THEN [f \in DOMAIN dispositions \cup {l.path} |->
                                 IF f = l.path THEN l.directive ELSE dispositions[f]]
                         ELSE dispositions
      /\ UNCHANGED <<ledger, sources, pending, reached, named, violations, missing, exit>>
  BY DEF Closure!Classify, Closure!Reading, Closure!input, Closure!walk
<1>2. Len(ledger) \in Nat /\ line \in Nat \ {0} /\ l.path \in File
  <2>1. ledger \in Seq([directive : Closure!Directive, path : File, reason : BOOLEAN])
    BY LinesAre DEF ClosureInv
  <2>2. Len(ledger) \in Nat /\ line \in 1 .. Len(ledger)
    BY <1>1, <2>1, LenProperties DEF ClosureInv
  <2>3. l \in [directive : Closure!Directive, path : File, reason : BOOLEAN]
    BY <2>1, <2>2, ElementOfSeq
  <2>4. QED  BY <2>2, <2>3
<1> HIDE DEF l
<1>3. NotBegun'
  BY <1>1, <1>2 DEF ClosureInv, NotBegun, Begun
<1>4. DOMAIN dispositions' \subseteq File /\ IsFiniteSet(DOMAIN dispositions')
  <2>1. DOMAIN dispositions \subseteq File /\ IsFiniteSet(DOMAIN dispositions)
    BY DEF ClosureInv
  <2>2. IsFiniteSet(DOMAIN dispositions \cup {l.path})
    BY <2>1, FS_AddElement
  <2>3. QED  BY <1>1, <1>2, <2>1, <2>2
<1>5. QED  BY <1>1, <1>2, <1>3, <1>4 DEF ClosureInv

\* What is refused or cannot be read is left as it is.
LEMMA UnusableKeeps ==
  ASSUME ClosureInv, exit = "running", Closure!Unusable
  PROVE  ClosureInv'
<1>1. /\ exit' = "unusable"
      /\ UNCHANGED <<ledger, sources, line, dispositions, pending, reached, named, violations,
                     missing>>
  BY DEF Closure!Unusable, Closure!input, Closure!walk
<1>2. CASE NotBegun
  BY <1>1, <1>2 DEF ClosureInv, NotBegun
<1>3. CASE Begun
  <2>1. WalkIsOn' /\ FoundOnce'
    BY <1>1, <1>3, WalkStays, FoundStays DEF Begun
  <2>2. Begun'
    BY <1>1, <1>3, <2>1 DEF Begun
  <2>3. QED  BY <1>1, <2>2 DEF ClosureInv
<1>4. QED  BY <1>2, <1>3 DEF ClosureInv

LEMMA BeginKeeps == ClosureInv /\ Closure!Begin => ClosureInv'
<1> SUFFICES ASSUME ClosureInv, Closure!Begin  PROVE ClosureInv'
  OBVIOUS
<1> DEFINE s == Closure!SetToSeq(Closure!Roots)
           edges == {<<f, TRUE>> : f \in Closure!Roots}
<1>1. /\ exit = "running" /\ line = Len(ledger) + 1 /\ line' = line + 1
      /\ pending' = Closure!Edges(s, TRUE)
      /\ UNCHANGED <<ledger, sources, dispositions, reached, named, violations, missing, exit>>
  BY DEF Closure!Begin, Closure!Ready, Closure!input, Closure!Edges
<1>2. NotBegun /\ Len(ledger) \in Nat
  BY <1>1, LinesAre, LenProperties DEF ClosureInv, Begun
<1>3. IsFiniteSet(Closure!Roots) /\ Closure!Roots \subseteq File
  <2>1. Closure!Roots \subseteq DOMAIN dispositions
    BY DEF Closure!Roots, Closure!Disposition
  <2>2. QED  BY <2>1, FS_Subset DEF ClosureInv
<1>4. s \in Seq(File) /\ Closure!ToSet(s) = Closure!Roots
  <2>1. s \in Seq(Closure!Roots) /\ Closure!ToSet(s) = Closure!Roots
    BY <1>3, SomeOrder
  <2> HIDE DEF s
  <2>2. QED  BY <1>3, <2>1, SeqMonotonic
<1> HIDE DEF s
<1>5. pending' \in Seq(File \X BOOLEAN) /\ Closure!ToSet(pending') = edges
  BY <1>1, <1>4, EdgesAre
<1>6. EndsOf(edges) = Closure!Roots /\ EndsOf(Including(edges)) = Closure!Roots
  BY EdgesTogether
<1> HIDE DEF edges
<1>7. WalkIsOn'
  <2>1. Closure!ToSet(pending)' = edges /\ reached' = {} /\ named' = {}
    BY <1>1, <1>2, <1>5 DEF NotBegun, Closure!ToSet
  <2>2. \A A : Closure!Led({}, A) = {}
    BY DEF Closure!Led
  <2>3. \A S : Closure!Closed(S) => Closure!Roots \subseteq S
    BY DEF Closure!Closed
  <2>4. QED  BY <1>1, <1>6, <2>1, <2>2, <2>3, TheyStay DEF WalkIsOn
<1>8. FoundOnce'
  <2>1. /\ violations' = <<>> /\ missing' = <<>> /\ reached' = {} /\ named' = {}
    BY <1>1, <1>2 DEF NotBegun
  <2>2. Closure!ToSet(<<>>) = {} /\ Closure!IsInjective(<<>>)
    BY DEF Closure!ToSet, Closure!IsInjective
  <2>3. Reported' = {} /\ {f \in {} : Closure!Taken(f)'} = {}
    BY <2>1 DEF Reported, Closure!Reports
  <2>4. Closure!ToSet(violations)' = {} /\ Closure!IsInjective(violations)' /\
        Closure!ToSet(missing)' = {} /\ Closure!IsInjective(missing)'
    BY <2>1, <2>2 DEF Closure!ToSet, Closure!IsInjective
  <2>5. QED  BY <1>1, <2>1, <2>3, <2>4 DEF FoundOnce
<1>9. Begun'
  <2>1. line' > Len(ledger') + 1 /\ exit' = "running"
    BY <1>1, <1>2
  <2>2. reached' = {} /\ named' = {}
    BY <1>1, <1>2 DEF NotBegun
  <2>3. QED  BY <1>5, <1>7, <1>8, <2>1, <2>2 DEF Begun
<1>10. QED  BY <1>1, <1>2, <1>9 DEF ClosureInv

LEMMA ReportKeeps == ClosureInv /\ Closure!Report => ClosureInv'
<1> SUFFICES ASSUME ClosureInv, Closure!Report  PROVE ClosureInv'
  OBVIOUS
<1>1. /\ exit = "running" /\ line > Len(ledger) + 1 /\ pending = <<>>
      /\ exit' = IF violations # <<>> \/ missing # <<>> \/ Closure!Unreached # {}
                   THEN "violated" ELSE "passed"
      /\ UNCHANGED <<ledger, sources, line, dispositions, pending, reached, named, violations,
                     missing>>
  BY DEF Closure!Report, Closure!input, Closure!walk
<1>2. Begun
  <2>1. Len(ledger) \in Nat /\ line \in Nat
    BY LinesAre, LenProperties DEF ClosureInv
  <2>2. QED  BY <1>1, <2>1 DEF ClosureInv, NotBegun
<1>3. WalkIsOn' /\ FoundOnce'
  BY <1>1, <1>2, WalkStays, FoundStays DEF Begun
<1>4. Closure!Unreached' = Closure!Unreached
  BY <1>1 DEF Closure!Unreached
<1>5. Begun'
  BY <1>1, <1>2, <1>3, <1>4 DEF Begun
<1>6. QED  BY <1>1, <1>5 DEF ClosureInv

LEMMA ClosureStays == ClosureInv /\ UNCHANGED closureVars => ClosureInv'
<1> SUFFICES ASSUME ClosureInv, UNCHANGED closureVars  PROVE ClosureInv'
  OBVIOUS
<1>1. UNCHANGED <<ledger, sources, line, dispositions, pending, reached, named, violations,
                  missing, exit>>
  BY DEF closureVars
<1>2. NotBegun' = NotBegun
  BY <1>1 DEF NotBegun
<1>3. WalkIsOn' = WalkIsOn /\ FoundOnce' = FoundOnce /\ Closure!Unreached' = Closure!Unreached
  BY <1>1, WalkStays, FoundStays DEF Closure!Unreached
<1>4. Begun' = Begun
  BY <1>1, <1>3 DEF Begun
<1>5. QED  BY <1>1, <1>2, <1>4 DEF ClosureInv

LEMMA ClosureSteps == ClosureInv /\ Closure!Next => ClosureInv'
<1> SUFFICES ASSUME ClosureInv, Closure!Next  PROVE ClosureInv'
  OBVIOUS
<1>1. CASE Closure!Contradict
  BY <1>1, UnusableKeeps DEF Closure!Contradict, Closure!Reading
<1>2. CASE Closure!RefuseLedger
  BY <1>2, UnusableKeeps DEF Closure!RefuseLedger, Closure!Ready
<1>3. CASE Closure!Stumble
  BY <1>3, UnusableKeeps DEF Closure!Stumble, Closure!Walking
<1>4. QED
  BY <1>1, <1>2, <1>3, ClassifyKeeps, BeginKeeps, SkipKeeps, VisitKeeps, ReportKeeps
     DEF Closure!Next

\* What Report finds is what the property says of the ledger and the tree.
LEMMA TheVerdictIsTrue == ClosureInv => Closure!VerdictIsOfTheTree
<1> SUFFICES ASSUME ClosureInv, exit \in {"passed", "violated"}
             PROVE  Closure!VerdictIsOfTheTree
  BY DEF Closure!VerdictIsOfTheTree
<1>1. Begun /\ WalkIsOn /\ FoundOnce
  BY DEF ClosureInv, NotBegun, Begun
<1>2. /\ pending = <<>> /\ reached \subseteq File /\ named \subseteq reached
      /\ exit = "passed" <=> violations = <<>> /\ missing = <<>> /\ Closure!Unreached = {}
  BY <1>1 DEF Begun
<1>3. EndsOf(Closure!ToSet(pending)) = {} /\ EndsOf(Including(Closure!ToSet(pending))) = {}
  <2>1. Closure!ToSet(<<>>) = {}
    BY DEF Closure!ToSet
  <2>2. QED  BY <1>2, <2>1, EdgesTogether
<1>4. /\ \A S : Closure!Closed(S) => reached \subseteq S
      /\ Closure!Roots \cup Closure!Led(reached, sources.includes) = named
      /\ Closure!Led(reached, sources.units) \subseteq reached
  BY <1>1, <1>3 DEF WalkIsOn
<1>5. Closure!Closed(reached)
  BY <1>2, <1>4 DEF Closure!Closed
<1>6. violations = <<>> <=> Reported = {}
  BY <1>1, SetOf DEF FoundOnce
<1>7. missing = <<>> <=> {f \in reached : Closure!Taken(f)} \subseteq sources.present
  <2>1. missing = <<>> <=> {f \in reached : Closure!Taken(f)} \ sources.present = {}
    BY <1>1, SetOf DEF FoundOnce
  <2>2. QED  BY <2>1
<1>8. Reported = {} <=> /\ \A f \in reached : ~Closure!Barred(f) /\ ~Closure!Unclassified(f)
                        /\ \A f \in named : ~Closure!Declined(f)
  BY DEF Reported, Closure!Reports
<1>9. Closure!Unreached = {} <=>
        {f \in File : Closure!Disposition(f) = "vendor"} \subseteq reached
  <2>1. Closure!Unreached = {f \in File : Closure!Disposition(f) = "vendor"} \ reached
    BY DEF Closure!Unreached, Closure!Disposition, ClosureInv
  <2>2. QED  BY <2>1
<1> DEFINE Fits == /\ reached \subseteq {f \in File : Closure!Taken(f)}
                                          \cup {f \in File : Closure!Declined(f)}
                                          \cup (Closure!Says("generated_header") \ sources.present)
                   /\ {f \in File : Closure!Disposition(f) = "vendor"}
                        \subseteq reached \cap sources.present
                   /\ ~ \E f \in named : Closure!Declined(f)
                   /\ ~ \E f \in reached : Closure!Barred(f)
<1>10. ASSUME exit = "passed"  PROVE Fits
  <2>1. ASSUME NEW f \in reached
        PROVE  Closure!Taken(f) \/ Closure!Declined(f) \/
               f \in Closure!Says("generated_header") \ sources.present
    BY <1>2, <1>6, <1>8, <1>10 DEF Closure!Taken, Closure!Declined, Closure!Unclassified,
       Closure!Undecided
  <2>2. ASSUME NEW f \in File, Closure!Disposition(f) = "vendor"
        PROVE  f \in reached \cap sources.present
    BY <1>2, <1>6, <1>7, <1>8, <1>9, <1>10, <2>2 DEF Closure!Taken
  <2>3. QED  BY <1>2, <1>6, <1>8, <1>10, <2>1, <2>2
<1>11. ASSUME Fits  PROVE exit = "passed"
  <2>1. \A f \in reached : ~Closure!Unclassified(f)
    BY <1>11 DEF Closure!Taken, Closure!Declined, Closure!Unclassified, Closure!Undecided
  <2>2. Reported = {}
    BY <1>8, <1>11, <2>1
  <2>3. {f \in reached : Closure!Taken(f)} \subseteq sources.present
    BY <1>2, <1>11 DEF Closure!Taken
  <2>4. QED  BY <1>2, <1>6, <1>7, <1>9, <1>11, <2>2, <2>3
<1>12. exit = "passed" <=> Fits
  BY <1>10, <1>11
<1>13. \A S \in SUBSET reached : Closure!Closed(S) => S = reached
  BY <1>4
<1> HIDE DEF Fits
<1>14. QED
  BY <1>1, <1>4, <1>5, <1>12, <1>13 DEF Fits, FoundOnce, Reported, Closure!VerdictIsOfTheTree

\* Whatever is at work, the walk's variables are as they were or take a step of the walk's.
LEMMA ClosureMoves ==
  [MCNext]_<<atWork, vars, modelVars, trackVars, startupVars, closureVars>> =>
    UNCHANGED atWork /\ (atWork = "closure" => [Closure!Next]_closureVars)
BY DEF MCNext

\* Whatever the ledger says and however the files of the tree include and implement one
\* another, and in whatever order the stack meets them, the closure that is reported is
\* that of ledger and tree, each contradiction in it is reported, once, and it passes
\* exactly without any (compute_closure and the end of main), for any set of files.
THEOREM ClosureIsOfTheTree == MCSpec => [](atWork = "closure" => Closure!VerdictIsOfTheTree)
<1> DEFINE I == atWork = "closure" => ClosureInv
<1>1. MCInit => I
  BY ClosureStarts DEF MCInit
<1>2. I /\ [MCNext]_<<atWork, vars, modelVars, trackVars, startupVars, closureVars>> => I'
  BY ClosureMoves, ClosureSteps, ClosureStays
<1>3. I => (atWork = "closure" => Closure!VerdictIsOfTheTree)
  BY TheVerdictIsTrue
<1>4. QED  BY <1>1, <1>2, <1>3, PTL DEF MCSpec

(***************************************************************************)
(* StartupAssembly.                                                        *)
(***************************************************************************)
Coordinates == {"free body", "revolute", "ball"}

\* b has the sums of wide, from the left.
Sums(b, wide, n) == b = [k \in 1 .. n + 1 |-> IF k = 1 THEN 0 ELSE b[k - 1] + wide[k - 1]]

LEMMA SumsExist ==
  ASSUME NEW n \in Nat, NEW wide \in [1 .. n -> Nat]
  PROVE  \E b \in [1 .. n + 1 -> Nat] : Sums(b, wide, n)
<1> DEFINE Upto(b, m) == /\ b \in [1 .. m + 1 -> Nat]
                         /\ \A k \in 1 .. m + 1 : b[k] = IF k = 1 THEN 0 ELSE b[k - 1] + wide[k - 1]
           T == {m \in Nat : m <= n => \E b : Upto(b, m)}
<1>1. 0 \in T
  <2> DEFINE b == [k \in 1 .. 1 |-> 0]
  <2>1. Upto(b, 0)
    OBVIOUS
  <2>2. QED  BY <2>1
<1>2. ASSUME NEW m \in Nat, m \in T  PROVE m + 1 \in T
  <2> SUFFICES ASSUME m + 1 <= n  PROVE \E b : Upto(b, m + 1)
    OBVIOUS
  <2>1. \E b : Upto(b, m)
    <3>1. m <= n
      OBVIOUS
    <3> HIDE DEF Upto
    <3>2. QED  BY <1>2, <3>1
  <2>2. PICK b : Upto(b, m)
    BY <2>1
  <2> DEFINE c == [k \in 1 .. (m + 1) + 1 |-> IF k <= m + 1 THEN b[k] ELSE b[m + 1] + wide[m + 1]]
  <2>3. wide[m + 1] \in Nat /\ b[m + 1] \in Nat
    BY <2>2
  <2>4. \A k \in 1 .. m + 1 : k \in 1 .. (m + 1) + 1 /\ c[k] = b[k] /\ b[k] \in Nat
    BY <2>2
  <2>5. c[(m + 1) + 1] = b[m + 1] + wide[m + 1]
    OBVIOUS
  <2>6. c \in [1 .. (m + 1) + 1 -> Nat]
    BY <2>2, <2>3
  <2> HIDE DEF c
  <2>7. ASSUME NEW k \in 1 .. (m + 1) + 1
        PROVE  c[k] = IF k = 1 THEN 0 ELSE c[k - 1] + wide[k - 1]
    <3>1. CASE k <= m + 1
      <4>1. c[k] = b[k] /\ (k # 1 => c[k - 1] = b[k - 1])
        BY <3>1, <2>4
      <4>2. QED  BY <3>1, <4>1, <2>2
    <3>2. CASE ~ (k <= m + 1)
      <4>1. k = (m + 1) + 1 /\ k - 1 = m + 1
        BY <3>2
      <4>2. QED  BY <4>1, <2>4, <2>5
    <3>3. QED  BY <3>1, <3>2
  <2>8. QED  BY <2>6, <2>7
<1>3. n \in T
  <2> HIDE DEF T
  <2>1. QED  BY <1>1, <1>2, Induction
<1> HIDE DEF Upto
<1>4. PICK b : Upto(b, n)
  BY <1>3
<1>5. b = [k \in 1 .. n + 1 |-> IF k = 1 THEN 0 ELSE b[k - 1] + wide[k - 1]]
  BY <1>4 DEF Upto
<1>6. QED  BY <1>4, <1>5 DEF Sums, Upto

\* A sum of wide is a number.
LEMMA SumsAreNumbers ==
  ASSUME NEW n \in Nat, NEW wide \in [1 .. n -> Nat], NEW b, Sums(b, wide, n)
  PROVE  /\ b \in [1 .. n + 1 -> Nat] /\ b[1] = 0
         /\ \A k \in 1 .. n : b[k + 1] = b[k] + wide[k]
<1>1. /\ b = [k \in 1 .. n + 1 |-> IF k = 1 THEN 0 ELSE b[k - 1] + wide[k - 1]]
      /\ 1 \in 1 .. n + 1
  BY DEF Sums
<1>2. b[1] = 0
  BY <1>1
<1>3. ASSUME NEW k \in 1 .. n  PROVE b[k + 1] = b[k] + wide[k]
  <2>1. k + 1 \in 1 .. n + 1 /\ k + 1 # 1 /\ (k + 1) - 1 = k
    OBVIOUS
  <2>2. QED  BY <1>1, <2>1
<1> DEFINE T == {m \in Nat : m <= n => b[m + 1] \in Nat}
<1>4. 0 \in T
  BY <1>2
<1>5. ASSUME NEW m \in Nat, m \in T  PROVE m + 1 \in T
  <2> SUFFICES ASSUME m + 1 <= n  PROVE b[(m + 1) + 1] \in Nat
    OBVIOUS
  <2>1. m + 1 \in 1 .. n /\ b[m + 1] \in Nat /\ wide[m + 1] \in Nat
    BY <1>5
  <2>2. QED  BY <1>3, <2>1
<1>6. \A m \in Nat : m \in T
  <2> HIDE DEF T
  <2>1. QED  BY <1>4, <1>5, Induction
<1>7. ASSUME NEW k \in 1 .. n + 1  PROVE b[k] \in Nat
  <2>1. k - 1 \in Nat /\ k - 1 <= n /\ (k - 1) + 1 = k
    OBVIOUS
  <2>2. QED  BY <1>6, <2>1
<1>8. QED  BY <1>1, <1>2, <1>3, <1>7

\* The sums part the numbers up to the last one.
LEMMA SumsPart ==
  ASSUME NEW n \in Nat, NEW wide \in [1 .. n -> Nat], NEW b, Sums(b, wide, n)
  PROVE  /\ \A i \in 1 .. n : \A j \in 1 .. n + 1 : i < j => b[i] + wide[i] <= b[j]
         /\ \A x \in 1 .. b[n + 1] : \E i \in 1 .. n : x \in b[i] + 1 .. b[i] + wide[i]
<1>1. /\ b \in [1 .. n + 1 -> Nat] /\ b[1] = 0
      /\ \A k \in 1 .. n : b[k + 1] = b[k] + wide[k]
  BY SumsAreNumbers
<1>2. ASSUME NEW i \in 1 .. n
      PROVE  \A j \in 1 .. n + 1 : i < j => b[i] + wide[i] <= b[j]
  <2> DEFINE T == {m \in Nat : i + 1 + m <= n + 1 => b[i] + wide[i] <= b[i + 1 + m]}
  <2>1. 0 \in T
    BY <1>1
  <2>2. ASSUME NEW m \in Nat, m \in T  PROVE m + 1 \in T
    <3> SUFFICES ASSUME i + 1 + (m + 1) <= n + 1  PROVE b[i] + wide[i] <= b[i + 1 + (m + 1)]
      OBVIOUS
    <3>1. i + 1 + m \in 1 .. n /\ i + 1 + (m + 1) = (i + 1 + m) + 1
      OBVIOUS
    <3>2. b[i + 1 + (m + 1)] = b[i + 1 + m] + wide[i + 1 + m]
      BY <1>1, <3>1
    <3>3. b[i + 1 + m] \in Nat /\ wide[i + 1 + m] \in Nat /\ b[i] \in Nat /\ wide[i] \in Nat
      BY <1>1, <3>1
    <3>4. b[i] + wide[i] <= b[i + 1 + m]
      BY <2>2
    <3>5. QED  BY <3>2, <3>3, <3>4
  <2>3. \A m \in Nat : m \in T
    <3> HIDE DEF T
    <3>1. QED  BY <2>1, <2>2, Induction
  <2>4. ASSUME NEW j \in 1 .. n + 1, i < j  PROVE b[i] + wide[i] <= b[j]
    <3>1. j - (i + 1) \in Nat /\ i + 1 + (j - (i + 1)) = j /\ j <= n + 1
      BY <2>4
    <3>2. QED  BY <2>3, <3>1
  <2>5. QED  BY <2>4
<1>3. ASSUME NEW x \in 1 .. b[n + 1]
      PROVE  \E i \in 1 .. n : x \in b[i] + 1 .. b[i] + wide[i]
  <2> DEFINE T == {m \in Nat : m <= n /\ x <= b[m + 1]}
  <2>1. n \in T
    BY <1>1
  <2>2. PICK m \in T : \A k \in T : m <= k
    <3>1. T \subseteq Nat /\ T # {}
      BY <2>1
    <3> HIDE DEF T
    <3>2. QED  BY <3>1, Least
  <2>3. m # 0
    BY <1>1
  <2>4. m \in 1 .. n /\ m - 1 \in Nat /\ (m - 1) + 1 = m /\ m - 1 <= n /\ ~ (m <= m - 1)
    BY <2>3
  <2>5. ~ (x <= b[m])
    BY <2>2, <2>4
  <2>6. b[m + 1] = b[m] + wide[m] /\ b[m] \in Nat /\ wide[m] \in Nat /\ x <= b[m + 1]
    BY <1>1, <2>4
  <2>7. x \in b[m] + 1 .. b[m] + wide[m]
    BY <2>5, <2>6
  <2>8. QED  BY <2>4, <2>7
<1>4. QED  BY <1>2, <1>3

Sizes == {Startup!Positions, Startup!Velocities}

\* What the elements in front of each have, in an order of elements.
Widths(order, sizes) == [j \in 1 .. Len(order) |-> sizes[order[j][1]]]

LEMMA SizesAre ==
  ASSUME NEW sizes \in Sizes
  PROVE  sizes \in [Coordinates -> Nat \ {0}]
<1>1. Startup!Coordinates = Coordinates
  BY DEF Startup!Coordinates, Coordinates
<1>2. Startup!Positions \in [Coordinates -> Nat \ {0}]
  BY <1>1 DEF Startup!Positions
<1>3. Startup!Velocities \in [Coordinates -> Nat \ {0}]
  BY <1>1 DEF Startup!Velocities
<1>4. QED  BY <1>2, <1>3 DEF Sizes

LEMMA BeforeIsTheSum ==
  ASSUME NEW sizes \in Sizes, arrangement \in Seq(Coordinates \X STRING)
  PROVE  \E b : /\ Sums(b, Widths(arrangement, sizes), Len(arrangement))
                /\ \A i : Startup!Before(sizes, i) = b[i]
<1> DEFINE wide == Widths(arrangement, sizes)
           n == Len(arrangement)
           Runs(b) == b = [k \in 1 .. n + 1 |-> IF k = 1 THEN 0
                                               ELSE b[k - 1] + sizes[arrangement[k - 1][1]]]
<1>1. n \in Nat /\ \A j \in 1 .. n : arrangement[j] \in Coordinates \X STRING
  BY LenProperties, ElementOfSeq
<1>2. wide \in [1 .. n -> Nat] /\ \A j \in 1 .. n : wide[j] = sizes[arrangement[j][1]]
  <2>1. \A j \in 1 .. n : sizes[arrangement[j][1]] \in Nat
    BY <1>1, SizesAre
  <2>2. QED  BY <2>1 DEF Widths
<1>3. \A b : Sums(b, wide, n) => Runs(b)
  <2> SUFFICES ASSUME NEW b, Sums(b, wide, n)  PROVE Runs(b)
    OBVIOUS
  <2> HIDE DEF wide
  <2>1. \A k \in 1 .. n + 1 : k # 1 => k - 1 \in 1 .. n
    BY <1>1
  <2>2. \A k \in 1 .. n + 1 : k # 1 => wide[k - 1] = sizes[arrangement[k - 1][1]]
    BY <1>2, <2>1
  <2>3. b = [k \in 1 .. n + 1 |-> IF k = 1 THEN 0 ELSE b[k - 1] + wide[k - 1]]
    BY DEF Sums
  <2>4. QED  BY <2>2, <2>3
<1>4. \A b : Runs(b) => Sums(b, wide, n)
  <2> SUFFICES ASSUME NEW b, Runs(b)  PROVE Sums(b, wide, n)
    OBVIOUS
  <2> HIDE DEF wide
  <2>1. \A k \in 1 .. n + 1 : k # 1 => k - 1 \in 1 .. n
    BY <1>1
  <2>2. \A k \in 1 .. n + 1 : k # 1 => wide[k - 1] = sizes[arrangement[k - 1][1]]
    BY <1>2, <2>1
  <2>3. QED  BY <2>2 DEF Sums
<1>5. \E b : Runs(b)
  <2> HIDE DEF wide, n, Runs
  <2>1. QED  BY <1>1, <1>2, <1>3, SumsExist
<1> DEFINE b == CHOOSE c : Runs(c)
<1>6. \A i : Startup!Before(sizes, i) = b[i]
  BY DEF Startup!Before
<1>7. Sums(b, wide, n)
  <2> HIDE DEF wide, n, Runs
  <2>1. QED  BY <1>4, <1>5
<1> HIDE DEF b
<1>8. QED  BY <1>6, <1>7

\* The coordinates are laid out in an order of the vehicle's elements.
Laid ==
  /\ arrangement \in Seq(Coordinates \X STRING)
  /\ Startup!IsInjective(arrangement) /\ Startup!ToSet(arrangement) = Startup!Elements

\* The record states each element of the vehicle once.
Named ==
  \A f \in Startup!Families :
    /\ record[f] \in Seq(Startup!Entry)
    /\ Startup!IsInjective(Startup!Stated(f))
    /\ Startup!ToSet(Startup!Stated(f)) = Startup!Expected(f)

LEMMA NamesAre ==
  ASSUME Named, NEW f \in Startup!Families
  PROVE  /\ Len(record[f]) \in Nat /\ DOMAIN record[f] = 1 .. Len(record[f])
         /\ \A k \in DOMAIN record[f] : record[f][k] \in Startup!Entry
         /\ Startup!Stated(f) = [k \in DOMAIN record[f] |-> record[f][k].name]
         /\ \A k \in DOMAIN record[f] : record[f][k].name \in Startup!Expected(f)
         /\ \A n \in Startup!Expected(f) : \E k \in DOMAIN record[f] : record[f][k].name = n
         /\ \A k, l \in DOMAIN record[f] : record[f][k].name = record[f][l].name => k = l
<1>1. record[f] \in Seq(Startup!Entry)
  BY DEF Named
<1>2. /\ Len(record[f]) \in Nat /\ DOMAIN record[f] = 1 .. Len(record[f])
      /\ \A k \in DOMAIN record[f] : record[f][k] \in Startup!Entry
  BY <1>1, LenProperties, ElementOfSeq
<1>3. Startup!Stated(f) = [k \in DOMAIN record[f] |-> record[f][k].name]
  BY DEF Startup!Stated, Startup!NamesOf
<1>4. Startup!Expected(f) = {record[f][k].name : k \in DOMAIN record[f]}
  BY <1>3 DEF Named, Startup!ToSet
<1>5. \A k, l \in DOMAIN record[f] : record[f][k].name = record[f][l].name => k = l
  BY <1>3 DEF Named, Startup!IsInjective
<1>6. QED  BY <1>2, <1>3, <1>4, <1>5

LEMMA CoordinatesAre ==
  /\ Startup!Coordinates = Coordinates /\ Coordinates \subseteq Startup!Families
  /\ \A f : \A n : <<f, n>> \in Startup!Elements <=> f \in Coordinates /\ n \in Startup!Expected(f)
<1>1. Startup!Coordinates = Coordinates /\ Coordinates \subseteq Startup!Families
  BY DEF Startup!Coordinates, Coordinates, Startup!Families
<1>2. ASSUME NEW f, NEW n
      PROVE  <<f, n>> \in Startup!Elements <=> f \in Coordinates /\ n \in Startup!Expected(f)
  <2>1. Startup!Elements = UNION {{<<g, m>> : m \in Startup!Expected(g)} : g \in Coordinates}
    BY <1>1 DEF Startup!Elements
  <2>2. ASSUME <<f, n>> \in Startup!Elements
        PROVE  f \in Coordinates /\ n \in Startup!Expected(f)
    <3>1. PICK g \in Coordinates : <<f, n>> \in {<<g, m>> : m \in Startup!Expected(g)}
      BY <2>1, <2>2
    <3>2. PICK m \in Startup!Expected(g) : <<f, n>> = <<g, m>>
      BY <3>1
    <3>3. QED  BY <3>2
  <2>3. ASSUME f \in Coordinates, n \in Startup!Expected(f)
        PROVE  <<f, n>> \in Startup!Elements
    <3>1. <<f, n>> \in {<<f, m>> : m \in Startup!Expected(f)}
      BY <2>3
    <3>2. QED  BY <2>1, <2>3, <3>1
  <2>4. QED  BY <2>2, <2>3
<1>3. QED  BY <1>1, <1>2

\* Every element has its place.
LEMMA PlacesAre ==
  ASSUME Laid
  PROVE  /\ Len(arrangement) \in Nat
         /\ \A f \in Coordinates : \A n \in Startup!Expected(f) :
              /\ Startup!Index(f, n) \in 1 .. Len(arrangement)
              /\ arrangement[Startup!Index(f, n)] = <<f, n>>
         /\ \A j \in 1 .. Len(arrangement) :
              \E f \in Coordinates : \E n \in Startup!Expected(f) :
                arrangement[j] = <<f, n>> /\ j = Startup!Index(f, n)
<1>1. /\ Len(arrangement) \in Nat /\ DOMAIN arrangement = 1 .. Len(arrangement)
      /\ \A j \in 1 .. Len(arrangement) : arrangement[j] \in Coordinates \X STRING
  BY LenProperties, ElementOfSeq DEF Laid
<1>2. Startup!Elements = {arrangement[j] : j \in DOMAIN arrangement}
  BY DEF Laid, Startup!ToSet
<1>3. \A j, l \in DOMAIN arrangement : arrangement[j] = arrangement[l] => j = l
  BY DEF Laid, Startup!IsInjective
<1>4. ASSUME NEW f \in Coordinates, NEW n \in Startup!Expected(f)
      PROVE  /\ Startup!Index(f, n) \in 1 .. Len(arrangement)
             /\ arrangement[Startup!Index(f, n)] = <<f, n>>
  <2>1. <<f, n>> \in Startup!Elements
    BY CoordinatesAre
  <2>2. \E j \in DOMAIN arrangement : arrangement[j] = <<f, n>>
    BY <1>2, <2>1
  <2>3. QED  BY <1>1, <2>2 DEF Startup!Index
<1>5. ASSUME NEW j \in 1 .. Len(arrangement)
      PROVE  \E f \in Coordinates : \E n \in Startup!Expected(f) :
                arrangement[j] = <<f, n>> /\ j = Startup!Index(f, n)
  <2>1. PICK f \in Coordinates, n \in STRING : arrangement[j] = <<f, n>>
    <3>1. arrangement[j] \in Coordinates \X STRING
      BY <1>1
    <3>2. /\ arrangement[j] = <<arrangement[j][1], arrangement[j][2]>>
          /\ arrangement[j][1] \in Coordinates /\ arrangement[j][2] \in STRING
      BY <3>1
    <3>3. QED  BY <3>2
  <2>2. <<f, n>> \in Startup!Elements
    BY <1>1, <1>2, <2>1
  <2>3. n \in Startup!Expected(f)
    BY <2>2, CoordinatesAre
  <2>4. j = Startup!Index(f, n)
    BY <1>1, <1>3, <1>4, <2>1, <2>3
  <2>5. QED  BY <2>1, <2>3, <2>4
<1>6. QED  BY <1>1, <1>4, <1>5

\* The slots of the elements part those there are.
LEMMA SlotsPart ==
  ASSUME Laid, NEW sizes \in Sizes
  PROVE  /\ Startup!Total(sizes) \in Nat
         /\ \A f \in Coordinates : \A n \in Startup!Expected(f) :
              LET before == Startup!Before(sizes, Startup!Index(f, n))
              IN  /\ before \in Nat
                  /\ Startup!Slots(sizes, f, n) = before + 1 .. before + sizes[f]
                  /\ before + sizes[f] <= Startup!Total(sizes)
         /\ \A i \in 1 .. Startup!Total(sizes) :
              \E f \in Coordinates : \E n \in Startup!Expected(f) : i \in Startup!Slots(sizes, f, n)
         /\ \A f, g \in Coordinates :
              \A n \in Startup!Expected(f) : \A m \in Startup!Expected(g) :
                Startup!Slots(sizes, f, n) \cap Startup!Slots(sizes, g, m) # {} => f = g /\ n = m
<1> DEFINE wide == Widths(arrangement, sizes)
           last == Len(arrangement)
<1>1. PICK b : Sums(b, wide, last) /\ \A i : Startup!Before(sizes, i) = b[i]
  BY BeforeIsTheSum DEF Laid
<1>2. last \in Nat /\ sizes \in [Coordinates -> Nat \ {0}]
  BY PlacesAre, SizesAre
<1>3. wide \in [1 .. last -> Nat] /\ \A j \in 1 .. last : wide[j] = sizes[arrangement[j][1]]
  <2>1. ASSUME NEW j \in 1 .. last  PROVE sizes[arrangement[j][1]] \in Nat
    <3>1. PICK f \in Coordinates : \E n : arrangement[j] = <<f, n>>
      BY PlacesAre
    <3>2. arrangement[j][1] = f
      BY <3>1
    <3>3. QED  BY <3>2, <1>2
  <2>2. QED  BY <2>1 DEF Widths
<1> HIDE DEF wide, last
<1>4. /\ b \in [1 .. last + 1 -> Nat]
      /\ \A i \in 1 .. last : \A j \in 1 .. last + 1 : i < j => b[i] + wide[i] <= b[j]
      /\ \A x \in 1 .. b[last + 1] : \E i \in 1 .. last : x \in b[i] + 1 .. b[i] + wide[i]
  BY <1>1, <1>2, <1>3, SumsAreNumbers, SumsPart
<1>5. Startup!Total(sizes) = b[last + 1] /\ b[last + 1] \in Nat
  BY <1>1, <1>2, <1>4 DEF Startup!Total, last
<1>6. ASSUME NEW f \in Coordinates, NEW n \in Startup!Expected(f)
      PROVE  /\ Startup!Index(f, n) \in 1 .. last
             /\ Startup!Before(sizes, Startup!Index(f, n)) = b[Startup!Index(f, n)]
             /\ b[Startup!Index(f, n)] \in Nat /\ wide[Startup!Index(f, n)] = sizes[f]
             /\ Startup!Slots(sizes, f, n)
                  = b[Startup!Index(f, n)] + 1 .. b[Startup!Index(f, n)] + sizes[f]
             /\ b[Startup!Index(f, n)] + sizes[f] <= b[last + 1]
  <2>1. Startup!Index(f, n) \in 1 .. last /\ arrangement[Startup!Index(f, n)] = <<f, n>>
    BY PlacesAre DEF last
  <2>2. wide[Startup!Index(f, n)] = sizes[f] /\ b[Startup!Index(f, n)] \in Nat
    <3>1. wide[Startup!Index(f, n)] = sizes[arrangement[Startup!Index(f, n)][1]]
      BY <1>3, <2>1
    <3>2. arrangement[Startup!Index(f, n)][1] = f
      BY <2>1
    <3>3. Startup!Index(f, n) \in 1 .. last + 1
      BY <1>2, <2>1
    <3>4. QED  BY <1>4, <3>1, <3>2, <3>3
  <2>3. b[Startup!Index(f, n)] + sizes[f] <= b[last + 1]
    BY <1>2, <1>4, <2>1, <2>2
  <2>4. QED  BY <1>1, <2>1, <2>2, <2>3 DEF Startup!Slots
<1>7. ASSUME NEW i \in 1 .. Startup!Total(sizes)
      PROVE  \E f \in Coordinates : \E n \in Startup!Expected(f) : i \in Startup!Slots(sizes, f, n)
  <2>1. PICK j \in 1 .. last : i \in b[j] + 1 .. b[j] + wide[j]
    BY <1>4, <1>5
  <2>2. PICK f \in Coordinates : \E n \in Startup!Expected(f) :
          arrangement[j] = <<f, n>> /\ j = Startup!Index(f, n)
    BY PlacesAre DEF last
  <2>3. PICK n \in Startup!Expected(f) : arrangement[j] = <<f, n>> /\ j = Startup!Index(f, n)
    BY <2>2
  <2>4. i \in Startup!Slots(sizes, f, n)
    BY <1>6, <2>1, <2>3
  <2>5. QED  BY <2>4
<1>8. ASSUME NEW f \in Coordinates, NEW g \in Coordinates,
             NEW n \in Startup!Expected(f), NEW m \in Startup!Expected(g),
             NEW i \in Startup!Slots(sizes, f, n), i \in Startup!Slots(sizes, g, m)
      PROVE  f = g /\ n = m
  <2> DEFINE j == Startup!Index(f, n)
             l == Startup!Index(g, m)
  <2>1. /\ j \in 1 .. last /\ l \in 1 .. last /\ b[j] \in Nat /\ b[l] \in Nat
        /\ wide[j] \in Nat /\ wide[l] \in Nat
        /\ i \in b[j] + 1 .. b[j] + wide[j] /\ i \in b[l] + 1 .. b[l] + wide[l]
    BY <1>3, <1>6, <1>8
  <2>2. arrangement[j] = <<f, n>> /\ arrangement[l] = <<g, m>>
    BY PlacesAre
  <2> HIDE DEF j, l
  <2>3. ~ (j < l)
    <3>1. j < l => b[j] + wide[j] <= b[l]
      BY <1>2, <1>4, <2>1
    <3>2. QED  BY <2>1, <3>1
  <2>4. ~ (l < j)
    <3>1. l < j => b[l] + wide[l] <= b[j]
      BY <1>2, <1>4, <2>1
    <3>2. QED  BY <2>1, <3>1
  <2>5. j = l
    BY <1>2, <2>1, <2>3, <2>4
  <2>6. QED  BY <2>2, <2>5
<1>9. QED  BY <1>5, <1>6, <1>7, <1>8

ClaimedBy(sizes, i, f) == \E k \in DOMAIN record[f] : i \in Startup!Slots(sizes, f, record[f][k].name)

\* Whose slot the i-th is.
FamilyAt(sizes, i) == CHOOSE f \in Startup!Coordinates : ClaimedBy(sizes, i, f)
EntryAt(sizes, i, f) ==
  record[f][CHOOSE k \in DOMAIN record[f] : i \in Startup!Slots(sizes, f, record[f][k].name)]

\* Each slot is claimed by one statement,
LEMMA SlotsAreClaimed ==
  ASSUME Laid, Named, NEW sizes \in Sizes, NEW i \in 1 .. Startup!Total(sizes)
  PROVE  /\ \E f \in Coordinates : ClaimedBy(sizes, i, f)
         /\ \A f, g \in Coordinates : \A k \in DOMAIN record[f] : \A l \in DOMAIN record[g] :
              /\ i \in Startup!Slots(sizes, f, record[f][k].name)
              /\ i \in Startup!Slots(sizes, g, record[g][l].name)
              => f = g /\ k = l
<1>1. Coordinates \subseteq Startup!Families
  BY CoordinatesAre
<1>2. PICK f \in Coordinates : \E n \in Startup!Expected(f) : i \in Startup!Slots(sizes, f, n)
  BY SlotsPart
<1>3. ClaimedBy(sizes, i, f)
  <2>1. PICK n \in Startup!Expected(f) : i \in Startup!Slots(sizes, f, n)
    BY <1>2
  <2>2. PICK k \in DOMAIN record[f] : record[f][k].name = n
    BY <1>1, NamesAre
  <2>3. QED  BY <2>1, <2>2 DEF ClaimedBy
<1>4. ASSUME NEW g \in Coordinates, NEW h \in Coordinates,
             NEW k \in DOMAIN record[g], NEW l \in DOMAIN record[h],
             i \in Startup!Slots(sizes, g, record[g][k].name),
             i \in Startup!Slots(sizes, h, record[h][l].name)
      PROVE  g = h /\ k = l
  <2>1. record[g][k].name \in Startup!Expected(g) /\ record[h][l].name \in Startup!Expected(h)
    BY <1>1, NamesAre
  <2>2. g = h /\ record[g][k].name = record[h][l].name
    BY <1>4, <2>1, SlotsPart
  <2>3. QED  BY <1>1, <2>2, NamesAre
<1>5. QED  BY <1>3, <1>4

\* which is found.
LEMMA SlotsAreFound ==
  ASSUME Laid, Named, NEW sizes \in Sizes, NEW f \in Coordinates, NEW k \in DOMAIN record[f],
         NEW i \in Startup!Slots(sizes, f, record[f][k].name)
  PROVE  /\ i \in 1 .. Startup!Total(sizes)
         /\ FamilyAt(sizes, i) = f /\ EntryAt(sizes, i, f) = record[f][k]
<1>1. record[f][k].name \in Startup!Expected(f) /\ Startup!Coordinates = Coordinates
  BY CoordinatesAre, NamesAre
<1>2. i \in 1 .. Startup!Total(sizes)
  <2>1. PICK b \in Nat : /\ Startup!Slots(sizes, f, record[f][k].name) = b + 1 .. b + sizes[f]
                         /\ b + sizes[f] <= Startup!Total(sizes)
    BY <1>1, SlotsPart
  <2>2. sizes[f] \in Nat /\ Startup!Total(sizes) \in Nat
    BY SizesAre, SlotsPart
  <2>3. QED  BY <2>1, <2>2
<1>3. ClaimedBy(sizes, i, f)
  BY DEF ClaimedBy
<1>4. \A g \in Coordinates : ClaimedBy(sizes, i, g) => g = f
  BY <1>2, SlotsAreClaimed DEF ClaimedBy
<1>5. FamilyAt(sizes, i) = f
  BY <1>1, <1>3, <1>4 DEF FamilyAt
<1>6. \A l \in DOMAIN record[f] : i \in Startup!Slots(sizes, f, record[f][l].name) => l = k
  BY <1>2, SlotsAreClaimed
<1>7. EntryAt(sizes, i, f) = record[f][k]
  BY <1>6 DEF EntryAt
<1>8. QED  BY <1>2, <1>5, <1>7

\* The j-th slot of an element is where its statement goes.
LEMMA PlaceIs ==
  ASSUME Laid, Named, NEW sizes \in Sizes, NEW f \in Coordinates, NEW k \in DOMAIN record[f],
         NEW j \in 1 .. sizes[f]
  PROVE  LET before == Startup!Before(sizes, Startup!Index(f, record[f][k].name))
             i == before + j
         IN  /\ i \in 1 .. Startup!Total(sizes) /\ i - before = j
             /\ FamilyAt(sizes, i) = f /\ EntryAt(sizes, i, f) = record[f][k]
<1> DEFINE before == Startup!Before(sizes, Startup!Index(f, record[f][k].name))
           i == before + j
<1>1. record[f][k].name \in Startup!Expected(f)
  BY CoordinatesAre, NamesAre
<1>2. before \in Nat /\ Startup!Slots(sizes, f, record[f][k].name) = before + 1 .. before + sizes[f]
  BY <1>1, SlotsPart
<1>3. sizes[f] \in Nat
  BY SizesAre
<1>4. i \in Startup!Slots(sizes, f, record[f][k].name) /\ i - before = j
  <2> HIDE DEF before
  <2>1. QED  BY <1>2, <1>3
<1> HIDE DEF i
<1>5. /\ i \in 1 .. Startup!Total(sizes)
      /\ FamilyAt(sizes, i) = f /\ EntryAt(sizes, i, f) = record[f][k]
  BY <1>4, SlotsAreFound
<1>6. QED  BY <1>4, <1>5 DEF i

LEMMA FilledAre ==
  /\ Startup!Filled(Startup!Positions, Startup!Position) =
       [i \in 1 .. Startup!Total(Startup!Positions) |->
          LET f == FamilyAt(Startup!Positions, i)
              e == EntryAt(Startup!Positions, i, f)
          IN  Startup!Position(f, e,
                i - Startup!Before(Startup!Positions, Startup!Index(f, e.name)))]
  /\ Startup!Filled(Startup!Velocities, Startup!Velocity) =
       [i \in 1 .. Startup!Total(Startup!Velocities) |->
          LET f == FamilyAt(Startup!Velocities, i)
              e == EntryAt(Startup!Velocities, i, f)
          IN  Startup!Velocity(f, e,
                i - Startup!Before(Startup!Velocities, Startup!Index(f, e.name)))]
BY Zenon DEF Startup!Filled, FamilyAt, EntryAt, ClaimedBy

\* The contents of the two parts of the context that are laid out.
LEMMA PartsAre ==
  ASSUME Laid, Named, NEW f \in Coordinates, NEW k \in DOMAIN record[f]
  PROVE  LET e == record[f][k]
             atPosition(j) == Startup!Before(Startup!Positions, Startup!Index(f, e.name)) + j
             atVelocity(j) == Startup!Before(Startup!Velocities, Startup!Index(f, e.name)) + j
         IN  /\ \A j \in 1 .. Startup!Positions[f] :
                  /\ atPosition(j) \in 1 .. Startup!Total(Startup!Positions)
                  /\ Startup!Filled(Startup!Positions, Startup!Position)[atPosition(j)]
                       = Startup!Position(f, e, j)
             /\ \A j \in 1 .. Startup!Velocities[f] :
                  /\ atVelocity(j) \in 1 .. Startup!Total(Startup!Velocities)
                  /\ Startup!Filled(Startup!Velocities, Startup!Velocity)[atVelocity(j)]
                       = Startup!Velocity(f, e, j)
<1> DEFINE e == record[f][k]
           P == Startup!Positions
           V == Startup!Velocities
           atPosition(j) == Startup!Before(P, Startup!Index(f, e.name)) + j
           atVelocity(j) == Startup!Before(V, Startup!Index(f, e.name)) + j
<1>1. P \in Sizes /\ V \in Sizes
  BY DEF Sizes
<1>2. ASSUME NEW j \in 1 .. P[f]
      PROVE  /\ atPosition(j) \in 1 .. Startup!Total(P)
             /\ Startup!Filled(P, Startup!Position)[atPosition(j)] = Startup!Position(f, e, j)
  <2> DEFINE i == atPosition(j)
  <2>1. /\ i \in 1 .. Startup!Total(P) /\ i - Startup!Before(P, Startup!Index(f, e.name)) = j
        /\ FamilyAt(P, i) = f /\ EntryAt(P, i, f) = e
    BY <1>1, <1>2, PlaceIs
  <2> HIDE DEF i
  <2>2. Startup!Filled(P, Startup!Position)[i] =
          Startup!Position(f, e, i - Startup!Before(P, Startup!Index(f, e.name)))
    BY <2>1, FilledAre
  <2>3. QED  BY <2>1, <2>2 DEF i
<1>3. ASSUME NEW j \in 1 .. V[f]
      PROVE  /\ atVelocity(j) \in 1 .. Startup!Total(V)
             /\ Startup!Filled(V, Startup!Velocity)[atVelocity(j)] = Startup!Velocity(f, e, j)
  <2> DEFINE i == atVelocity(j)
  <2>1. /\ i \in 1 .. Startup!Total(V) /\ i - Startup!Before(V, Startup!Index(f, e.name)) = j
        /\ FamilyAt(V, i) = f /\ EntryAt(V, i, f) = e
    BY <1>1, <1>3, PlaceIs
  <2> HIDE DEF i
  <2>2. Startup!Filled(V, Startup!Velocity)[i] =
          Startup!Velocity(f, e, i - Startup!Before(V, Startup!Index(f, e.name)))
    BY <2>1, FilledAre
  <2>3. QED  BY <2>1, <2>2 DEF i
<1>4. QED  BY <1>2, <1>3

LEMMA CountIs == \A S : Startup!Cardinality(S) = Cardinality(S)
BY DEF Startup!Cardinality, Cardinality

\* A claim that covers each slot once is the claim of some one statement.
LEMMA CoversOnce ==
  ASSUME NEW claims, NEW total,
         \A i \in 1 .. total : \E k \in DOMAIN claims : \A l \in DOMAIN claims :
           i \in claims[l][2] <=> l = k
  PROVE  Startup!ExactCover(claims, total)
<1>1. ASSUME NEW i \in 1 .. total
      PROVE  Startup!Cardinality({k \in DOMAIN claims : i \in claims[k][2]}) = 1
  <2>1. PICK k \in DOMAIN claims : \A l \in DOMAIN claims : i \in claims[l][2] <=> l = k
    OBVIOUS
  <2>2. {l \in DOMAIN claims : i \in claims[l][2]} = {k}
    BY <2>1
  <2>3. QED  BY <2>2, CountIs, FS_Singleton
<1>2. QED  BY <1>1 DEF Startup!ExactCover

\* Three sequences in a row.
LEMMA ThreeInARow ==
  ASSUME NEW S, NEW a \in Seq(S), NEW b \in Seq(S), NEW c \in Seq(S)
  PROVE  LET all == (a \o b) \o c
         IN  /\ Len(a) \in Nat /\ Len(b) \in Nat /\ Len(c) \in Nat
             /\ DOMAIN all = 1 .. Len(a) + Len(b) + Len(c)
             /\ \A k \in 1 .. Len(a) : all[k] = a[k]
             /\ \A k \in 1 .. Len(b) : all[Len(a) + k] = b[k]
             /\ \A k \in 1 .. Len(c) : all[Len(a) + Len(b) + k] = c[k]
<1> DEFINE two == a \o b
           all == two \o c
<1>1. Len(a) \in Nat /\ Len(b) \in Nat /\ Len(c) \in Nat
  BY LenProperties
<1>2. /\ two \in Seq(S) /\ Len(two) = Len(a) + Len(b)
      /\ \A j \in 1 .. Len(a) + Len(b) : two[j] = IF j <= Len(a) THEN a[j] ELSE b[j - Len(a)]
  BY ConcatProperties
<1> HIDE DEF two
<1>3. /\ all \in Seq(S) /\ Len(all) = Len(two) + Len(c)
      /\ \A j \in 1 .. Len(two) + Len(c) :
           all[j] = IF j <= Len(two) THEN two[j] ELSE c[j - Len(two)]
  <2>1. two \in Seq(S)
    BY <1>2
  <2>2. QED  BY <2>1, ConcatProperties
<1> HIDE DEF all
<1>4. DOMAIN all = 1 .. Len(a) + Len(b) + Len(c)
  BY <1>1, <1>2, <1>3, LenProperties
<1>5. ASSUME NEW k \in 1 .. Len(a)  PROVE all[k] = a[k]
  <2>1. k \in 1 .. Len(two) + Len(c) /\ k \in 1 .. Len(a) + Len(b) /\ k <= Len(a) /\ k <= Len(two)
    BY <1>1, <1>2
  <2>2. QED  BY <1>2, <1>3, <2>1
<1>6. ASSUME NEW k \in 1 .. Len(b)  PROVE all[Len(a) + k] = b[k]
  <2> DEFINE j == Len(a) + k
  <2>1. /\ j \in 1 .. Len(two) + Len(c) /\ j \in 1 .. Len(a) + Len(b) /\ ~(j <= Len(a))
        /\ j <= Len(two) /\ j - Len(a) = k
    BY <1>1, <1>2
  <2> HIDE DEF j
  <2>2. all[j] = b[k]
    BY <1>2, <1>3, <2>1
  <2>3. QED  BY <2>2 DEF j
<1>7. ASSUME NEW k \in 1 .. Len(c)  PROVE all[Len(a) + Len(b) + k] = c[k]
  <2> DEFINE j == Len(a) + Len(b) + k
  <2>1. j \in 1 .. Len(two) + Len(c) /\ ~(j <= Len(two)) /\ j - Len(two) = k
    BY <1>1, <1>2
  <2> HIDE DEF j
  <2>2. all[j] = c[k]
    BY <1>3, <2>1
  <2>3. QED  BY <2>2 DEF j
<1>8. QED  BY <1>1, <1>4, <1>5, <1>6, <1>7 DEF all, two

\* A number for each family.
Numbers(of, a, b, c) ==
  of \in [Coordinates -> Nat] /\ of["free body"] = a /\ of["revolute"] = b /\ of["ball"] = c

LEMMA FamiliesHave ==
  ASSUME NEW a \in Nat, NEW b \in Nat, NEW c \in Nat
  PROVE  \E of : Numbers(of, a, b, c)
<1> DEFINE of == [f \in Coordinates |-> IF f = "free body" THEN a ELSE IF f = "revolute" THEN b ELSE c]
<1>1. of \in [Coordinates -> Nat]
  OBVIOUS
<1>2. of["free body"] = a /\ of["revolute"] = b /\ of["ball"] = c
  BY DEF Coordinates
<1> HIDE DEF of
<1>3. QED  BY <1>1, <1>2 DEF Numbers

\* Each family's part of what all have begins somewhere, and nothing is between.
Parts(from, of, all) ==
  /\ from \in [Coordinates -> Nat]
  /\ \A f \in Coordinates : \A k \in DOMAIN of[f] :
       from[f] + k \in DOMAIN all /\ all[from[f] + k] = of[f][k]
  /\ \A j \in DOMAIN all : \E f \in Coordinates : \E k \in DOMAIN of[f] : j = from[f] + k

LEMMA FamiliesInARow ==
  ASSUME NEW S, NEW of \in [Coordinates -> Seq(S)]
  PROVE  \E from : Parts(from, of, (of["free body"] \o of["revolute"]) \o of["ball"])
<1>1. /\ "free body" \in Coordinates /\ "revolute" \in Coordinates /\ "ball" \in Coordinates
      /\ \A f \in Coordinates : f = "free body" \/ f = "revolute" \/ f = "ball"
  BY DEF Coordinates
<1>2. PICK a \in Seq(S) : a = of["free body"]
  BY <1>1
<1>3. PICK b \in Seq(S) : b = of["revolute"]
  BY <1>1
<1>4. PICK c \in Seq(S) : c = of["ball"]
  BY <1>1
<1> DEFINE all == (a \o b) \o c
<1>5. /\ Len(a) \in Nat /\ Len(b) \in Nat /\ Len(c) \in Nat
      /\ DOMAIN all = 1 .. Len(a) + Len(b) + Len(c)
      /\ \A k \in 1 .. Len(a) : all[k] = a[k]
      /\ \A k \in 1 .. Len(b) : all[Len(a) + k] = b[k]
      /\ \A k \in 1 .. Len(c) : all[Len(a) + Len(b) + k] = c[k]
  BY ThreeInARow
<1> HIDE DEF all
<1>6. DOMAIN a = 1 .. Len(a) /\ DOMAIN b = 1 .. Len(b) /\ DOMAIN c = 1 .. Len(c)
  BY LenProperties
<1>7. PICK from \in [Coordinates -> Nat] :
        from["free body"] = 0 /\ from["revolute"] = Len(a) /\ from["ball"] = Len(a) + Len(b)
  <2> DEFINE p == 0
             q == Len(a)
             r == Len(a) + Len(b)
  <2>1. p \in Nat /\ q \in Nat /\ r \in Nat
    BY <1>5
  <2> HIDE DEF p, q, r
  <2>2. PICK from : Numbers(from, p, q, r)
    BY <2>1, FamiliesHave
  <2>3. QED  BY <2>2 DEF Numbers, p, q, r
<1>8. ASSUME NEW k \in DOMAIN a
      PROVE  0 + k \in DOMAIN all /\ all[0 + k] = a[k]
  <2>1. 0 + k = k /\ k \in 1 .. Len(a) /\ k \in 1 .. Len(a) + Len(b) + Len(c)
    BY <1>5, <1>6
  <2>2. QED  BY <1>5, <2>1
<1>9. ASSUME NEW k \in DOMAIN b
      PROVE  Len(a) + k \in DOMAIN all /\ all[Len(a) + k] = b[k]
  <2>1. k \in 1 .. Len(b) /\ Len(a) + k \in 1 .. Len(a) + Len(b) + Len(c)
    BY <1>5, <1>6
  <2>2. QED  BY <1>5, <2>1
<1>10. ASSUME NEW k \in DOMAIN c
       PROVE  Len(a) + Len(b) + k \in DOMAIN all /\ all[Len(a) + Len(b) + k] = c[k]
  <2>1. k \in 1 .. Len(c) /\ Len(a) + Len(b) + k \in 1 .. Len(a) + Len(b) + Len(c)
    BY <1>5, <1>6
  <2>2. QED  BY <1>5, <2>1
<1>11. ASSUME NEW f \in Coordinates, NEW k \in DOMAIN of[f]
       PROVE  from[f] + k \in DOMAIN all /\ all[from[f] + k] = of[f][k]
  <2>1. CASE f = "free body"
    <3>1. of[f] = a /\ from[f] = 0
      BY <1>2, <1>7, <2>1
    <3>2. k \in DOMAIN a
      BY <3>1
    <3>3. QED  BY <1>8, <3>1, <3>2
  <2>2. CASE f = "revolute"
    <3>1. of[f] = b /\ from[f] = Len(a)
      BY <1>3, <1>7, <2>2
    <3>2. k \in DOMAIN b
      BY <3>1
    <3>3. QED  BY <1>9, <3>1, <3>2
  <2>3. CASE f = "ball"
    <3>1. of[f] = c /\ from[f] = Len(a) + Len(b)
      BY <1>4, <1>7, <2>3
    <3>2. k \in DOMAIN c
      BY <3>1
    <3>3. QED  BY <1>10, <3>1, <3>2
  <2>4. QED  BY <1>1, <2>1, <2>2, <2>3
<1>12. ASSUME NEW j \in DOMAIN all
       PROVE  \E f \in Coordinates : \E k \in DOMAIN of[f] : j = from[f] + k
  <2>1. \/ j \in DOMAIN a /\ j = 0 + j
        \/ \E k \in DOMAIN b : j = Len(a) + k
        \/ \E k \in DOMAIN c : j = Len(a) + Len(b) + k
    <3>1. CASE j <= Len(a)
      BY <1>5, <1>6, <3>1
    <3>2. CASE Len(a) < j /\ j <= Len(a) + Len(b)
      <4>1. j - Len(a) \in 1 .. Len(b) /\ j = Len(a) + (j - Len(a))
        BY <1>5, <3>2
      <4>2. QED  BY <1>6, <4>1
    <3>3. CASE Len(a) + Len(b) < j
      <4>1. /\ j - (Len(a) + Len(b)) \in 1 .. Len(c)
            /\ j = Len(a) + Len(b) + (j - (Len(a) + Len(b)))
        BY <1>5, <3>3
      <4>2. QED  BY <1>6, <4>1
    <3>4. QED  BY <1>5, <3>1, <3>2, <3>3
  <2>2. CASE j \in DOMAIN a /\ j = 0 + j
    BY <1>1, <1>2, <1>7, <2>2
  <2>3. CASE \E k \in DOMAIN b : j = Len(a) + k
    <3>1. PICK k \in DOMAIN b : j = Len(a) + k
      BY <2>3
    <3>2. k \in DOMAIN of["revolute"] /\ j = from["revolute"] + k
      BY <1>3, <1>7, <3>1
    <3>3. QED  BY <1>1, <3>2
  <2>4. CASE \E k \in DOMAIN c : j = Len(a) + Len(b) + k
    <3>1. PICK k \in DOMAIN c : j = Len(a) + Len(b) + k
      BY <2>4
    <3>2. k \in DOMAIN of["ball"] /\ j = from["ball"] + k
      BY <1>4, <1>7, <3>1
    <3>3. QED  BY <1>1, <3>2
  <2>5. QED  BY <2>1, <2>2, <2>3, <2>4
<1>13. Parts(from, of, all)
  BY <1>11, <1>12 DEF Parts
<1>14. all = (of["free body"] \o of["revolute"]) \o of["ball"]
  BY <1>2, <1>3, <1>4 DEF all
<1>15. QED  BY <1>13, <1>14, Zenon

\* The claims are those of the families one after the other.
LEMMA ClaimsAre ==
  ASSUME Named, NEW sizes \in Sizes
  PROVE  LET all == Startup!Claims(sizes)
         IN  \E from \in [Coordinates -> Nat] :
               /\ \A f \in Coordinates : \A k \in DOMAIN record[f] :
                    /\ from[f] + k \in DOMAIN all
                    /\ all[from[f] + k][2] = Startup!Slots(sizes, f, record[f][k].name)
               /\ \A j \in DOMAIN all :
                    \E f \in Coordinates : \E k \in DOMAIN record[f] : j = from[f] + k
<1> DEFINE all == Startup!Claims(sizes)
           of == [f \in Coordinates |-> Startup!ClaimsOf(sizes, f)]
<1>1. "free body" \in Coordinates /\ "revolute" \in Coordinates /\ "ball" \in Coordinates
  BY DEF Coordinates
<1>2. ASSUME NEW f \in Coordinates
      PROVE  /\ Len(record[f]) \in Nat /\ DOMAIN record[f] = 1 .. Len(record[f])
             /\ of[f] = [k \in 1 .. Len(record[f]) |->
                           <<record[f][k].name, Startup!Slots(sizes, f, record[f][k].name)>>]
  <2>1. f \in Startup!Families
    BY CoordinatesAre
  <2>2. /\ Len(record[f]) \in Nat /\ DOMAIN record[f] = 1 .. Len(record[f])
        /\ Startup!Stated(f) = [k \in DOMAIN record[f] |-> record[f][k].name]
    BY <2>1, NamesAre
  <2>3. QED  BY <2>2 DEF Startup!ClaimsOf
<1>3. all = (of["free body"] \o of["revolute"]) \o of["ball"]
  BY <1>1 DEF Startup!Claims
<1>4. DOMAIN of = Coordinates /\ of = [f \in Coordinates |-> of[f]]
  OBVIOUS
<1> HIDE DEF all, of
<1> DEFINE S == UNION {{of[f][k] : k \in 1 .. Len(record[f])} : f \in Coordinates}
<1>5. ASSUME NEW f \in Coordinates
      PROVE  of[f] \in Seq(S)
  <2>1. \A k \in 1 .. Len(record[f]) : of[f][k] \in S
    OBVIOUS
  <2> HIDE DEF S
  <2>2. of[f] \in [1 .. Len(record[f]) -> S]
    BY <1>2, <2>1
  <2>3. QED  BY <1>2, <2>2, SeqDef
<1> HIDE DEF S
<1>6. of \in [Coordinates -> Seq(S)]
  BY <1>4, <1>5
<1>7. PICK from : Parts(from, of, all)
  BY <1>3, <1>6, FamiliesInARow
<1>8. \A f \in Coordinates : DOMAIN of[f] = DOMAIN record[f]
  BY <1>2
<1>9. ASSUME NEW f \in Coordinates, NEW k \in DOMAIN record[f]
      PROVE  /\ from[f] + k \in DOMAIN all
             /\ all[from[f] + k][2] = Startup!Slots(sizes, f, record[f][k].name)
  <2>1. k \in 1 .. Len(record[f])
    BY <1>2
  <2>2. of[f][k] = <<record[f][k].name, Startup!Slots(sizes, f, record[f][k].name)>>
    BY <1>2, <2>1
  <2>3. of[f][k][2] = Startup!Slots(sizes, f, record[f][k].name)
    BY <2>2
  <2>4. QED  BY <1>7, <1>8, <2>3 DEF Parts
<1>10. ASSUME NEW j \in DOMAIN all
       PROVE  \E f \in Coordinates : \E k \in DOMAIN record[f] : j = from[f] + k
  BY <1>7, <1>8 DEF Parts
<1>11. /\ \A f \in Coordinates : \A k \in DOMAIN record[f] :
            /\ from[f] + k \in DOMAIN all
            /\ all[from[f] + k][2] = Startup!Slots(sizes, f, record[f][k].name)
       /\ \A j \in DOMAIN all :
            \E f \in Coordinates : \E k \in DOMAIN record[f] : j = from[f] + k
  BY <1>9, <1>10
<1>12. QED  BY <1>7, <1>11 DEF all, Parts

\* So the statements cover the slots.
LEMMA StatementsCover ==
  ASSUME Laid, Named, NEW sizes \in Sizes
  PROVE  Startup!ExactCover(Startup!Claims(sizes), Startup!Total(sizes))
<1> DEFINE all == Startup!Claims(sizes)
<1>1. PICK from \in [Coordinates -> Nat] :
        /\ \A f \in Coordinates : \A k \in DOMAIN record[f] :
             /\ from[f] + k \in DOMAIN all
             /\ all[from[f] + k][2] = Startup!Slots(sizes, f, record[f][k].name)
        /\ \A j \in DOMAIN all :
             \E f \in Coordinates : \E k \in DOMAIN record[f] : j = from[f] + k
  BY ClaimsAre
<1> HIDE DEF all
<1>2. ASSUME NEW i \in 1 .. Startup!Total(sizes)
      PROVE  \E j \in DOMAIN all : \A h \in DOMAIN all : i \in all[h][2] <=> h = j
  <2>1. PICK f \in Coordinates :
          \E k \in DOMAIN record[f] : i \in Startup!Slots(sizes, f, record[f][k].name)
    BY SlotsAreClaimed DEF ClaimedBy
  <2>2. PICK k \in DOMAIN record[f] : i \in Startup!Slots(sizes, f, record[f][k].name)
    BY <2>1
  <2>3. from[f] + k \in DOMAIN all /\ i \in all[from[f] + k][2]
    BY <1>1, <2>2
  <2>4. ASSUME NEW h \in DOMAIN all, i \in all[h][2]
        PROVE  h = from[f] + k
    <3>1. PICK g \in Coordinates : \E q \in DOMAIN record[g] : h = from[g] + q
      BY <1>1
    <3>2. PICK q \in DOMAIN record[g] : h = from[g] + q
      BY <3>1
    <3>3. i \in Startup!Slots(sizes, g, record[g][q].name)
      BY <1>1, <2>4, <3>2
    <3>4. f = g /\ k = q
      BY <2>2, <3>3, SlotsAreClaimed
    <3>5. QED  BY <3>2, <3>4
  <2>5. QED  BY <2>3, <2>4
<1>3. QED
  <2>1. Startup!ExactCover(all, Startup!Total(sizes))
    BY <1>2, CoversOnce
  <2>2. QED  BY <2>1 DEF all

\* As many statements of a family as there are elements.
LEMMA StatementsAreAsMany ==
  ASSUME Named, NEW f \in Startup!Families
  PROVE  Len(record[f]) = Startup!Cardinality(Startup!Expected(f))
<1> DEFINE n == Len(record[f])
           names == [k \in 1 .. n |-> record[f][k].name]
           T == Startup!Expected(f)
<1>1. /\ n \in Nat /\ DOMAIN record[f] = 1 .. n
      /\ \A k \in DOMAIN record[f] : record[f][k].name \in T
      /\ \A m \in T : \E k \in DOMAIN record[f] : record[f][k].name = m
      /\ \A k, l \in DOMAIN record[f] : record[f][k].name = record[f][l].name => k = l
  BY NamesAre
<1> HIDE DEF n, T
<1>2. names \in [1 .. n -> T] /\ \A k \in 1 .. n : names[k] = record[f][k].name
  BY <1>1
<1> HIDE DEF names
<1>3. \A k, l \in 1 .. n : names[k] = names[l] => k = l
  BY <1>1, <1>2
<1>4. \A m \in T : \E k \in 1 .. n : names[k] = m
  BY <1>1, <1>2
<1>5. names \in Bijection(1 .. n, T)
  BY <1>2, <1>3, <1>4 DEF Bijection, Injection, Surjection, IsInjective
<1>6. Cardinality(1 .. n) = n /\ IsFiniteSet(1 .. n)
  BY <1>1, FS_Interval
<1>7. Cardinality(T) = n
  BY <1>5, <1>6, FS_Bijection DEF ExistsBijection
<1>8. QED  BY <1>7, CountIs DEF n, T

\* The statement of an element is the one with its name.
LEMMA StatementIs ==
  ASSUME Named, NEW f \in Startup!Families, NEW k \in DOMAIN record[f]
  PROVE  /\ Startup!Statement(f, record[f][k].name) = record[f][k]
         /\ Startup!Of(record[f], record[f][k].name) = record[f][k]
         /\ Startup!LastOf(record[f], record[f][k].name) = record[f][k]
<1> DEFINE n == record[f][k].name
<1>1. \A l \in DOMAIN record[f] : record[f][l].name = n => l = k
  BY NamesAre
<1>2. Startup!Statement(f, n) = record[f][k]
  <2>1. Startup!ToSet(record[f]) = {record[f][l] : l \in DOMAIN record[f]}
    BY DEF Startup!ToSet
  <2>2. \A e \in Startup!ToSet(record[f]) : e.name = n => e = record[f][k]
    BY <1>1, <2>1
  <2>3. record[f][k] \in Startup!ToSet(record[f])
    BY <2>1
  <2>4. QED  BY <2>2, <2>3 DEF Startup!Statement
<1>3. Startup!Of(record[f], n) = record[f][k]
  BY <1>1 DEF Startup!Of
<1>4. Startup!LastOf(record[f], n) = record[f][k]
  <2>1. {l \in DOMAIN record[f] : record[f][l].name = n} = {k}
    BY <1>1
  <2>2. k >= k
    BY NamesAre
  <2>3. Startup!Max({k}) = k
    BY <2>2 DEF Startup!Max
  <2>4. QED  BY <2>1, <2>3 DEF Startup!LastOf
<1>5. QED  BY <1>2, <1>3, <1>4

\* The vehicle's force elements have names of their own.
Distinct ==
  /\ vehicle.series \in Seq(STRING) /\ vehicle.spring \in Seq(STRING)
  /\ Startup!IsInjective(vehicle.series \o vehicle.spring)

LEMMA SeriesAre ==
  ASSUME Distinct
  PROVE  /\ Len(vehicle.series) \in Nat /\ DOMAIN vehicle.series = 1 .. Len(vehicle.series)
         /\ \A i, j \in DOMAIN vehicle.series : vehicle.series[i] = vehicle.series[j] => i = j
<1>1. PICK a \in Seq(STRING) : a = vehicle.series
  BY DEF Distinct
<1>2. PICK b \in Seq(STRING) : b = vehicle.spring
  BY DEF Distinct
<1>3. Startup!IsInjective(a \o b)
  BY <1>1, <1>2 DEF Distinct
<1>4. /\ Len(a) \in Nat /\ Len(b) \in Nat /\ DOMAIN a = 1 .. Len(a)
      /\ DOMAIN (a \o b) = 1 .. Len(a) + Len(b)
      /\ \A i \in 1 .. Len(a) : (a \o b)[i] = a[i]
  <2>1. a \o b \in Seq(STRING) /\ Len(a \o b) = Len(a) + Len(b)
    BY ConcatProperties
  <2>2. Len(a) \in Nat /\ Len(b) \in Nat /\ DOMAIN a = 1 .. Len(a)
    BY LenProperties
  <2>3. DOMAIN (a \o b) = 1 .. Len(a) + Len(b)
    BY <2>1, LenProperties
  <2>4. ASSUME NEW i \in 1 .. Len(a)  PROVE (a \o b)[i] = a[i]
    <3>1. i \in 1 .. Len(a) + Len(b) /\ i <= Len(a)
      BY <2>2
    <3>2. QED  BY <3>1, ConcatProperties
  <2>5. QED  BY <2>2, <2>3, <2>4
<1> DEFINE both == a \o b
<1> HIDE DEF both
<1>5. ASSUME NEW i \in DOMAIN a, NEW j \in DOMAIN a, a[i] = a[j]
      PROVE  i = j
  <2>1. i \in DOMAIN both /\ j \in DOMAIN both /\ both[i] = both[j]
    BY <1>4, <1>5 DEF both
  <2>2. \A k, l \in DOMAIN both : both[k] = both[l] => k = l
    BY <1>3 DEF both, Startup!IsInjective
  <2>3. QED  BY <2>1, <2>2
<1>6. QED  BY <1>1, <1>4, <1>5

\* Which the statements name, each once.
LEMMA OrdinalsAre ==
  ASSUME Named, Distinct
  PROVE  /\ \A k \in DOMAIN record["series"] :
              LET i == Startup!Ordinal(record["series"][k].name)
              IN  i \in DOMAIN vehicle.series /\ vehicle.series[i] = record["series"][k].name
         /\ \A i \in DOMAIN vehicle.series : \E k \in DOMAIN record["series"] :
              record["series"][k].name = vehicle.series[i]
         /\ \A i \in DOMAIN vehicle.series : Startup!Ordinal(vehicle.series[i]) = i
<1>1. "series" \in Startup!Families
  BY DEF Startup!Families
<1>2. Startup!Expected("series") = {vehicle.series[i] : i \in DOMAIN vehicle.series}
  BY DEF Startup!Expected, Startup!ToSet
<1>3. ASSUME NEW i \in DOMAIN vehicle.series
      PROVE  Startup!Ordinal(vehicle.series[i]) = i
  BY SeriesAre DEF Startup!Ordinal
<1>4. ASSUME NEW i \in DOMAIN vehicle.series
      PROVE  \E k \in DOMAIN record["series"] : record["series"][k].name = vehicle.series[i]
  <2>1. vehicle.series[i] \in Startup!Expected("series")
    BY <1>2
  <2>2. QED  BY <1>1, <2>1, NamesAre
<1>5. ASSUME NEW k \in DOMAIN record["series"]
      PROVE  LET i == Startup!Ordinal(record["series"][k].name)
             IN  i \in DOMAIN vehicle.series /\ vehicle.series[i] = record["series"][k].name
  <2>1. PICK i \in DOMAIN vehicle.series : vehicle.series[i] = record["series"][k].name
    <3>1. record["series"][k].name \in Startup!Expected("series")
      BY <1>1, NamesAre
    <3>2. QED  BY <1>2, <3>1
  <2>2. QED  BY <1>3, <2>1
<1>6. QED  BY <1>3, <1>4, <1>5

LEMMA SeriesCover ==
  ASSUME Named, Distinct
  PROVE  Startup!ExactCover([i \in DOMAIN record.series |->
           <<Startup!Stated("series")[i], {Startup!Ordinal(Startup!Stated("series")[i])}>>],
           Len(vehicle.series))
<1> DEFINE claims == [i \in DOMAIN record.series |->
             <<Startup!Stated("series")[i], {Startup!Ordinal(Startup!Stated("series")[i])}>>]
<1>1. "series" \in Startup!Families /\ record.series = record["series"]
  BY DEF Startup!Families
<1>2. Startup!Stated("series") = [k \in DOMAIN record["series"] |-> record["series"][k].name]
  BY <1>1, NamesAre
<1>3. /\ DOMAIN claims = DOMAIN record["series"]
      /\ \A k \in DOMAIN record["series"] :
           claims[k][2] = {Startup!Ordinal(record["series"][k].name)}
  <2>1. DOMAIN claims = DOMAIN record["series"]
    BY <1>1
  <2>2. ASSUME NEW k \in DOMAIN record["series"]
        PROVE  claims[k][2] = {Startup!Ordinal(record["series"][k].name)}
    <3>1. Startup!Stated("series")[k] = record["series"][k].name
      BY <1>2
    <3>2. claims[k] = <<Startup!Stated("series")[k], {Startup!Ordinal(Startup!Stated("series")[k])}>>
      BY <1>1
    <3> HIDE DEF claims
    <3>3. QED  BY <3>1, <3>2
  <2>3. QED  BY <2>1, <2>2
<1> HIDE DEF claims
<1>4. ASSUME NEW i \in 1 .. Len(vehicle.series)
      PROVE  \E k \in DOMAIN claims : \A l \in DOMAIN claims : i \in claims[l][2] <=> l = k
  <2>1. i \in DOMAIN vehicle.series
    BY SeriesAre
  <2>2. PICK k \in DOMAIN record["series"] : record["series"][k].name = vehicle.series[i]
    BY <2>1, OrdinalsAre
  <2>3. k \in DOMAIN claims /\ i \in claims[k][2]
    BY <1>3, <2>1, <2>2, OrdinalsAre
  <2>4. ASSUME NEW l \in DOMAIN claims, i \in claims[l][2]
        PROVE  l = k
    <3>1. l \in DOMAIN record["series"] /\ i = Startup!Ordinal(record["series"][l].name)
      BY <1>3, <2>4
    <3>2. vehicle.series[i] = record["series"][l].name
      BY <3>1, OrdinalsAre
    <3>3. QED  BY <1>1, <2>2, <3>1, <3>2, NamesAre
  <2>5. QED  BY <2>3, <2>4
<1>5. Startup!ExactCover(claims, Len(vehicle.series))
  BY <1>4, CoversOnce
<1>6. QED  BY <1>5 DEF claims

\* What Names and Write make of the record.
Stationed ==
  station = [b \in Startup!ToSet(Startup!Stated("free body")) |-> Startup!Anchor(b)]

SeriesPart ==
  [i \in DOMAIN vehicle.series |-> Startup!LastOf(record.series, vehicle.series[i]).value]

StatePart ==
  Startup!Filled(Startup!Positions, Startup!Position) \o
  Startup!Filled(Startup!Velocities, Startup!Velocity) \o SeriesPart

NominalPart ==
  [n \in Startup!ToSet(vehicle.spring) |->
     IF n \in Startup!ToSet(Startup!Stated("spring"))
     THEN Startup!LastOf(record.spring, n).value ELSE Default]

PlacementsPart ==
  [b \in Startup!ToSet(Startup!Stated("wheel pair")) |->
     [station |-> station[b], support |-> Startup!Of(record["wheel pair"], b).value]]

Written == state = StatePart /\ nominal = NominalPart /\ placements = PlacementsPart

LEMMA FunctionsAreSequences ==
  ASSUME NEW S, NEW n \in Nat, NEW g \in [1 .. n -> S]
  PROVE  g \in Seq(S) /\ Len(g) = n
<1>1. g \in Seq(S)
  BY SeqDef
<1>2. QED  BY <1>1, LenProperties

\* The three parts of the state.
LEMMA StateIs ==
  ASSUME Laid, Named, Distinct, Written
  PROVE  LET p == Startup!Total(Startup!Positions)
             q == Startup!Total(Startup!Velocities)
         IN  /\ \A i \in 1 .. p : state[i] = Startup!Filled(Startup!Positions, Startup!Position)[i]
             /\ \A i \in 1 .. q : state[p + i] = Startup!Filled(Startup!Velocities, Startup!Velocity)[i]
             /\ \A i \in DOMAIN vehicle.series : state[p + q + i] = SeriesPart[i]
<1> DEFINE p == Startup!Total(Startup!Positions)
           q == Startup!Total(Startup!Velocities)
           s == Len(vehicle.series)
           a == Startup!Filled(Startup!Positions, Startup!Position)
           b == Startup!Filled(Startup!Velocities, Startup!Velocity)
           c == SeriesPart
           S == {a[i] : i \in 1 .. p} \cup {b[i] : i \in 1 .. q} \cup {c[i] : i \in 1 .. s}
<1>1. p \in Nat /\ q \in Nat /\ s \in Nat /\ DOMAIN vehicle.series = 1 .. s
  BY SlotsPart, SeriesAre DEF Sizes
<1>2. a = [i \in 1 .. p |-> a[i]] /\ b = [i \in 1 .. q |-> b[i]] /\ c = [i \in 1 .. s |-> c[i]]
  <2>1. a = [i \in 1 .. p |-> a[i]]
    <3>1. DOMAIN a = 1 .. p /\ a = [i \in DOMAIN a |-> a[i]]
      BY FilledAre, Zenon
    <3>2. QED  BY <3>1, Zenon
  <2>2. b = [i \in 1 .. q |-> b[i]]
    <3>1. DOMAIN b = 1 .. q /\ b = [i \in DOMAIN b |-> b[i]]
      BY FilledAre, Zenon
    <3>2. QED  BY <3>1, Zenon
  <2>3. c = [i \in 1 .. s |-> c[i]]
    <3>1. DOMAIN vehicle.series = 1 .. s
      BY <1>1
    <3>2. DOMAIN c = 1 .. s /\ c = [i \in DOMAIN c |-> c[i]]
      BY <3>1, Zenon DEF SeriesPart
    <3>3. QED  BY <3>2, Zenon
  <2>4. QED  BY <2>1, <2>2, <2>3
<1>3. state = (a \o b) \o c
  BY DEF Written, StatePart
<1>4. /\ \A i \in 1 .. p : a[i] \in S
      /\ \A i \in 1 .. q : b[i] \in S
      /\ \A i \in 1 .. s : c[i] \in S
  <2> HIDE DEF a, b, c, p, q, s
  <2>1. QED  OBVIOUS
<1> HIDE DEF a, b, c, p, q, s, S
<1>5. a \in [1 .. p -> S] /\ b \in [1 .. q -> S] /\ c \in [1 .. s -> S]
  BY <1>2, <1>4, Zenon
<1>6. /\ a \in Seq(S) /\ b \in Seq(S) /\ c \in Seq(S)
      /\ Len(a) = p /\ Len(b) = q /\ Len(c) = s
  BY <1>1, <1>5, FunctionsAreSequences
<1> DEFINE all == (a \o b) \o c
<1>7. a \in Seq(S) /\ b \in Seq(S) /\ c \in Seq(S)
  BY <1>6
<1>8. /\ \A i \in 1 .. Len(a) : all[i] = a[i]
      /\ \A i \in 1 .. Len(b) : all[Len(a) + i] = b[i]
      /\ \A i \in 1 .. Len(c) : all[Len(a) + Len(b) + i] = c[i]
  BY <1>7, ThreeInARow
<1> HIDE DEF all
<1>9. state = all
  BY <1>3 DEF all
<1>10. /\ \A i \in 1 .. p : state[i] = a[i]
       /\ \A i \in 1 .. q : state[p + i] = b[i]
       /\ \A i \in 1 .. s : state[p + q + i] = c[i]
  BY <1>6, <1>8, <1>9
<1>11. \A i \in DOMAIN vehicle.series : state[p + q + i] = c[i]
  BY <1>1, <1>10
<1>12. QED  BY <1>10, <1>11 DEF a, b, c, p, q

\* A place of an element is one of the slots, so that of the state has its content.
LEMMA ElementHolds ==
  ASSUME Laid, Named, Distinct, Written, Stationed,
         NEW f \in Coordinates, NEW n \in Startup!Expected(f)
  PROVE  LET e == Startup!Statement(f, n)
             stands == Reference + Startup!Of(vehicle.offsets, n).offset + e.offset
         IN  /\ \A k \in 1 .. Startup!Positions[f] :
                  state[Startup!Before(Startup!Positions, Startup!Index(f, n)) + k] =
                    <<n, k, IF f = "free body" THEN stands ELSE e.value>>
             /\ \A k \in 1 .. Startup!Velocities[f] :
                  state[Startup!Total(Startup!Positions)
                        + Startup!Before(Startup!Velocities, Startup!Index(f, n)) + k] =
                    <<n, k, e.value + e.spins * Startup!Spin>>
<1> DEFINE P == Startup!Positions
           V == Startup!Velocities
           e == Startup!Statement(f, n)
           stands == Reference + Startup!Of(vehicle.offsets, n).offset + e.offset
<1>1. f \in Startup!Families
  BY CoordinatesAre
<1>2. PICK l \in DOMAIN record[f] : record[f][l].name = n
  BY <1>1, NamesAre
<1>3. e = record[f][l] /\ Startup!Of(record[f], n) = record[f][l]
  BY <1>1, <1>2, StatementIs
<1>4. e.name = n
  BY <1>2, <1>3
<1>5. f = "free body" => station[n] = stands
  <2>1. SUFFICES ASSUME f = "free body"  PROVE station[n] = stands
    OBVIOUS
  <2>2. n \in Startup!ToSet(Startup!Stated("free body"))
    BY <1>1, <2>1 DEF Named
  <2>3. station[n] = Startup!Anchor(n)
    BY <2>2 DEF Stationed
  <2>4. Startup!Anchor(n) = Reference + Startup!Of(vehicle.offsets, n).offset + e.offset
    BY <1>3, <2>1 DEF Startup!Anchor
  <2>5. QED  BY <2>3, <2>4
<1>6. /\ \A k \in 1 .. P[f] :
           /\ Startup!Before(P, Startup!Index(f, n)) + k \in 1 .. Startup!Total(P)
           /\ Startup!Filled(P, Startup!Position)[Startup!Before(P, Startup!Index(f, n)) + k]
                = Startup!Position(f, e, k)
      /\ \A k \in 1 .. V[f] :
           /\ Startup!Before(V, Startup!Index(f, n)) + k \in 1 .. Startup!Total(V)
           /\ Startup!Filled(V, Startup!Velocity)[Startup!Before(V, Startup!Index(f, n)) + k]
                = Startup!Velocity(f, e, k)
  BY <1>2, <1>3, PartsAre
<1> HIDE DEF e, stands, P, V
<1>7. ASSUME NEW k \in 1 .. P[f]
      PROVE  state[Startup!Before(P, Startup!Index(f, n)) + k] =
               <<n, k, IF f = "free body" THEN stands ELSE e.value>>
  <2>1. Startup!Position(f, e, k) = <<n, k, IF f = "free body" THEN stands ELSE e.value>>
    BY <1>4, <1>5, Zenon DEF Startup!Position
  <2>2. state[Startup!Before(P, Startup!Index(f, n)) + k] = Startup!Position(f, e, k)
    BY <1>6, StateIs DEF P
  <2>3. QED  BY <2>1, <2>2, Zenon
<1>8. ASSUME NEW k \in 1 .. V[f]
      PROVE  state[Startup!Total(P) + Startup!Before(V, Startup!Index(f, n)) + k] =
               <<n, k, e.value + e.spins * Startup!Spin>>
  <2>1. Startup!Velocity(f, e, k) = <<n, k, e.value + e.spins * Startup!Spin>>
    BY <1>4, Zenon DEF Startup!Velocity
  <2> DEFINE i == Startup!Before(V, Startup!Index(f, n)) + k
  <2>2. /\ i \in 1 .. Startup!Total(V)
        /\ Startup!Filled(V, Startup!Velocity)[i] = Startup!Velocity(f, e, k)
    BY <1>6
  <2> HIDE DEF i
  <2>3. state[Startup!Total(P) + i] = Startup!Velocity(f, e, k)
    BY <2>2, StateIs DEF P, V
  <2>4. Startup!Total(P) \in Nat /\ Startup!Before(V, Startup!Index(f, n)) \in Nat
    BY SlotsPart DEF P, V, Sizes
  <2>5. Startup!Total(P) + i = Startup!Total(P) + Startup!Before(V, Startup!Index(f, n)) + k
    BY <2>4 DEF i
  <2>6. QED  BY <2>1, <2>3, <2>5, Zenon
<1>9. QED  BY <1>7, <1>8 DEF e, stands, P, V

\* The rest of the state, and what is beside it.
LEMMA SeriesHold ==
  ASSUME Laid, Named, Distinct, Written, NEW i \in DOMAIN vehicle.series
  PROVE  state[Startup!Total(Startup!Positions) + Startup!Total(Startup!Velocities) + i] =
           Startup!Statement("series", vehicle.series[i]).value
<1>1. "series" \in Startup!Families /\ record.series = record["series"]
  BY DEF Startup!Families
<1>2. PICK k \in DOMAIN record["series"] : record["series"][k].name = vehicle.series[i]
  BY OrdinalsAre
<1>3. Startup!LastOf(record["series"], vehicle.series[i])
        = Startup!Statement("series", vehicle.series[i])
  BY <1>1, <1>2, StatementIs
<1>4. SeriesPart[i] = Startup!LastOf(record.series, vehicle.series[i]).value
  BY DEF SeriesPart
<1>5. state[Startup!Total(Startup!Positions) + Startup!Total(Startup!Velocities) + i]
        = SeriesPart[i]
  BY StateIs
<1>6. QED  BY <1>1, <1>3, <1>4, <1>5

LEMMA NominalHolds ==
  ASSUME Named, Written, NEW n \in Startup!Expected("spring"),
         NEW e \in Startup!ToSet(record.spring), e.name = n
  PROVE  nominal[n] = e.value
<1>1. "spring" \in Startup!Families /\ record.spring = record["spring"]
  BY DEF Startup!Families
<1>2. PICK k \in DOMAIN record["spring"] : e = record["spring"][k]
  BY <1>1 DEF Startup!ToSet
<1>3. Startup!LastOf(record["spring"], n) = e
  BY <1>1, <1>2, StatementIs
<1>4. n \in Startup!ToSet(vehicle.spring) /\ n \in Startup!ToSet(Startup!Stated("spring"))
  BY <1>1 DEF Named, Startup!Expected
<1>5. nominal[n] = Startup!LastOf(record.spring, n).value
  BY <1>4 DEF Written, NominalPart
<1>6. QED  BY <1>1, <1>3, <1>5

\* The carriers of a contact are the vehicle's pairs.
Anchored ==
  Startup!Contact => anchors = [c \in Startup!ToSet(vehicle.pairs) |-> Startup!Anchor(c)]

LEMMA SameCarriers ==
  ASSUME NEW a, NEW b, a \in Seq(STRING), b \in Seq(STRING), Len(a) = Len(b),
         Startup!IsInjective(a), Startup!IsInjective(b), Startup!ToSet(a) \subseteq Startup!ToSet(b)
  PROVE  Startup!ToSet(a) = Startup!ToSet(b)
<1>1. ASSUME NEW s, s \in Seq(STRING), Startup!IsInjective(s)
      PROVE  IsFiniteSet(Startup!ToSet(s)) /\ Cardinality(Startup!ToSet(s)) = Len(s)
  <2> DEFINE T == Startup!ToSet(s)
             n == Len(s)
  <2>1. n \in Nat /\ s \in [1 .. n -> STRING] /\ DOMAIN s = 1 .. n
    BY <1>1, LenProperties
  <2>2. T = {s[i] : i \in 1 .. n}
    BY <2>1 DEF Startup!ToSet
  <2> HIDE DEF T, n
  <2>3. s \in [1 .. n -> T] /\ \A t \in T : \E i \in 1 .. n : s[i] = t
    BY <2>1, <2>2
  <2>4. \A i, j \in 1 .. n : s[i] = s[j] => i = j
    BY <1>1, <2>1 DEF Startup!IsInjective
  <2>5. s \in Bijection(1 .. n, T)
    BY <2>3, <2>4 DEF Bijection, Injection, Surjection, IsInjective
  <2>6. Cardinality(1 .. n) = n /\ IsFiniteSet(1 .. n)
    BY <2>1, FS_Interval
  <2>7. Cardinality(T) = n /\ IsFiniteSet(T)
    BY <2>5, <2>6, FS_Bijection DEF ExistsBijection
  <2>8. QED  BY <2>7 DEF T, n
<1>2. /\ IsFiniteSet(Startup!ToSet(b)) /\ Cardinality(Startup!ToSet(b)) = Len(b)
      /\ Cardinality(Startup!ToSet(a)) = Len(a)
  BY <1>1
<1>3. QED  BY <1>2, FS_Subset

\* What the program is given.
LEMMA GivenAre ==
  ASSUME vehicle \in Vehicles, record \in Records
  PROVE  /\ vehicle.pairs \in Seq(STRING) /\ vehicle.series \in Seq(STRING)
         /\ vehicle.spring \in Seq(STRING)
         /\ \A f \in Startup!Families : record[f] \in Seq(Startup!Entry)
         /\ \A a \in Arrangements : a \in Seq(Coordinates \X STRING) /\ Startup!IsInjective(a)
         /\ Carriers \in Seq(STRING) /\ Startup!IsInjective(Carriers)
<1>1. Startup!AssemblyAssumption
  BY ConstructionAssumptions
<1>2. {vehicle.pairs, vehicle.series, vehicle.spring} \subseteq Seq(STRING)
  BY <1>1 DEF Startup!AssemblyAssumption
<1>3. \A f \in Startup!Families : record[f] \in Seq(Startup!Entry)
  BY <1>1 DEF Startup!AssemblyAssumption
<1>4. \A a \in Arrangements : a \in Seq(Coordinates \X STRING) /\ Startup!IsInjective(a)
  BY <1>1, CoordinatesAre DEF Startup!AssemblyAssumption
<1>5. Carriers \in Seq(STRING) /\ Startup!IsInjective(Carriers)
  BY <1>1 DEF Startup!AssemblyAssumption
<1>6. QED  BY <1>2, <1>3, <1>4, <1>5

\* The documents passed.
Loaded ==
  Startup!LayoutHolds /\ Startup!Declared /\ \A f \in Startup!Families : Startup!Sound(f)

Matched == \A f \in Startup!Families : Startup!SameNames(f)

LEMMA LoadedIs ==
  ASSUME vehicle \in Vehicles, record \in Records, Loaded
  PROVE  Distinct /\ (Matched => Named)
<1>1. Distinct
  BY GivenAre DEF Loaded, Startup!Declared, Distinct
<1>2. ASSUME Matched  PROVE Named
  BY <1>2, GivenAre DEF Loaded, Startup!Sound, Matched, Startup!SameNames, Named
<1>3. QED  BY <1>1, <1>2

LEMMA PlacementsAre ==
  ASSUME Written
  PROVE  /\ DOMAIN placements = Startup!ToSet(Startup!Stated("wheel pair"))
         /\ \A b \in Startup!ToSet(Startup!Stated("wheel pair")) :
              placements[b].station = station[b]
<1> DEFINE pairs == Startup!ToSet(Startup!Stated("wheel pair"))
           support(b) == Startup!Of(record["wheel pair"], b).value
<1>1. placements = [b \in pairs |-> [station |-> station[b], support |-> support(b)]]
  BY DEF Written, PlacementsPart
<1> HIDE DEF pairs, support
<1>2. DOMAIN placements = pairs /\ \A b \in pairs : placements[b].station = station[b]
  BY <1>1
<1>3. QED  BY <1>2 DEF pairs

\* The plan's anchors are the placements.
LEMMA AnchorsMatch ==
  ASSUME Named, Startup!LayoutHolds, Stationed, Written, Anchored, Startup!Contact
  PROVE  /\ DOMAIN anchors = Startup!Expected("wheel pair")
         /\ DOMAIN anchors = DOMAIN placements
         /\ \A c \in DOMAIN anchors : anchors[c] = placements[c].station
<1>1. /\ "wheel pair" \in Startup!Families /\ "free body" \in Startup!Families
      /\ Startup!Expected("wheel pair") = Startup!ToSet(vehicle.pairs)
      /\ Startup!Expected("free body") = Startup!Placed
  <2>1. "wheel pair" \in Startup!Families /\ "free body" \in Startup!Families
    BY CoordinatesAre DEF Startup!Families, Coordinates
  <2>2. Startup!Expected("wheel pair") = Startup!ToSet(vehicle.pairs)
    BY DEF Startup!Expected
  <2>3. Startup!Expected("free body") = Startup!Placed
    BY DEF Startup!Expected
  <2>4. QED  BY <2>1, <2>2, <2>3
<1>2. /\ Startup!ToSet(Startup!Stated("wheel pair")) = Startup!ToSet(vehicle.pairs)
      /\ Startup!ToSet(Startup!Stated("free body")) = Startup!Placed
  BY <1>1 DEF Named
<1>3. anchors = [c \in Startup!ToSet(vehicle.pairs) |-> Startup!Anchor(c)]
  BY DEF Anchored
<1>4. DOMAIN anchors = Startup!ToSet(vehicle.pairs) /\ DOMAIN placements = Startup!ToSet(vehicle.pairs)
  BY <1>2, <1>3, PlacementsAre
<1>5. ASSUME NEW c \in DOMAIN anchors  PROVE anchors[c] = placements[c].station
  <2>1. c \in Startup!ToSet(vehicle.pairs) /\ c \in Startup!Placed
    BY <1>4 DEF Startup!LayoutHolds
  <2>2. anchors[c] = Startup!Anchor(c)
    BY <1>3, <2>1
  <2>3. station[c] = Startup!Anchor(c)
    BY <1>2, <2>1 DEF Stationed
  <2>4. placements[c].station = station[c]
    BY <1>2, <2>1, PlacementsAre
  <2>5. QED  BY <2>2, <2>3, <2>4
<1>6. QED  BY <1>1, <1>4, <1>5

\* So a published context is the record's.
LEMMA ThePublishedIsTheRecord ==
  ASSUME Laid, Named, Distinct, Startup!LayoutHolds, Stationed, Written, Anchored,
         reason \notin {"cover", "anchors"}
  PROVE  Startup!ContextIsTheRecord
<1>1. ASSUME NEW f \in Startup!Families
      PROVE  /\ Len(record[f]) = Startup!Cardinality(Startup!Expected(f))
             /\ Startup!ToSet(Startup!Stated(f)) = Startup!Expected(f)
  BY StatementsAreAsMany DEF Named
<1>2. Startup!Coordinates = Coordinates
  BY CoordinatesAre
<1>3. ASSUME NEW n \in Startup!Expected("free body"), n \in DOMAIN placements
      PROVE  placements[n].station =
               Reference + Startup!Of(vehicle.offsets, n).offset
                 + Startup!Statement("free body", n).offset
  <2>1. "free body" \in Startup!Families
    BY CoordinatesAre DEF Coordinates
  <2>2. n \in Startup!ToSet(Startup!Stated("free body"))
    BY <2>1 DEF Named
  <2>3. n \in Startup!ToSet(Startup!Stated("wheel pair"))
    BY <1>3, PlacementsAre
  <2>4. placements[n].station = station[n]
    BY <2>3, PlacementsAre
  <2>5. station[n] = Startup!Anchor(n)
    BY <2>2 DEF Stationed
  <2>6. PICK l \in DOMAIN record["free body"] : record["free body"][l].name = n
    BY <2>1, NamesAre
  <2>7. Startup!Of(record["free body"], n) = Startup!Statement("free body", n)
    BY <2>1, <2>6, StatementIs
  <2>8. QED  BY <2>4, <2>5, <2>7 DEF Startup!Anchor
<1>4. ASSUME NEW f \in Coordinates, NEW n \in Startup!Expected(f)
      PROVE  LET e == Startup!Statement(f, n)
                 stands == Reference + Startup!Of(vehicle.offsets, n).offset + e.offset
             IN  /\ \A k \in 1 .. Startup!Positions[f] :
                      state[Startup!Before(Startup!Positions, Startup!Index(f, n)) + k] =
                        <<n, k, IF f = "free body" THEN stands ELSE e.value>>
                 /\ \A k \in 1 .. Startup!Velocities[f] :
                      state[Startup!Total(Startup!Positions)
                            + Startup!Before(Startup!Velocities, Startup!Index(f, n)) + k] =
                        <<n, k, e.value + e.spins * Startup!Spin>>
                 /\ f = "free body" /\ n \in DOMAIN placements =>
                      placements[n].station = stands
  <2>1. f = "free body" /\ n \in DOMAIN placements =>
          placements[n].station =
            Reference + Startup!Of(vehicle.offsets, n).offset + Startup!Statement(f, n).offset
    BY <1>3
  <2>2. QED  BY <2>1, ElementHolds
<1>5. Startup!Contact => DOMAIN anchors = Startup!Expected("wheel pair")
  BY AnchorsMatch
<1>6. QED
  BY <1>1, <1>2, <1>4, <1>5, SeriesHold, NominalHolds, Zenon DEF Startup!ContextIsTheRecord

\* The inductive invariant: what each step has found or left is there after it, and no
\* later step disturbs it.
FromWrite == {"anchors", "published"}
FromNames == {"cover", "write"} \cup FromWrite
FromModel == {"identity", "names"} \cup FromNames
FromTopology == {"contact", "model"} \cup FromModel
FromLoad == {"topology"} \cup FromTopology

StartupInv ==
  /\ vehicle \in Vehicles /\ record \in Records
  /\ step \in {"load", "refused"} \cup FromLoad
  /\ reason \notin {"cover", "anchors"}
  /\ step \in FromLoad => Loaded
  /\ step \in FromTopology => Anchored
  /\ step \in FromModel => Laid
  /\ step \in FromNames => Matched /\ Stationed
  /\ step \in FromWrite => Written

\* None of it is about what a step that keeps its variables changes.
LEMMA TheFoundStay ==
  ASSUME UNCHANGED <<way, vehicle, record>>
  PROVE  /\ Loaded' <=> Loaded
         /\ UNCHANGED anchors => (Anchored' <=> Anchored)
         /\ UNCHANGED arrangement => (Laid' <=> Laid)
         /\ Matched' <=> Matched
         /\ UNCHANGED station => (Stationed' <=> Stationed)
         /\ UNCHANGED <<arrangement, station, state, nominal, placements>> => (Written' <=> Written)
<1>1. way' = way /\ vehicle' = vehicle /\ record' = record
  OBVIOUS
<1>2. Loaded' <=> Loaded
  BY <1>1 DEF Loaded, Startup!LayoutHolds, Startup!Declared, Startup!Sound, Startup!Placed,
    Startup!FreeBodies, Startup!Stated, Startup!NamesOf, Startup!Of
<1>3. ASSUME anchors' = anchors  PROVE Anchored' <=> Anchored
  BY <1>1, <1>3 DEF Anchored, Startup!Contact, Startup!Anchor, Startup!Of
<1>4. ASSUME arrangement' = arrangement  PROVE Laid' <=> Laid
  BY <1>1, <1>4 DEF Laid, Startup!Elements, Startup!Expected, Startup!Placed, Startup!NamesOf
<1>5. Matched' <=> Matched
  BY <1>1 DEF Matched, Startup!SameNames, Startup!Stated, Startup!Expected, Startup!Placed,
    Startup!NamesOf
<1>6. ASSUME station' = station  PROVE Stationed' <=> Stationed
  BY <1>1, <1>6 DEF Stationed, Startup!Stated, Startup!NamesOf, Startup!Anchor, Startup!Of
<1>7. ASSUME arrangement' = arrangement, station' = station, state' = state,
             nominal' = nominal, placements' = placements
      PROVE  Written' <=> Written
  BY <1>1, <1>7 DEF Written, StatePart, NominalPart, PlacementsPart, SeriesPart, Startup!Filled, Startup!Position, Startup!Velocity,
    Startup!Spin, Startup!Slots, Startup!Index, Startup!Before, Startup!Total, Startup!LastOf,
    Startup!Stated, Startup!NamesOf, Startup!Of
<1>8. QED  BY <1>2, <1>3, <1>4, <1>5, <1>6, <1>7

LEMMA StartupStarts == Startup!Init => StartupInv
BY DEF Startup!Init, StartupInv, FromLoad, FromTopology, FromModel, FromNames, FromWrite

LEMMA StartupStays == StartupInv /\ UNCHANGED startupVars => StartupInv'
<1> SUFFICES ASSUME StartupInv, UNCHANGED startupVars
             PROVE  StartupInv'
  OBVIOUS
<1>1. /\ UNCHANGED <<way, vehicle, record>>
      /\ UNCHANGED anchors /\ UNCHANGED arrangement /\ UNCHANGED station
      /\ UNCHANGED <<arrangement, station, state, nominal, placements>>
      /\ step' = step /\ reason' = reason
  BY DEF startupVars
<1>2. QED  BY <1>1, TheFoundStay DEF StartupInv

\* A refusal says why, and leaves nothing.
LEMMA RefusalsSay ==
  ASSUME StartupInv, NEW why, why \notin {"cover", "anchors"}, Startup!Refuse(why)
  PROVE  StartupInv'
<1>1. vehicle' = vehicle /\ record' = record /\ step' = "refused" /\ reason' = why
  BY DEF Startup!Refuse, Startup!given
<1>2. QED
  BY <1>1 DEF StartupInv, FromLoad, FromTopology, FromModel, FromNames, FromWrite

LEMMA LoadKeeps == StartupInv /\ Startup!Load => StartupInv'
<1> SUFFICES ASSUME StartupInv, Startup!Load
             PROVE  StartupInv'
  OBVIOUS
<1>1. \/ Startup!Refuse("vehicle") \/ Startup!Refuse("record")
      \/ /\ Loaded /\ step' = "topology" /\ reason' = reason
         /\ UNCHANGED <<way, vehicle, record>>
  BY DEF Startup!Load, Loaded, Startup!given
<1>2. CASE Startup!Refuse("vehicle") \/ Startup!Refuse("record")
  BY <1>2, RefusalsSay
<1>3. CASE /\ Loaded /\ step' = "topology" /\ reason' = reason
           /\ UNCHANGED <<way, vehicle, record>>
  <2>1. Loaded'
    BY <1>3, TheFoundStay
  <2>2. QED
    BY <1>3, <2>1 DEF StartupInv, FromLoad, FromTopology, FromModel, FromNames, FromWrite
<1>4. QED  BY <1>1, <1>2, <1>3

LEMMA TopologyKeeps == StartupInv /\ Startup!Topology => StartupInv'
<1> SUFFICES ASSUME StartupInv, Startup!Topology
             PROVE  StartupInv'
  OBVIOUS
<1>1. \/ Startup!Refuse("topology")
      \/ /\ way = "IRW" => Startup!IsIrw
         /\ anchors' = IF Startup!Contact
                       THEN [c \in Startup!ToSet(Startup!Carried) |-> Startup!Anchor(c)] ELSE anchors
         /\ step' = "contact" /\ reason' = reason
         /\ UNCHANGED <<way, vehicle, record>>
  BY Zenon DEF Startup!Topology, Startup!given
<1>2. CASE Startup!Refuse("topology")
  BY <1>2, RefusalsSay
<1>3. CASE /\ way = "IRW" => Startup!IsIrw
           /\ anchors' = IF Startup!Contact
                         THEN [c \in Startup!ToSet(Startup!Carried) |-> Startup!Anchor(c)] ELSE anchors
           /\ step' = "contact" /\ reason' = reason
           /\ UNCHANGED <<way, vehicle, record>>
  <2>1. Loaded /\ Loaded' /\ vehicle \in Vehicles /\ record \in Records
    <3>1. step = "topology" /\ UNCHANGED <<way, vehicle, record>>
      BY <1>3 DEF Startup!Topology
    <3>2. QED  BY <3>1, TheFoundStay DEF StartupInv, FromLoad
  <2>2. Startup!ToSet(Startup!Carried) = Startup!ToSet(vehicle.pairs)
    <3>1. CASE way # "IRW"
      BY <3>1 DEF Startup!Carried
    <3>2. CASE way = "IRW"
      <4>1. /\ Len(vehicle.pairs) = Len(Carriers)
            /\ Startup!ToSet(Carriers) \subseteq Startup!ToSet(vehicle.pairs)
        BY <1>3, <3>2 DEF Startup!IsIrw
      <4>2. Startup!IsInjective(vehicle.pairs)
        BY <2>1 DEF Loaded, Startup!LayoutHolds
      <4>3. Startup!ToSet(Carriers) = Startup!ToSet(vehicle.pairs)
        BY <2>1, <4>1, <4>2, GivenAre, SameCarriers
      <4>4. QED  BY <3>2, <4>3 DEF Startup!Carried
    <3>3. QED  BY <3>1, <3>2
  <2>3. Startup!Contact => anchors' = [c \in Startup!ToSet(vehicle.pairs) |-> Startup!Anchor(c)]
    BY <1>3, <2>2
  <2>4. Anchored'
    <3>1. way' = way /\ vehicle' = vehicle /\ record' = record
      BY <1>3
    <3>2. QED  BY <2>3, <3>1 DEF Anchored, Startup!Contact, Startup!Anchor, Startup!Of
  <2>5. QED
    BY <1>3, <2>1, <2>4 DEF StartupInv, FromLoad, FromTopology, FromModel, FromNames, FromWrite
<1>4. QED  BY <1>1, <1>2, <1>3

LEMMA BindContactKeeps == StartupInv /\ Startup!BindContact => StartupInv'
<1> SUFFICES ASSUME StartupInv, Startup!BindContact
             PROVE  StartupInv'
  OBVIOUS
<1>1. \/ Startup!Refuse("profiles")
      \/ /\ step = "contact" /\ step' = "model" /\ reason' = reason
         /\ UNCHANGED <<way, vehicle, record>> /\ UNCHANGED anchors
  BY DEF Startup!BindContact, Startup!given, Startup!system
<1>2. CASE Startup!Refuse("profiles")
  BY <1>2, RefusalsSay
<1>3. CASE /\ step = "contact" /\ step' = "model" /\ reason' = reason
           /\ UNCHANGED <<way, vehicle, record>> /\ UNCHANGED anchors
  <2>1. Loaded /\ Anchored
    BY <1>3 DEF StartupInv, FromLoad, FromTopology
  <2>2. Loaded' /\ Anchored'
    BY <1>3, <2>1, TheFoundStay
  <2>3. QED
    BY <1>3, <2>2 DEF StartupInv, FromLoad, FromTopology, FromModel, FromNames, FromWrite
<1>4. QED  BY <1>1, <1>2, <1>3

LEMMA BuildModelKeeps == StartupInv /\ Startup!BuildModel => StartupInv'
<1> SUFFICES ASSUME StartupInv, Startup!BuildModel
             PROVE  StartupInv'
  OBVIOUS
<1>1. \/ Startup!Refuse("model")
      \/ /\ step = "model" /\ step' = "identity" /\ reason' = reason
         /\ \E a \in Arrangements : Startup!ToSet(a) = Startup!Elements /\ arrangement' = a
         /\ UNCHANGED <<way, vehicle, record>> /\ UNCHANGED anchors
  BY Zenon DEF Startup!BuildModel, Startup!given
<1>2. CASE Startup!Refuse("model")
  BY <1>2, RefusalsSay
<1>3. CASE /\ step = "model" /\ step' = "identity" /\ reason' = reason
           /\ \E a \in Arrangements : Startup!ToSet(a) = Startup!Elements /\ arrangement' = a
           /\ UNCHANGED <<way, vehicle, record>> /\ UNCHANGED anchors
  <2>1. Loaded /\ Anchored /\ vehicle \in Vehicles /\ record \in Records
    BY <1>3 DEF StartupInv, FromLoad, FromTopology
  <2>2. Loaded' /\ Anchored'
    BY <1>3, <2>1, TheFoundStay
  <2>3. /\ arrangement' \in Seq(Coordinates \X STRING) /\ Startup!IsInjective(arrangement')
        /\ Startup!ToSet(arrangement') = Startup!Elements
    BY <1>3, <2>1, GivenAre
  <2>4. Startup!Elements' = Startup!Elements
    <3>1. vehicle' = vehicle
      BY <1>3
    <3>2. QED
      BY <3>1 DEF Startup!Elements, Startup!Expected, Startup!Placed, Startup!NamesOf
  <2>5. Laid'
    BY <2>3, <2>4 DEF Laid, Startup!IsInjective, Startup!ToSet
  <2>6. QED
    BY <1>3, <2>2, <2>5 DEF StartupInv, FromLoad, FromTopology, FromModel, FromNames, FromWrite
<1>4. QED  BY <1>1, <1>2, <1>3

LEMMA IdentityKeeps == StartupInv /\ Startup!Identity => StartupInv'
<1> SUFFICES ASSUME StartupInv, Startup!Identity
             PROVE  StartupInv'
  OBVIOUS
<1>1. \/ Startup!Refuse("line") \/ Startup!Refuse("identity") \/ Startup!Refuse("gravity")
      \/ /\ step = "identity" /\ step' = "names" /\ reason' = reason
         /\ UNCHANGED <<way, vehicle, record>> /\ UNCHANGED anchors /\ UNCHANGED arrangement
  BY DEF Startup!Identity, Startup!given, Startup!system
<1>2. CASE Startup!Refuse("line") \/ Startup!Refuse("identity") \/ Startup!Refuse("gravity")
  BY <1>2, RefusalsSay
<1>3. CASE /\ step = "identity" /\ step' = "names" /\ reason' = reason
           /\ UNCHANGED <<way, vehicle, record>> /\ UNCHANGED anchors /\ UNCHANGED arrangement
  <2>1. Loaded /\ Anchored /\ Laid
    BY <1>3 DEF StartupInv, FromLoad, FromTopology, FromModel
  <2>2. Loaded' /\ Anchored' /\ Laid'
    BY <1>3, <2>1, TheFoundStay
  <2>3. QED
    BY <1>3, <2>2 DEF StartupInv, FromLoad, FromTopology, FromModel, FromNames, FromWrite
<1>4. QED  BY <1>1, <1>2, <1>3

LEMMA NamesKeep == StartupInv /\ Startup!Names => StartupInv'
<1> SUFFICES ASSUME StartupInv, Startup!Names
             PROVE  StartupInv'
  OBVIOUS
<1>1. \/ Startup!Refuse("names")
      \/ /\ Matched /\ station' = [b \in Startup!ToSet(Startup!Stated("free body")) |-> Startup!Anchor(b)]
         /\ step = "names" /\ step' = "cover" /\ reason' = reason
         /\ UNCHANGED <<way, vehicle, record>> /\ UNCHANGED anchors /\ UNCHANGED arrangement
  BY Zenon DEF Startup!Names, Startup!given, Startup!system, Matched
<1>2. CASE Startup!Refuse("names")
  BY <1>2, RefusalsSay
<1>3. CASE /\ Matched /\ station' = [b \in Startup!ToSet(Startup!Stated("free body")) |-> Startup!Anchor(b)]
           /\ step = "names" /\ step' = "cover" /\ reason' = reason
           /\ UNCHANGED <<way, vehicle, record>> /\ UNCHANGED anchors /\ UNCHANGED arrangement
  <2>1. Loaded /\ Anchored /\ Laid
    BY <1>3 DEF StartupInv, FromLoad, FromTopology, FromModel
  <2>2. Loaded' /\ Anchored' /\ Laid' /\ Matched'
    BY <1>3, <2>1, TheFoundStay
  <2>3. Stationed'
    <3>1. vehicle' = vehicle /\ record' = record
      BY <1>3
    <3> DEFINE stands == [b \in Startup!ToSet(Startup!Stated("free body")) |-> Startup!Anchor(b)]
    <3>2. stands' = stands
      BY <3>1 DEF Startup!Stated, Startup!NamesOf, Startup!Anchor, Startup!Of
    <3>3. station' = stands
      BY <1>3
    <3> HIDE DEF stands
    <3>4. station' = stands'
      BY <3>2, <3>3
    <3>5. QED  BY <3>4 DEF Stationed, stands
  <2>4. QED
    BY <1>3, <2>2, <2>3 DEF StartupInv, FromLoad, FromTopology, FromModel, FromNames, FromWrite
<1>4. QED  BY <1>1, <1>2, <1>3

\* The check of the slots never refuses.
LEMMA CoverKeeps == StartupInv /\ Startup!Cover => StartupInv'
<1> SUFFICES ASSUME StartupInv, Startup!Cover
             PROVE  StartupInv'
  OBVIOUS
<1>1. step = "cover"
  BY DEF Startup!Cover
<1>2. /\ Loaded /\ Anchored /\ Laid /\ Matched /\ Stationed
      /\ vehicle \in Vehicles /\ record \in Records
  BY <1>1 DEF StartupInv, FromLoad, FromTopology, FromModel, FromNames
<1>3. Named /\ Distinct
  BY <1>2, LoadedIs
<1>4. /\ Startup!ExactCover(Startup!Claims(Startup!Positions), Startup!Total(Startup!Positions))
      /\ Startup!ExactCover(Startup!Claims(Startup!Velocities), Startup!Total(Startup!Velocities))
  BY <1>2, <1>3, StatementsCover DEF Sizes
<1>5. /\ step' = "write" /\ reason' = reason
      /\ UNCHANGED <<way, vehicle, record>> /\ UNCHANGED anchors /\ UNCHANGED arrangement
      /\ UNCHANGED station
  BY <1>3, <1>4, SeriesCover, Zenon DEF Startup!Cover, Startup!given, Startup!system
<1>6. Loaded' /\ Anchored' /\ Laid' /\ Matched' /\ Stationed'
  BY <1>2, <1>5, TheFoundStay
<1>7. QED
  BY <1>5, <1>6 DEF StartupInv, FromLoad, FromTopology, FromModel, FromNames, FromWrite

LEMMA WriteKeeps == StartupInv /\ Startup!Write => StartupInv'
<1> SUFFICES ASSUME StartupInv, Startup!Write
             PROVE  StartupInv'
  OBVIOUS
<1>1. /\ step = "write" /\ step' = "anchors" /\ reason' = reason
      /\ UNCHANGED <<way, vehicle, record>> /\ UNCHANGED anchors /\ UNCHANGED arrangement
      /\ UNCHANGED station
  BY DEF Startup!Write, Startup!given, Startup!system
<1>2. Loaded /\ Anchored /\ Laid /\ Matched /\ Stationed
  BY <1>1 DEF StartupInv, FromLoad, FromTopology, FromModel, FromNames
<1>3. Loaded' /\ Anchored' /\ Laid' /\ Matched' /\ Stationed'
  <2>1. Loaded' /\ Anchored'
    BY <1>1, <1>2, TheFoundStay
  <2>2. Laid'
    BY <1>1, <1>2, TheFoundStay
  <2>3. Matched' /\ Stationed'
    BY <1>1, <1>2, TheFoundStay
  <2>4. QED  BY <2>1, <2>2, <2>3
<1>4. Written'
  <2>1. vehicle' = vehicle /\ record' = record /\ arrangement' = arrangement /\ station' = station
    BY <1>1
  <2>2. StatePart' = StatePart
    BY <2>1 DEF StatePart, SeriesPart, Startup!Filled, Startup!Position, Startup!Velocity,
      Startup!Spin, Startup!Slots, Startup!Index, Startup!Before, Startup!Total, Startup!LastOf
  <2>3. NominalPart' = NominalPart
    BY <2>1 DEF NominalPart, Startup!LastOf, Startup!Stated, Startup!NamesOf
  <2>4. PlacementsPart' = PlacementsPart
    BY <2>1 DEF PlacementsPart, Startup!Stated, Startup!NamesOf, Startup!Of
  <2>5. state' = StatePart /\ nominal' = NominalPart /\ placements' = PlacementsPart
    BY Zenon DEF Startup!Write, StatePart, SeriesPart, NominalPart, PlacementsPart
  <2>6. QED  BY <2>2, <2>3, <2>4, <2>5 DEF Written
<1>5. QED
  BY <1>1, <1>3, <1>4 DEF StartupInv, FromLoad, FromTopology, FromModel, FromNames, FromWrite

\* Nor does that of the anchors.
LEMMA PublishKeeps == StartupInv /\ Startup!Publish => StartupInv'
<1> SUFFICES ASSUME StartupInv, Startup!Publish
             PROVE  StartupInv'
  OBVIOUS
<1>1. step = "anchors"
  BY DEF Startup!Publish
<1>2. /\ Loaded /\ Anchored /\ Laid /\ Matched /\ Stationed /\ Written
      /\ vehicle \in Vehicles /\ record \in Records
  BY <1>1 DEF StartupInv, FromLoad, FromTopology, FromModel, FromNames, FromWrite
<1>3. Named
  BY <1>2, LoadedIs
<1>4. Startup!Contact => /\ DOMAIN anchors = DOMAIN placements
                         /\ \A c \in DOMAIN anchors : anchors[c] = placements[c].station
  BY <1>2, <1>3, AnchorsMatch DEF Loaded
<1>5. /\ step' = "published" /\ reason' = reason
      /\ UNCHANGED <<way, vehicle, record>> /\ UNCHANGED anchors /\ UNCHANGED arrangement
      /\ UNCHANGED station
      /\ UNCHANGED <<arrangement, station, state, nominal, placements>>
  BY <1>4, Zenon DEF Startup!Publish, Startup!given, Startup!system, Startup!context
<1>6. Loaded' /\ Anchored' /\ Laid' /\ Matched' /\ Stationed' /\ Written'
  BY <1>2, <1>5, TheFoundStay
<1>7. QED
  BY <1>5, <1>6 DEF StartupInv, FromLoad, FromTopology, FromModel, FromNames, FromWrite

LEMMA StartupSteps == StartupInv /\ Startup!Next => StartupInv'
BY LoadKeeps, TopologyKeeps, BindContactKeeps, BuildModelKeeps, IdentityKeeps, NamesKeep,
  CoverKeeps, WriteKeeps, PublishKeeps DEF Startup!Next

LEMMA TheRecordIsThere == StartupInv => Startup!ContextIsTheRecord
<1> SUFFICES ASSUME StartupInv
             PROVE  Startup!ContextIsTheRecord
  OBVIOUS
<1>1. reason \notin {"cover", "anchors"}
  BY DEF StartupInv
<1>2. CASE step # "published"
  BY <1>1, <1>2 DEF Startup!ContextIsTheRecord
<1>3. CASE step = "published"
  <2>1. /\ Loaded /\ Anchored /\ Laid /\ Matched /\ Stationed /\ Written
        /\ vehicle \in Vehicles /\ record \in Records
    BY <1>3 DEF StartupInv, FromLoad, FromTopology, FromModel, FromNames, FromWrite
  <2>2. Named /\ Distinct /\ Startup!LayoutHolds
    BY <2>1, LoadedIs DEF Loaded
  <2>3. QED  BY <1>1, <2>1, <2>2, ThePublishedIsTheRecord
<1>4. QED  BY <1>2, <1>3

LEMMA StartupMoves ==
  [MCNext]_<<atWork, vars, modelVars, trackVars, startupVars, closureVars>> =>
    UNCHANGED atWork /\ (atWork = "startup" => [Startup!Next]_startupVars)
BY DEF MCNext

\* Whatever the definition and the record say, in whatever order the model lays its
\* coordinates out, and for any carriers and interfaces, a context that is published
\* holds the record's statement of every element of the vehicle in that element's slots,
\* and the checks of the slots and of the anchors refuse nothing that reaches them
\* (AssembleResolvedInitialContext, RequireAnchorsMatchResolvedPlacements).
THEOREM ContextIsAlwaysTheRecord == MCSpec => [](atWork = "startup" => Startup!ContextIsTheRecord)
<1> DEFINE I == atWork = "startup" => StartupInv
<1>1. MCInit => I
  BY StartupStarts DEF MCInit
<1>2. I /\ [MCNext]_<<atWork, vars, modelVars, trackVars, startupVars, closureVars>> => I'
  BY StartupMoves, StartupSteps, StartupStays
<1>3. I => (atWork = "startup" => Startup!ContextIsTheRecord)
  BY TheRecordIsThere
<1>4. QED  BY <1>1, <1>2, <1>3, PTL DEF MCSpec
=============================================================================
