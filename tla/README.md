# OpenRailVehicleDynamics: models, checks and proofs

OpenRailVehicleDynamics integrates the equations of motion of rail vehicles on
wheel-rail contact, some of them with a guidance controller in the loop, and shows
recorded or running simulations in a browser. Most of its code is numerical: it
computes forces, kinematics and contact from real numbers and keeps no state. This
directory is mostly about the rest, the code whose mistakes no numerical reference would
show: caches that must not serve an old number, transactions that must be whole
when anything in them throws, a controller and an integrator that must see the same
torques, a step grid that must stay on its clock, threads that reuse each other's
buffers, outputs that must be whole or absent, and a stream that must never show an old
state.

Contents: [parts of the system](#parts-of-the-system), [plan](#plan),
[modules](#modules), [runs](#runs), [fairness and stops](#fairness-and-stops),
[proofs](#proofs), [what is not modelled](#what-is-not-modelled),
[running the tools](#running-the-tools).

Paths are relative to the repository root, which the map in `PROJECT.json` calls
`src/`. `EXP` is `experiments/irw_crossline_r300_r600_r800_v60_v80_v100_full_state_guidance`,
`WEB` is `apps/scene_viewer_web`, `QUAL` is `tools/dynamics_qualification`, `WRC` is
`libs/wheel_rail_contact/src`.

## Parts of the system

The solver is a pile of libraries in one thread, except for two OpenMP loops. At the
bottom a runtime context
holds versioned state and caches; above it the system right-hand side fills a
derivative from a context, with the wheel-rail contact as its most expensive and most
cached part; a numerical backend steps an initial value problem; the
system advancer turns internal steps into one accepted advance; a control session
changes held torques between advances; an experiment or tool drives all of it and
writes files. The viewer is a second program: a Node server receives UDP datagrams
from a running solver (or a replayed record) and forwards whole messages to browsers.

### Core parts

**Versioned state and caches** (`libs/multibody_runtime`). *State*: the sources of a
`MultibodyStateInstance` (positions, velocities, fixed frame poses, body inertias,
actuator parameters), each with a version that counts writes; `VersionedCacheSlot`s,
each with a value in storage it never gives back, an optional snapshot of the versions
it was committed under, and a recomputation count. *Operations*: setters, which write
one or two sources; `EvaluateVersionedCacheSlot`, which recomputes a stale slot in
place and commits it, or throws. *Interaction*: a slot calculator evaluates other slots
and keeps references into their storage. *Hard*: nested evaluation with exceptions,
dependencies declared by hand in types, in-place recomputation under a borrowed
reference, counters at their ceiling. *Correct when* a slot that calls itself fresh
holds what a cold evaluation would compute.

**Rigid-tree workspace** (`external/drake_mbtree`): the eleven slots of a multibody
tree, their declared dependency sets and their calculators in `MultibodyTree`. *Correct
when* each declaration covers everything that reaches the value, through other slots too.

**System advancer** (`libs/integrators/src/system_continuous_state_advancer.cc`).
*State*: the accepted context (the client's, by reference), a candidate context which is
also the one the backend's right-hand side writes trials into, a candidate state
vector, the backend's own endpoint, `requires_synchronization_`. *Operations*:
`AdvanceTo`, `AdvanceToWithDenseStateSamples`,
`SynchronizeAfterAcceptedContextChange`. *Hard*: any of about ten calls inside an
advance may throw with half of that state moved; the client changes the accepted
context behind the advancer's back; the projection hints of the wheel-rail contact are
memory between steps. *Correct when* an advance is a transaction for its client.

**Numerical backends** (`libs/integrators`): CVODE, RADAU5 and the coordinate cores of
Newmark and Zhai behind one interface, `ContinuousStateAdvancer`. *State*:
endpoint, dense-output interval, usability; the coordinate backends add a step grid and
a step recovery. *Hard*: the policy and the core decide separately whether an endpoint
is "one step away", with rounding; retries; a core ahead of the endpoint published; the
derivatives and the step before, kept in a core across projections, failures and
reinitializations.
*Correct when* each backend is the stepper the advancer takes it for.

**Guidance control session** (`EXP/irw_guidance_control_event_session.*`,
`irw_guidance_control_transaction.cc`). *State*: phase, ordinal of the next event,
controller and conditioner memory. *Operations*: initialization update, scheduled
update, readiness and confirmation. *Interaction*: reads and writes the accepted context
the advancer also owns; tells its driver, who tells the advancer. *Hard*: failed events,
events out of time, a forgotten synchronization. *Correct when* session and advancer
together are a plant under sampled control with a zero-order hold.

**Guidance experiment run** (`EXP/irw_guidance_experiment_run.cc`): the loop over
control intervals, a second runtime context for observation, three files and a
published directory. *Hard*: three index conventions, one context kept in step by hand,
many early ends. *Correct when* the published files are the trajectory, whole.

**Live stream receiver** (`WEB/src/stream/receiver.ts`, `protocol.ts`,
`WEB/server/server.ts`). *State*: partial messages, runs, the run on display. *Hard*:
everything UDP does; bounded memory; several runs at a time. *Correct when* the display
never goes back, never shows a state under a wrong description, and memory is bounded.

**Live stream clients and live view** (`WEB/server/client.ts`, `WEB/src/live`,
`WEB/src/App.tsx`). *State*: per connection, the message being sent, the latest state
waiting and the run described last; in the page, the socket or the timer for the next
one, the description, the resources loaded for it, the state that waits for them, the
last state accepted, the run whose content was wrong, the scene. *Interaction*: messages
in one direction over a socket; callbacks into the page. *Hard*: sockets, timers and
resource requests end in any order, and any of them may belong to a connection, a run or
a page that is no more. *Correct when* a scene is only fed what belongs to it, never
goes back while the watermark is of its run, and catches up with the server.

The page's `LiveController` (`WEB/src/live/live_controller.ts`) buffers the samples that
pass `LiveConnection` and chooses the interval shown. *Hard*: pauses, lost connections and
a bounded buffer under a display that runs on its own clock, and a watermark that it shares
with every other run. *Correct when* it interpolates between samples it was given, stands
while paused, and goes back only where no watermark vouches for what is shown.

**RADAU5** (`external/radau5/src/radau5_core.cc` and
`libs/integrators/src/radau5_continuous_state_advancer.cc`) and **CVODE**
(`libs/integrators/src/cvode_continuous_state_advancer.cc`). *State*: endpoint, Jacobian and
factors with what they were made for, the cause of the last rejection; for CVODE what the
kernel holds beside what is published, and the exception of a callback. *Hard*: matrices
that outlive their step, several retry budgets in one call, callbacks that fail
recoverably and are remembered. *Correct when* each is a stepper, solves the system it
means to and throws what made it fail.

**Finite-difference Jacobian workers**
(`libs/integrators/src/system_continuous_state_backend.cc`): a team of threads over
columns. *State*: a runtime context per thread, with hints, held inputs and contact
results of earlier columns and batches. *Hard*: any order, any thread, failures in some
of them. *Correct when* every column is what a lone loop in fresh contexts would compute.

**Wheel-rail contact force plan** (`libs/forces/src/wheel_rail_contact_force_plan.cc`),
**contact geometry and patch length** (`WRC/contact_geometry.cc`,
`WRC/wheel_rail_contact_model.cc`). *State*: a workspace, with buffers that are not
cleared, results kept under a key, stamps. *Hard*: the second team of threads, failures
left in slots, keys that must hold all that a result depends on. *Correct when* what came
before in a workspace cannot be told from the answer.

**Output directories and failure reports** (`QUAL/atomic_qualification_directory.cc`,
`QUAL/qualification_run_accounting.cc`, the same protocol in the experiments and in
`tools/simpack_realtime`). *State*: the file system. *Hard*: several processes, kills, a
user who clears up. **Scene record** (`libs/scene_record`): two growing tables and a
document renamed into place last. *Hard*: buffered writes that fail or are cut off.
*Correct when* whatever a reader takes for whole is whole.

**State stream sender** (`tools/state_stream`): fragments messages to several
destinations over a nonblocking socket within a retry budget. *Correct when* every
datagram is accounted for, in time.

**Qualification runs** (`QUAL`): a guided run with the same session and a ledger of the
backend's work, and passive runs that advance once and observe afterwards. **SIMPACK
realtime** (`tools/simpack_realtime`): a caller around an external solver, and two
programs that drive it. *Hard*: what was observed under which torques, work counted over
epochs that failures cut off, inputs an external solver keeps. *Correct when* what they
write tells what the vehicle did.

**Multibody model construction** (`libs/multibody_model/src/multibody_model.cc`).
*State*: bodies, frames, joints, a union-find, a stage. *Hard*: the order in which a
caller describes a vehicle is free, every refusal has to leave the model as it was.
*Correct when* the relations form a forest at all times and a finalized model is the tree
that was described.

**Start-up assembly** (`libs/configuration/src/assemble_resolved_initial_context.cc`,
`assembled_vehicle_contact_scenario.cc`). *State*: none; two documents that name the same elements in any order
become the slots of a context, in an order neither knows. *Hard*: a slot no statement
reaches keeps a default that nothing questions. *Correct when* a context that is published
holds every statement in its slot.

**Track geometry** (`libs/track_geometry`). *State*: none after construction; profiles over
the station, with windows that smooth their boundaries, and the nodes the line is
integrated on. *Hard*: windows that meet, overlap or leave a segment; integrals, supports
and bounds that have to agree with the profile; stations before and behind the definition.
*Correct when* a line that is built is the one declared.

**Force elements and active torque** (`libs/forces`, and the part of
`libs/system_assembly` that calls them). *State*: one buffer of wrenches in disjoint slices.
*Hard*: frames on turning bodies, signs, a throw between two slices. *Correct when* every
pair of wrenches balances and does the work of its law.

**Cruise session** (`libs/configuration/src/irw_longitudinal_cruise_event_session.cc`, with
the PI controller of `libs/control` and the torque conditioner of `libs/actuation`).
*State*: phase, integral and filter of the controller, the torque of each drive, the
torques held in the accepted context. *Hard*: two sides with different rates in one
period, speeds between and beyond the nodes of a table, an event tried again. *Correct
when* the torque held goes exactly as far as request and drive allow, once per event.

**Guidance law and operating points** (`libs/control/src/irw_full_state_wheel_speed_guidance_controller.cc` and the schedules in
`EXP`). *State*: of each
axle two filters, an integral and the last command, of each wheel a PI controller. *Hard*:
tables over the station with different nodes, signs of mirrored wheels, limits that bite
in filters and integrals. *Correct when* the law knows no side, only redistributes, and
the lines it is compared on agree where they should.

**Tables and the scripts that read them** (the row writers of all programs;
`EXP/plot_irw_guidance_experiment_response.py` and the comparison script). *State*: files.
*Hard*: a header in one function and its row in another, values out of arrays in the
order of somebody else, signs turned on the way. *Correct when* under each name is what it
names.

**Reporting receiver** (`libs/scene_stream/receive_state_stream.py`). *State*: pending
messages, known runs, a report of each. *Hard*: as for the live receiver; its counts have
to add up whatever was lost. **Source closure**
(`tools/drake_source_boundary`). *State*: a stack of files. *Hard*: a file reached first by
one kind of edge, and then by another. *Correct when* the verdict does not depend on the
order of the walk.

### The rest

Contact laws, irregularity, equilibrium, the multibody formulas: pure functions of
immutable plans and real numbers. Document loaders, scene observation, exports and the
viewer's user interface: parsing, formatting and drawing. Other boundary checks, packaging:
build time.

Every part is a row of `components` in `PROJECT.json`, with its status. What is hard to
test in each, line by line, is `hazards` there, with the properties that cover it.

## Plan

Order of importance: a wrong cached number makes every result wrong; a broken
transaction makes every restart wrong; a wrong torque makes one experiment wrong; a
wrong picture makes one picture wrong.

| # | modules | abstract specification | status |
|---|---|---|---|
| 1 | `VersionedCache` | cold evaluation (a state function) | modelled, checked, proved |
| 2 | `SystemAdvancer` over `Trajectories` | `AcceptedAdvance` | modelled, checked, proved |
| 3 | `GuidanceLoop` over `AcceptedAdvance` | `SampledDataLoop` | modelled, checked, proved |
| 4 | `GuidanceRun` over `GuidanceLoop` | `GuidanceLoop` itself | modelled, checked, proved |
| 5 | `CoordinateAdvancer` | `InternalStepper` | modelled, checked, proved |
| | `CoordinateCores` | the derivative of a point (a state function) | modelled, checked, proved |
| 6 | `StreamReceiver`, `LiveController` | `StreamFeed` | modelled, checked, proved |
| 7 | `LiveView`: server client, socket, resources, reconnection | the scene shows one coherent run, follows its watermark and catches up | modelled, checked, safety proved |
| 8 | `OutputDirectory`, `SceneRecord`: processes, a shared file system, kills | `Publication` | modelled, checked, proved |
| 9 | `JacobianWorkers`, `ContactForcePlan`, `ContactGeometry`, `LongitudinalLength`: what evaluations reuse | `ContactForces`; a cold evaluation | modelled, checked, proved |
| 10 | `StateSender`: fragments, destinations, retry budget, signals | every datagram accounted for in time | modelled, checked, proved |
| 11 | `Radau5Core`, `CvodeAdvancer` | `InternalStepper` | modelled, checked, proved |
| 12 | `QualificationRun`, `SimpackRealtime`, `PassiveRun` | `SampledDataLoop`; the run as it was | modelled, checked, proved |
| 13 | `MultibodyModel` | `ModelForest` | modelled, checked, proved |
| 14 | `CruiseSession`, `GuidanceLaw` | how far a drive gets in a period; symmetry | modelled, checked, the first proved |
| 15 | `ForceElements` | balance and power (state functions) | modelled, checked |
| 16 | `StartupAssembly`, `TrackGeometry`, `SourceClosure` | what was declared | modelled, checked, the first and the last proved |
| 17 | `RunTables`, `ReportingReceiver` | what a column names; the sequence numbers | modelled, checked, the second proved |

What no theorem states yet, and why, is at the end of the chapter on proofs.

## Modules

A module that describes code has one action per operation or, where an operation calls
things that can fail half way, one per place it can leave. An exception is an action;
a call refused before anything is written is no step. An `MC` module gives constants
their values, and some put several components side by side, of which the initial state
chooses one: the others stay as they are, so the states of such a run are the sum of
theirs and not the product, and each component keeps its own properties. A `Proofs`
module only proves; `VersionedCache` and `ContactForcePlan` carry their own proofs. A
definition introduced as a slip the code does not make is used by no specification: it is
what `mutants` in `PROJECT.json` puts in the place of the right one.

### `VersionedCache`

One evaluation context. `content` and `version` are the sources, `Write` the setters
(all successor versions are computed before anything is stored, so it is one step or
none). A slot is `committed`, `snapshot`, `buffer` and `count`. `calls` is the C++ call
stack of evaluations under way, `before` the versions each frame captured, `progress`
how many borrows it has made. `EvaluateVersionedCacheSlot` is cut where another party's
code runs: `Evaluate` or `BorrowStale` enters a stale slot, `BorrowFresh` is an
evaluation that returns at once, `Calculate` fills the storage, `Commit`,
`GuardRefuses`, `CountRefuses` and `CalculatorThrows` are its four ends. A write is
possible in the middle of a calculator: the code forbids it in prose and detects it with
the guard.

A value is abstracted to what it was computed from: for each source the set of contents
that reached it. A right value holds one content per input, the present one; a value
mixed from two moments holds two, half-written storage none. `DependenciesCover` is the
obligation the slot types discharge; the second half of the module transcribes all eleven
declarations, what each calculator reads and what it takes out of what it borrows, and
`TreeIsCovered` evaluates the obligation on all eleven.

Joint damping and force-element parameters are outside: they have no version, and no
tree slot depends on them.

### `Trajectories`, `AcceptedAdvance`, `SystemAdvancer`

`Trajectories` is data: integer instants, states, context-local data (held torques,
nominal forces, damping), and an exact `Flow`. The flow composes over time and is
otherwise arbitrary, so two states are the same only if they started in the same place
and were integrated under the same data: accuracy is not modelled, where a trajectory
starts and which data it saw is. The projection hints of a context are the state whose
projections they are. All hints are computed before the first is stored, so a single
state is enough.

`AcceptedAdvance` is the promise of the header: an advance is one step that moves the
accepted context and the samples together, or a failure that moves neither and blocks.
The client may change the context at any time and `unsynchronized` remembers it; what is
promised about the trajectory is promised while it is false.

`SystemAdvancer` is the implementation. `Advance` starts a call, `BackendSteps`,
`InstallEndpoint` (with the dense samples the step answers), `UpdateHints`, `Commit` are
its statements, `BudgetExhausted`, `BackendFails`, `EndpointRefused`, `InstallFails`,
`UpdateHintsFails` its exceptions. A trial of the right-hand side leaves the candidate
context at `Trial`, a state of nobody's trajectory. `Recopy` is the body of the
synchronization up to its only call that can throw.

### `SampledDataLoop`, `GuidanceLoop`, `GuidanceRun`

`SampledDataLoop` says what a controlled simulation means: one event on each instant of
the grid turns state and memory into torques and memory; in between the plant moves
under the torques of the last event. `GuidanceLoop` composes the session's five phases
with the advancer, the latter by the actions of `AcceptedAdvance`. Its caller may do
anything the session permits, retry anything that failed, and keeps four rules named at
the head of the module, which `GuidanceRun` then is shown to keep. The controller, the
conditioner and the event observation are one function `Control`.

`GuidanceRun` is `RunIrwGuidanceExperiment` from the construction of the session to
publication, a program counter `stage` over its statements, with the three files as
sequences of rows. A row carries the context it was calculated from, since what could go
wrong is which context that was. An instant is an observation period.

### `InternalStepper`, `CoordinateAdvancer`

`InternalStepper` is the contract `ContinuousStateAdvancer` states: a step moves the
endpoint, a failure leaves it and closes the stepper. `CoordinateAdvancer` is
`BasicCoordinateAdvancerImplementation` with the Newmark recovery policy: `Begin`
chooses the first attempt of a call, and then the core's outcome is `Reject` or `GiveUp`
(Newton iterations exhausted), `Publish`, `ExportFails` or `CoreThrows`. Instants are
integers and added exactly; `Rounding` is what the code forgives as clock rounding, and
it is what makes the two decisions, the policy's and the core's, differ by more than a
name. With exact addition a step never vanishes in the clock, so that refusal of the
policy does not arise. Interpolation inside the dense interval is arithmetic.

### `CoordinateCores`

The core that `CoordinateAdvancer` drives, seen from within: the storage both methods
share (`CoordinateCoreState`), what each does between the guess and the commit, and the
owner's synchronization, which hands it a new point and new inputs. A point is told by how
it was made, with the norm of its quaternions, which a projection restores; a derivative
is the point and the inputs it was evaluated at. `before` is the point accepted before,
which the code keeps only through what it was evaluated to. `CoreHoldsItsPoint` and
`TwoStepsAreOneHistory` compare what the core holds with what it should have been
evaluated at; their slips are an evaluation that is not repeated after a projection, a
history rolled after the commit, and intervals compared by the clock, which the comment at
`zhai_core.cc:21` warns of.

### `CruiseSession`

The cruise event session with its phases, the PI controller, the conditioner of one wheel
on integers (the side a request falls on, the row of its table at a speed, and the move of
the drive torque within a period by every branch of `AdvanceSignedDriveSideTorque`), and a
vehicle that turns the wheel at any of `Rates`. A periodic update that fails leaves the
phase and nothing else. `HeldTorqueObeysTheDrive` says, without the branches, how far a
drive gets in a period (`Reaches`), that the torque held is the farthest such on the way to
the target, and that torque is only raised as asked and within the table. The conversion
to the wheel, by ratio and efficiency, is left out. As in the code, the wheel speed the
conditioner is given has the opposite sign of the speed the controller sees.

### `GuidanceLaw`

`Step` is one sample of the recurrence: the filtered rates of yaw and lateral displacement,
the integral of the lateral error, the command of each axle and its filter, the reference
speeds of its wheels, and the PI controller of each wheel with its limit.
An operating point comes from one of four sources: the schedule of the cross line with its
tables over station, speed and curvature, a single curve with full-state guidance, the arm
without any gain, and the fixed configuration. The vehicle is any: at each sample it may
be further along by a stride and be measured as any of `Measured`. The properties compare
runs of the law: with its mirror image (`LawIsMirrorSymmetric`), with the mean the line
asks for (`GuidanceOnlyRedistributes`), and between sources on the stretch on which runs
are compared (`CurveIsTheFirstOfTheLine`). All numbers are integers; a filter truncates.

### `ForceElements`

One evaluation after another over one buffer. `plan` is the collection of elements
accepted; `step` walks the families of `VehicleForcePlan`, then the slice of the contact,
which is opaque, then that of the drives, and leaves at every place at which the code
throws, with the buffer as far as it got. Vectors are triples of integers, rotations
integer matrices over a common denominator, chosen so that the quotients the code takes are
whole. `PairsDoTheWorkOfTheirLaws` knows no formula of an element: it takes moments about
the origin and power from the motion of the bodies, so it sees a lever arm taken at the
wrong end, a frame not turned with its body, and a swapped sign.

### `Radau5Core`, `CvodeAdvancer`

Both implement `InternalStepper`. In `Radau5Core` `Call` is a call of the adapter and
`Trial` one trial of the core: the evaluation at the endpoint, the Jacobian (column by
column, each with its retries of the perturbation), the factors, the Newton iterations and
the two error estimates, each of which may end the trial, the call, or both. `jacobian`
and `factors` are what the core notes of them, `matrices` is the step the storage really
was factored for: a singular factorization spoils it.
`SolvesTheRightSystem` compares the three when a Newton iteration uses them. `thrown` is
what the caller sees, `pending` what a retry would report, and `ThrownIsTheCause` compares
them with what happened last. Instants and steps are integers and a step of length 0 is
one that is too small; what the step controller computes is any step within its bounds.

`CvodeAdvancer` is the adapter only. The kernel is SUNDIALS: between `Advance` and its
return it may take any callbacks (`EvaluateRhs`, `EvaluateDenseJacobian`) with any
answers, step (`KernelSteps`) or give up (`KernelFails`); it does not go on after a fatal
answer. A step of the kernel that is not published leaves the two apart, and the adapter
blocked. Its instants are exact.

### `QualificationRun`, `PassiveRun`, `SimpackRealtime`

`QualificationRun` is the guided qualification run with an event session of its own
kind: an initialization recurrence and the first event at the same instant, before there
is a backend. As in `GuidanceRun` a row carries the context it was calculated from.
`ledger`, `counters` and `performed` are the work: what the ledger states, what the backend
counts since its start, and what was really done; `report` is the failure report. Of the
eight counters two are kept, one that every advance moves and one that a start may move
too.

`PassiveRun` is `RunVehicleQualification`: one advance, then one sample after the other is
installed in a second context. A state is the stations its bodies ride at and the patches
under its wheels; the program sees places, and a line may pass a place twice, so a
projection needs a seed near the station it is to find, which is the sample before
(`seeds`). `FollowsTheLine` is what is assumed of a run: seeded where a carrier or body was
a sample ago, the projection of where it is now finds that station or is lost. That is the
contract of `ProjectPointOntoSeededBranch` (`track_geometry.h:134-147`) as long as the samples
lie closer together than the branches of the line; nothing is assumed of any other seed,
so a run that carried the wrong one along would show. `Observe` is the body of the loop: projections, rows of patches, spells without
contact, first use of the line beyond its ends. The check of the dense batch before the
loop holds of what `AcceptedAdvance` promises.

`SimpackRealtime` is the direct caller and the two programs that drive it. The solver is
external: `plant` moves under the inputs it was last given, by `Communicate` or at the
start. `program` says which loop runs; they differ in when they communicate, in when they
stop and in which samples they write.

### `OutputDirectory`, `SceneRecord`

`OutputDirectory` models system calls. A process looks for the output, makes the
sibling `.partial` directory, writes its files one after the other, looks again and
renames; a qualification run whose integration fails does the same with a report. Between
any two calls others run, a process is killed (`Kill`), a stranger creates a directory,
or a user removes one. The three programs differ where the code does. It implements
`Publication`: one result or none, whole, at once, for good.

`SceneRecord` is the writer, and what a reader accepts. Each table has what is on disk,
what is in the stream buffer and the state of the stream; a write moves some units from
one to the other (`Drain` at any time), or fails part of the way and leaves the stream
bad. A row of values is two units so that it can be torn. Without scalar definitions there
are no status rows; that case has less to go wrong and is left out.

### `JacobianWorkers`, `ContactForces`, `ContactForcePlan`

`JacobianWorkers`: `source` and `worker` are contexts with hints, held inputs and kept
contact results. `BeginBatch` copies what the code copies, `Take` gives a thread any
column left, `Calc` evaluates the wheels through the kept results, `EndBatch` collects the
failures. A kept result is the key it was kept under and the input it was calculated from.

`ContactForcePlan` is one workspace of the plan. `Call` asks one of three questions; the
steps of a call are the projection of each carrier, the kinematics, the loop or the team
(each thread of which has its static share of the wheels, and goes on with it after a
failure), the failure of the lowest wheel, and the output, in the order of the code. The mechanics are functions that
the instance gives: where a hint leads, at what a wheel is evaluated, what that ends in.
`Seed` fills the kept results as a Jacobian thread does. It implements `ContactForces`, in
which a reply depends on the question alone; the reply of a failing call is that of the
serial loop over cold storage, so this is also the statement that the failure reported
does not depend on threads.

### `ContactGeometry`, `LongitudinalLength`

`ContactGeometry` follows `ContactGeometrySolver::Solve` over a workspace: the stamped
bins of the envelope, runs, islands and their merging, the refinement on a grid of
stations, the choice of patches, and the patches kept for the last pose in
`WheelRailContactModel::Evaluate`. It is written as functions from workspace to workspace.
The reference, `Promised`, has no bins and no stamps: the envelope is a maximum over the
outline, the grid is the nodes of both profiles in order, the islands are the maximal runs in
contact, two of which are one where no deep valley is anywhere between them, and the patches
are the first by where they begin. Lengths are integers, the cubic between envelope points is
a line. What projects a wheel is a constant, `Outlines`: any samples whose span the bins of
the model are enough for (`GeometryAssumption`).
`LongitudinalLength` is the search for the longest chord, station after station from the
deepest, with screening; the reference resolves every station.

### `ModelForest`, `MultibodyModel`

`ModelForest` is the promise: at any time the relations stated form a forest whose trees
are known, and a finalized model is one tree of exactly those relations. `MultibodyModel`
has the union-find with its representatives, the frames, the joints, the free bodies and
`Finalize`, which turns free bodies into joints under private names and hands everything to
an external rigid tree that grows from the world. Every refusal is an action or the
absence of one, as the code leaves the model usable or not.

### `StartupAssembly`, `TrackGeometry`, `SourceClosure`

`StartupAssembly` takes a vehicle definition, a resolved state and the arrangement the
model happens to give the coordinates, and goes through the checks of the code in their
order: the documents, the topology and profiles the contact is closed over, the names of the
model, the identity and gravity of the record, the names of its entries, the cover of the
slots, the anchors of the carriers. Each refusal has its reason. What is written is written to
the slot an element has in the arrangement. `ContextIsTheRecord` also says that the two
structural checks at the end never refuse.

`TrackGeometry` builds the three profiles one after the other, each from segments and the
windows on their boundaries, with every refusal; then the nodes of the line. Values are
multiples of 1/`One`, so that quintics and their integrals are exact; a root is known to
the next station. `LineIsAsDeclared` compares with the document: values outside the
windows, continuity of value and slope, heading and height as integrals, bounds, and
intervals that straddle no change of formula.

`SourceClosure` reads the ledger line by line, then walks. A file may be looked at twice,
once as the implementation of a header and once as included; the verdict is that of the
tree.

### `RunTables`

A column is `<<subject, quantity>>`, a value the set of readings it is the sum of: whose, of
what, when, with which sign. Headers and rows are two definitions per table, as they are two
functions in the code. Five programs write: the experiment, the guided and the passive
qualification run, and the two co-simulations; `Bind` is their resolution of names against
a contact plan, torque channels or a solver's listing, in the closed order or with two
neighbours exchanged. Three kinds of reader look columns up by name: the two scripts, the
published contract of physical observations, and the solver's inputs. `Truth` says what a
name means without any of these orders. Since a value is a set of readings, sums are
unions: a reading added twice is not told from one added once, but the rows of patches are
also shown to be distinct.

### `StreamFeed`, `StreamReceiver`

`StreamFeed` is what a client of the server may rely on. `StreamReceiver` takes any
datagram of any message at any time; each outcome of `feed` is an action (`Collect`,
`Conflict`, `AcceptDescription`, `HoldState`, `AcceptState`, `Refuse`; a datagram that is
outdated or repeated is no step). The two `Map`s keep their insertion order as sets of
pairs. `Content` says what a message's body decodes to, a layout or nothing.

A run that was retired and later evicted is forgotten, and a late description registers
it as new: the properties speak of registered runs only, as the code's own comments do.

### `ReportingReceiver`

The other receiver, in Python. `recent` orders the runs by when they were last heard of,
`known` holds their reports, `pending` the messages under way. Each outcome of `receive` is
an action; the listening loop ends at its limit of states, at a timeout or when something
raises. Where the live receiver keeps a state until its description comes, this one counts it
as unbound and hands it on. `ReportAddsUp` relates the counts; `LanesMoveForward`, that no
message older than the last is ever observed, is part of `StreamFollowsItsWatermarks`.

### `LiveView`

One browser. `shown` is what the receiver of the server holds and moves as `StreamFeed`
allows (`Feed`); `client` is the server's `StreamClient`, whose `flush` is a function on
records since it runs to its end inside `publish` and inside the callback of `send`;
`wire` is what was sent and has not been received. The other variables are the fields of
`LiveConnection` by their names, except that `link` and `retry` stand for `socket` and
the timer, and that the generation counter and the abort controllers are told by each
request in `loads`: whether its generation is the present one and whether it was aborted.
`view` is the scene in `App.tsx` and whether it is fed. Each early return and each throw
of `acceptDescription` and `acceptState` is an action; whatever throws inside
`onmessage` goes to `fail`, so the throwing ones end in `Block`. A state is its run and
sequence, `TimeOf` its time; the layout is everything a description and a state must
agree in. The retry delay and the status line are left out. What the server sends between the page's `close` and its
own notice is lost in the model too.

### `StateSender`, `LiveController`

`StateSender` sends each datagram of a message to each destination in turn. `Send` is a
system call with any of its outcomes, `Tick` the clock. A destination that blocks may use
up the budget of the ones behind it, as the code intends: what it owes is an account of
each datagram, sent or failed, and an end in time.

`LiveController` lies behind `LiveConnection`, whose watermark is its variable `lastState`:
the state accepted last, or `NoState` when that was a state of another run. While it is
connected, samples arrive in the order of their sequences and times (`Arrive`). A description
of another run disconnects this one, but `App.tsx` keeps it on display until the other is
ready; a state of the other run that is accepted meanwhile overwrites the one watermark there
is (`AcceptOther`, `live_connection.ts:128`). `Accept` is a state of this run that waits for
its resources. A new connection begins with any state of the run that `acceptState` lets pass
(`Passes`), and that is any state at all when the watermark is another run's
(`live_connection.ts:122`); `reconnect` itself checks nothing (`live_controller.ts:61-69`).
`Advance` is an animation frame, at which `now` has moved on; what is displayed is an interval
of two samples and an instant between them.

So the display can go back, and `DisplayFollowsTheWatermark` says exactly when. `Ahead` is what
is shown and no state accepted since vouches for it. The display gets there only by a wiped
watermark, not by pauses, evictions, replaced samples, or reconnections of its own; it goes back
only from there; and when it does, it shows the newest state, not some instant on the way.

## Runs

Every run checks a different question; `about` in `PROJECT.json` says which. Every
property has a slip of the code in `mutants` under which the same run reports it violated.

| run | module | states | checks |
|---|---|---|---|
| `cache_inertia` | `VersionedCache` | 4.5 M | fresh is cold, what is borrowed stays fresh |
| `backends` | `MCBackends` | 231 k | three backends implement `InternalStepper`; the core takes every attempt and holds its point and history; the right system; the true cause; calls end |
| `controlled_runs` | `MCControlledRuns` | 220 k | the session implements `SampledDataLoop`, and so do the three controlled programs; torques obey their laws; files, tables, scripts and contracts tell the run; the work stated is the work done; the experiment ends |
| `evaluations` | `MCEvaluations` | 431 k | columns, contact forces, patches, lengths and wrenches are those of a cold evaluation, alone; pairs balance and do the work of their laws |
| `run_outputs` | `MCRunOutputs` | 668 k | one output or none; what can be read is whole; datagrams accounted for; both receivers; the display and the report follow their watermarks; a publication returns |
| `construction` | `MCConstruction` | 534 k | `SystemAdvancer` implements `AcceptedAdvance`; `MultibodyModel` implements `ModelForest`; contexts, lines and closures are those stated |
| `live_view` | `LiveView` | 1.7 M | a scene is fed and made of what is described; watermarks; a page left stays left |
| `live_view_two_runs` | `LiveView` | 124 k | two runs in turn: catches up |
| `live_view_goes_back` | `LiveView` | violated | two runs: the scene goes back |

Where a run has several components, a property of it may be the conjunction of one of each:
`TorquesObeyTheirLaws` of cruise session and guidance law, `OutputsTellTheRun` of the rows of
each program and of the four properties of `RunTables`, `GeometryIsOfThePose` of
`PatchesAreOfThePose` and `ScreeningChangesNothing`, `StreamFollowsItsWatermarks` of
`DisplayFollowsTheWatermark` and `LanesMoveForward`, `BuiltAsStated` of the three of start-up,
line and closure.

`live_view_goes_back` is the one disagreement found. `LiveController.reconnect` says its
first sample has passed "persistent sequence and time watermark checks", and takes any.
`LiveConnection` keeps one watermark, that of the run whose state it accepted last, and
`App.tsx` keeps the scene of a run until another run is ready. A run that is described
and sends a state, and gives way before its resources have loaded, wipes the watermark
of the run that is still on the page; if that run is then announced with an older state
(the server restarted or had evicted it, and a delayed datagram was the first to come),
the scene goes back. `WatermarkHolds`, in `live_view`, is what does hold: while a run is the
one whose state was accepted last, only newer states of it are. `LiveController` has the same
watermark, and the display built on it goes back in the same case and in no other.

The bounds, and why they are enough:

* *Caches*: two contents per source tell a stale value from a present one (they are
  symmetric: no definition names one). `MaxVersion` 2 and `MaxCount` 2 let a source move
  twice during one evaluation, let an old snapshot meet a version that wrapped, if one
  could wrap, and put both counters at their ceiling. The inertia slots are the smallest
  set in which one slot borrows two others and takes a part of a value; the obligation on
  all eleven slots is `TreeIsCovered`, and the theorems take it from there.
* *System advancer*: horizon 3 and a budget of two internal steps give advances of one
  and two steps, samples inside either and on the boundary, and an exhausted budget; two
  local values tell old torques from new.
* *Runs under control*: the experiment has two control intervals after the
  initialization, of three instants each: three events, a first, a middle and a last,
  with samples inside each interval. The qualification run has three intervals of two
  samples behind its initialization, the co-simulation three of two, decimated by two, so
  that rows fall on events and between them. `MostWork` 2 tells a call that worked from
  one that worked more. Small state counts are the nature of a sequential program: what
  branches is where it fails.
* *Passive run*: four samples, two carriers with a body between them, and a line whose
  first three places are passed again six stations later. The vehicle rides either way, by
  one or two stations, so it gets beyond either end and onto the second passage; a seed
  two samples old is out of reach.
* *Coordinate advancer*: a nominal step of 16 instants is the shortest whose allowance
  `h / 16` forgives an error of one; two halvings reach the floor 4; the horizon has
  more than two nominal steps, so the grid restarts with steps of each length behind it.
* *Cores*: intervals of one nominal step and of half of it, and a horizon of four halves
  and a bit, so that a normal step follows a start-up one and is followed by another
  length; one correction, two norms and two inputs, so that projecting and synchronizing
  changes something or does not.
* *Cruise session*: two nodes and speeds backwards, at rest, below, at, between and beyond
  them; rows that fall faster than they rise, that never fall, and without a limit, in any
  combination for the two sides; limits that clamp the integral and the request.
* *Guidance law*: two axles, one behind the other by a station of the table, so that one is
  guided while the other is not; strides that visit every stretch of every table; two
  measurements that differ in the sign of the displacement and one that drives every
  limit. Tables, filters and gains differ between the curves.
* *Tables*: three axles, since the scripts draw two that are not neighbours; two slots, with
  a tie, an empty first slot, a first slot that carries less and no contact; three samples
  and one event, so that a row has a row before it, one in the half period between those of
  the other program, and one behind it. Orders differ from the closed one by any exchange of
  neighbours, the listing of a solver by one name too many, too few, repeated or in another
  place.
* *RADAU5, CVODE*: a horizon of 5 has several steps, shortened and stretched ones; five
  trials a call, three singular setups, one retry of a perturbation, three Newton
  iterations and two columns exhaust each budget before and after each of the others. For
  CVODE four instants, with the Jacobian provider attached.
* *Evaluations*: two threads and three columns, one of a position and one of a velocity
  the wheel moves with and one of another body, so that one thread goes on in the context
  of either; two hints, inputs and states make every part of a key matter. The plan has two
  carriers with a wheel each and two threads; from one hint one state is lost, and one has
  no kinematics. The geometry has 54 outlines of five samples, two models with bins of
  different width, two poses, three stamps, so that they wrap, two islands and one patch,
  so that both limits bite. The length search has every pattern of a circle up to a limit
  of 8 at three stations, one screening bisection and three bisections. Force elements: an
  element of each family between frames off the centres of two bodies, in rotations about
  every axis, with and without velocity and angular velocity, and collections with a name
  repeated, two ends on one body, a curve that does not start at rest, a negative damping
  and a wheel driven twice; two evaluations, so that the second finds the buffer
  as the first, or its failure, left it.
* *Outputs*: two qualification runs, an experiment and a co-simulation meet on one path
  with two files each; four calls of `WriteFrame` fill and drain the buffers; two
  messages of up to two datagrams for two destinations, with a budget of a millisecond
  and a half, since `poll` only waits in whole ones.
* *Multibody model*: three bodies and their names, joints of two kinds, callers that use
  the private names; with three bodies a chain, a star, a loop and two trees exist.
* *Start-up*: two carriers and a wheel, two elements of most families, and records in which
  any list, or two at a time, has an entry too few, too many, repeated, unsound or under
  another's name; three arrangements. *Lines*: every sequence of three out of five segments
  for each family, and windows that fit, meet, overlap, repeat or have no boundary; a
  superelevation that reaches the baselength; ends that are apart by a rounding.
  *Closures*: four files with a cycle, each of any disposition or none, a file that is not
  there and one that cannot be read.
* *Stream*: each lane has three sequence numbers, a state takes two datagrams, there is
  room for two partial messages, and three runs share two places, so that a run is evicted
  while another is on display or is reported on. The reporting receiver sees a gap in the
  numbers of its states. The code has 8 and 16 places; eviction only asks which is
  oldest.
* *Display*: four times and sequences, three readings of the clock with a delay of one,
  room for three samples: an interval can be evicted under a pause and the display can run
  into its newest sample; after another run's state it can come back behind, at or ahead of
  what is shown.
* *Live view*: one of the two runs may be described in two ways and has a clock that
  stands still, the other's clock goes back, so every check of `acceptState` both passes
  and fails. With two states per run `live_view` has the older, the newer and the
  repeated one; `live_view_two_runs` leaves out the second description, which only blocks.
  Requests may pile up without a bound.

## Fairness and stops

Safety does not need fairness. Where something has to happen:

* `GuidanceRun`: `WF_vars(Proceed)`. The run is one thread and nothing in it waits: the
  next statement is executed and returns or throws. Fairness is on the statements, not
  on the exceptions: `Ends` shows that the statements alone lead to the end.
* `CoordinateAdvancer`: `WF_vars(Attempted)`. An attempt of the core is a bounded
  computation (the Newton iteration has a limit) and ends in one of its five outcomes.
  Which one is not fair: `CallsEnd` holds if every attempt is rejected.
* `ContactForcePlan`: `WF_vars(Step)`. A call is under way and its threads compute; which of
  them does is not fair. `ContactForces` promises an answer to every question.
* `StateSender`: `WF_vars(Tick)` and `WF_vars(Send)`. The clock runs and the thread is
  scheduled. The socket may block for ever and `poll` may say that it is writable each
  time: only the clock ends a publication (`PublishReturns`).
* `LiveView`: an open connection is accepted, a send completes, a close event is
  delivered, a timer fires, a message is received and every request ends. Each is what
  an event loop, or the network when it works, does by itself. `CatchesUp` speaks of
  behaviours in which from some moment on nothing is fed, lost, restarted, left or
  failed to be read; it excepts a run whose content was found wrong and a server that
  holds less than the page has seen.

Some systems really stop, and their runs say `CHECK_DEADLOCK FALSE`: a cache context with
every version at its ceiling and every slot fresh (`cache_inertia`), a run that is
published or rejected (`controlled_runs`), a search for a length that has ended
(`evaluations`), processes that are gone (`run_outputs`), a model that is finalized,
and a line, a context or a verdict that is made
(`construction`).

## Proofs

The proofs hold for every value of the constants that satisfies the named assumptions;
the runs show the properties that matter most on the small instances. `HintsFollowEndpoints`,
`ReadyMeansReady`, `ReadyIsSynchronized`, `EventsStayReachable`, `OnGrid` and
`OnlyACommitFreshens` are stated for the theorems: the first five are the invariants the
refinements rest on, the last an action property.

| module | theorems | assumptions |
|---|---|---|
| `VersionedCache` | `TypeCorrect`, `FreshIsAlwaysCold`, `BorrowsAlwaysStayFresh`, `CommitsAloneFreshen` | `ConstantTypes`, `DependenciesCover` |
| `ConstructionProofs` | `TypeCorrect`, `HintsAlwaysFollowEndpoints`, `ReadyAlwaysMeansReady`, `AdvancerImplementsPromise`; `TheForestIsBuilt`; `ClosureIsOfTheTree`; `ContextIsAlwaysTheRecord` | `FlowAssumption`, `AdvancerAssumption`, `ConstructionAssumptions` |
| `ControlledRunsProofs` | `TypeCorrect`, `ReadyIsAlwaysSynchronized`, `EventsAlwaysStayReachable`, `SessionImplementsLoop`, `ObservationsAlwaysJoin`, `WorkIsStatedTruly`, `FilesAlwaysTellTheRun`, `TablesAlwaysTellTheRun`, `HeldTorqueAlwaysObeysTheDrive`, `RecordAlwaysTellsTheRun`, `ControlAlwaysDrivesTheLoop` | `FlowAssumption`, `ControlAssumption`, `RunAssumptions` |
| `BackendsProofs` | `TypeCorrect`, `AlwaysOnGrid`, `CoreAlwaysTakesTheAttempt`, `AdapterImplementsStepper`, `RightSystem`, `TrueCause`, `CorePoint`, `OneHistory`, `LibrariesImplementStepper` | `StepAssumption`, `BackendAssumptions` |
| `EvaluationsProofs` | `BatchInvariance`, `LikeTheLoop`; `GeometryIsAlwaysOfThePose` | `SomeWork`, `StateLayout`, `EvaluationAssumptions` |
| `ContactForcePlan` | `TheTeamCovers`, `AnswersAreOfTheirQuestion` | `PlanAssumption` |
| `RunOutputsProofs` | `MakerAlone`, `PublishesOnceAndWhole`, `Accounted`, `StatesFit`, `LatestIsShown`, `FeedIsImplemented`, `WholeOrNone`, `MemoryIsAlwaysBounded`, `ReportAlwaysAddsUp`, `WatermarksAreAlwaysFollowed` | `SomethingIsWritten`, `RunsHavePrograms`, `OutputAssumptions` |
| `LiveViewProofs` | `FedIsCurrent`, `EveryStateIsDescribed`, `WatermarkStays`, `StaysLeft` | `ViewAssumption`, `NullAssumption` |

Each follows the same plan: an inductive `IInv`, one lemma per action that it is
preserved, a theorem `Invariance`, and the properties from it.

*Caches.* `FreshIsCold` is not inductive: the slot about to be committed must already
hold the cold value, and the slots it borrowed must still hold theirs. `IInv` adds, for
every frame on the stack, that it is not committed, that the versions it captured are
not ahead, and that as long as none has moved its borrows are fresh and, once it has
written, its buffer is cold (`Frame`); that ranks decrease up the stack, so an
evaluation never empties the storage of a slot below it (`StackOrdered`); and that no
snapshot is ahead of its source, so a write can only make slots stale
(`SnapshotsBehind`). The step that matters is `EnterIInv`: emptying a stale slot
disturbs no one who borrowed it, because a borrowed slot that is stale means a source
has moved. Where `DependenciesCover` is used is exactly where a missing declaration
would bite (`ComputedIsCold`).

*System advancer.* `UnderWay` relates the locals of a call to the backend in each phase
and holds whatever the client did; `OnTrajectory` says that backend, dense interval and
columns lie on the flow of the accepted state, and holds while the client has told of its
changes and nothing has failed. The refinement splits the same way: an unsynchronized
advance is promised little, a synchronized one everything. Composition of the flow
(`FlowJoins`) is what turns several internal steps into one accepted advance.

*Guidance.* `ReadyIsSynchronized` and `EventsStayReachable` are inductive together with the
type invariant. `ReadyIsSynchronized` makes every advance one of the plant's under the
held torques; `EventsStayReachable` puts every event on its instant. This proof uses the
promise of the advancer, not its implementation; that the implementation keeps it is
`AdvancerImplementsPromise`.

*Guidance experiment.* `ExperimentInv`: `Counts` and `Clock` say how many rows of each table there
are in each stage of a period and where the accepted time stands, `Events` that an event
wrote the torques in force since, `Rows` and `Diagnostics` that a row is of the state, the
torques and the integration it was observed from. `SamplesAreTheTrajectory` is the conjunct
that makes it inductive: the observed rows and the accepted state are one trajectory, so an
advance that ends at an observation adds a row that fits the ones before.

*Qualification run.* `RunInv` says what the observer holds at each stage and that every audit is
of the torques it states; `LedgerInv` that the ledger's total, the backend in use and those
that were replaced make up the work performed, and that a count that could not be read is
the only thing that excuses a report. A candidate is recorded against the context it was
observed in, so it is `RunInv` that `ObservationsAlwaysJoin` follows from.

*Co-simulation.* `SimulationInv`: the controls are numbered in turn and none but the last is the
terminal one; every row names the control it was calculated under, and that control is
there (`RowsAreRead`); an observation that is due is recorded before the clock leaves its
instant (`DueIsRecorded`).

*Cruise session.* `CruiseInv`: what the conditioner remembers is the drive torque that is held,
and the last move was as far as the drive goes (`GoesAsFar`) and raised the torque only as asked
(`Raised`). The work is in one move. The code distinguishes the side it starts on, the side it is
going to, and what is left of the period at zero; each branch is shown to end at a torque that
`Reaches` allows and beyond which, towards the target, it allows none. Through zero the period is
shared: what is left of it after the way down is what the way up has. The code divides to find
how far that is, `Reaches` multiplies, and the two agree on whole numbers. A failed event changes the phase
alone, so the next one starts from the torque that is held.

*Passive run.* `PassiveInv` says of the samples observed so far (`Found`) that the seeds are where
the last of them was, that the observations are theirs, that the rows list their patches in
order (`IsListing`), which use of the line beyond each end was the first, and of each wheel how
long it has been without contact and the longest such spell (`SpellsAre`). With the seeds where
the sample before was, `FollowsTheLine` says what a projection finds; a projection that is lost
rejects the run. Appending the patches of a sample, wheel by wheel, is a fold over sequences,
and what it lists is proved by induction on the natural numbers (`NaturalInduction`).

*The loop in the programs.* Each program is mapped to one started instance of `SampledDataLoop`
(the experiment through `GuidanceLoop`), the others stand still. A communication of the
co-simulation is the loop's hold, an event its control. The last event of a run writes
torques that nobody adopts; there the loop has ended.

*Coordinate advancer.* `Blocking` says when the core and the published time agree, and
`NextGridPoint` that an attempt which keeps the grid ends on it; `ChosenStep` is the
lemma on `ChooseStep` that the core's own checks follow from.

*RADAU5.* `SolvesTheRightSystem` looks at one moment, a Newton iteration. Two conjuncts lead
there: `RadauCalls` ties the call under way, its phase and its trials to the published
time, and `RadauReuse` says of every phase what `jacobian`, `factors` and `matrices` may be
reused for: a failed baseline or setup may leave any of them behind, and must leave the
mark that makes the next setup rebuild it. `RadauCause` adds that an exception that can
still be reported is the one the callback keeps.

*CVODE.* `CvodeInv` says of each place of the kernel what the adapter holds: at a step the two
clocks agree and the exception kept is the last callback's, at the end the kernel is ahead.

*Cores.* `CoreHolds`, `CoreCandidate` and `CoreHistory` say, of the accepted point, of the
candidate and of the point before, at what each was last evaluated and with which formula
and length; a candidate that has been projected since is due again. The slips in `mutants`
break exactly one of the three.

*Jacobian workers.* `WorkersFollow`: every thread holds the source's inputs and, in a batch,
its hints. `NoneIsLost`: every column is waiting, taken, or settled as the serial loop would
settle it. Nothing is said of what the threads keep, because `EntriesAreOfTheirKeys` shows
that a key tells inputs apart: whatever is kept can only be used for its own input.

*Contact force plan.* `PlanInv` says of each place of a call what the buffers may hold. The
conjunct that counts is `LoopCovers`: in the loop every wheel is either in the share of a
thread or settled, that is, its wrench and observation are those of its input or its failure
is recorded, and nothing of an earlier team is taken for either. That the static shares of a
team cover the wheels is integer division (`SharesCover`); that the lowest failure recorded
is the one the serial loop meets first is well-foundedness (`LowestIs`). What is kept per
wheel is the result of its key (`KeptAreOfTheirKeys`), so a seeded or an old result answers
as an evaluation would.

*Contact geometry.* `GeometryInv` is short: the patches kept are those promised of the pose
they were solved for, and no bin bears a stamp that is yet to come. The work is in a solve,
stage by stage, each with the invariant of its loop. `BinsHold`: after the samples so far, a
bin bears the stamp of this solve just when one of them fell into it, and holds the highest
and earliest of those; `StampIsNew` says that nothing in the bins is taken for it, also when
the counter wraps. `MergedIs`: the merge of two ascending lists is the ascending list of what
is in either, and a set of numbers has only one such list (`AscendingIs`), which is how the
grid of the code becomes the one promised. `ScanKeeps`: the scan keeps the runs that have
ended, while there is room. `JoinKeeps`: there is a deep valley between any two islands so
far and none in one; hence two runs are in one island just when all between them is shallow
(`JoinedTogether`), though the code looks at the gap between neighbours alone.
`LeftsAscend`: an edge lies between its two grid points, and between two islands there is a
grid point out of contact, so islands begin from left to right; hence the sort changes nothing
(`SortedIs`) and the patches found first are the first there are (`FirstPatches`). The loops
are recursive functions: that one exists whatever its length, and that it keeps what each turn
keeps, is proved once by induction (`LoopExists`, `LoopKeeps`).

*Patch length.* `LengthInv`: the longest chord so far is the longest of the stations taken,
which are the deepest and the first of the others. A bisection keeps the crossing inside its
bracket, and no bracket grows, so the bound between the outer ends is one at any depth, before
the screening, in it and at the end; a station that is dropped has no longer chord.

*Multibody model.* `ForestInv` relates the array of the union-find to an equivalence of bodies.
`IsAbove` gives each body a number that increases along `related_root`, so a path ends within
as many steps as there are bodies; `Represents` is the relation "has this representative", and
`Find` changes the array and leaves it (`FindFinds`), whatever paths were halved before.
`Knows` says what the relations stated have to do with the trees: each lies within one tree,
they hold each tree together, and each is a cut, that is, without it its tree falls apart. A
relation between two trees is again a cut, one within a tree would not be, which is why the
code refuses it. `Connect` moves one tree under the root of the other (`ConnectJoins`). At
`Finalize` a private name exists because a tree has fewer joints than there are
candidates, and a joint has to be reversed exactly when its cut leaves the world on the
side of its child, which the level sets of the tree tell.

*Start-up.* `StartupInv` says of each step what the ones before have found or left: documents
that hold together (`Loaded`), anchors of exactly the vehicle's carriers (`Anchored`), an
arrangement of its elements (`Laid`), a record with their names and no others (`Matched`), the
stations of the bodies and, at the end, the context (`Written`). The definitions and records are
any, with any number of elements; of the arrangement it is assumed that it has each element
once. `SumsExist` and `SumsPart` are the induction: the sums of widths, laid end to end, part
the slots, so each slot is in the range of one element (`SlotsPart`) and is filled from its
statement (`PlaceIs`). From this follows that the check of the slots cannot refuse
(`StatementsCover`, `SeriesCover`); and as distinct carriers, as many as the vehicle has
pairs and among them, are all of them (`SameCarriers`), neither can that of the anchors
(`AnchorsMatch`). What is said of a body's placement is said of bodies only: nothing keeps a
joint from having the name of a body, and TLC's names never meet.

*Source closure.* `ClosureInv` is about the walk under way (`WalkIsOn`): what was reached or lies on
the stack is in every closed set; the roots, and what the files reached include, are named or
lie on the stack as includes; the units of the headers reached are reached or lie on the
stack. It does not mention the order of the stack. `FoundOnce` says that the reports so far
are those of the files reached and named so far, each once: a file met twice is reported by the
first visit for what it is, and by the first include for being declined. Once the stack is
empty, `WalkIsOn` says that what was reached is closed and least. The sets of files may be
infinite, but the roots are not, since a ledger is a finite sequence; `SomeOrder` puts them on
the stack.

*Output directory.* `OneHolder`, `Owns` and `Builds` say that the partial directory has at most
one owner and holds what that owner wrote and nothing else; `Reports`, that a report is
written only while there is no output. A process that is killed leaves its directory
without an owner, which is why `Owns` is about stages and not about who made it.

*Record.* `TablesHoldTheAccepted` says that disk and buffer together hold the accepted rows,
and the half row under way, as long as the stream is good; `ClosedInTurn` that the tables
were flushed and closed good before the next; `DocumentIsLast` that a document is only there
when both are on disk.

*Sender.* `InTurn` counts the attempts: destinations before the present one have had every
datagram, the ones behind none. `InTime` bounds what a call may still wait by what is left
of the budget, which needs that `poll` rounds up by less than a millisecond (`RoundedUp`).

*Receiver.* `RegisteredInOrder`: the registration order is a strict total order on the runs
known, which eviction takes from and a new run is added to at the end. `EntriesFit` is that
an entry holds messages of its run, and no state without a description. With
`LatestReadyRunIsActive` they are inductive, and the steps of `StreamFeed` follow one by one.

`MemoryInv` adds what the memory is used for: an entry holds messages of its run and kind, and
every message still collected is newer than what its lane accepted and lacks a fragment. The
second is what acceptance could break, because it moves a lane on: `Takes` says that whatever an
acceptance changes in an entry is among the messages it then clears the older ones of.

*Report.* `ReporterInv` is what the report of each run counts (`AddsUp`), that the runs are known
in the order they were heard of, and that a message is collected at most once and is worth
collecting. The report is about sums over the runs and about sequences from which some
members were taken. Both are recursive functions; what they compute is proved here by
induction on the natural numbers, in the form the provers take: the numbers for which a claim
holds are a set, and a set that is not empty has a least element (`Least`, from the library's
`WFMin`; `Induction`). `SumChanges` (one run's count changes), `SumExists`, `Kept` (what a filter
keeps, and in which order) are those results; the rest is one lemma for each way a message
ends (`DescriptionStep`, `StateStep`, `QuietStep`).

*Display.* `DisplayInv`: the buffer ascends in time and in sequence, ends with the state that came
last, and is empty exactly while the connection is lost; what is shown is between two samples,
and it is ahead of the watermark only while it is disconnected or paused, where nothing
advances it. `ResolvedIs` says what interval a buffer is resolved to, and that it is the newest
state for any time past it: that is where a display that was ahead ends. `AppendedIs` says that a
replaced or evicted sample leaves the buffer in order.

*Live view.* `FedSceneIsCurrent` is not inductive: a late resource installs the scene, so what
is loaded, described, blocked and pending must agree (`Content`). What the page knows when a
message arrives follows from the order on the wire and in the client (`InOrder`), and both
from what a lost connection leaves behind (`Connected`). `None` is no message, update or scene
(`NullAssumption`): the code's `null` is none.

The type invariants of these components are part of the invariants proved. The other modules
state theirs as `TypeOK`, which a configuration may name like any invariant. Every inductive
invariant was checked by TLC on the instance of the run before it was proved.

Only model-checked:

* `OutputsTellTheRun`: what it says of the experiment and of the co-simulation is proved
  (`FilesAlwaysTellTheRun`, `TablesAlwaysTellTheRun`), and so is the passive record
  (`RecordAlwaysTellsTheRun`); the columns of the tables by name are model-checked.
* `BuiltAsStated`: of its three parts the start-up context (`ContextIsAlwaysTheRecord`) and the
  verdict on the closure (`ClosureIsOfTheTree`) are proved; the line is model-checked. Its
  arithmetic is exact only for a unit that the lengths of an instance divide.
* `TorquesObeyTheirLaws`: the half of the cruise session is proved
  (`HeldTorqueAlwaysObeysTheDrive`), that of the guidance law is model-checked.
* The guidance law, `PairsDoTheWorkOfTheirLaws`, the line and the columns are about products of
  integers, interpolation and sums over documents: nonlinear arithmetic, or recursions on data
  with several invariants each. The inductions that the report, the forest, the closure, the
  start-up context and the contact geometry need show that such recursions are not out of reach.
* The liveness properties: `ExperimentEnds`, `CallsEnd`, `PublishReturns`, `CatchesUp`, and the
  answers of `ContactForces`.

## What is not modelled

* *Numbers*: contact laws, the kinematics of the multibody model, integration formulas,
  Newton iterations, error control. They are present by their outcomes (a step succeeds, is
  rejected, throws) and by what they read. Most of the source is of this kind: long
  expressions on real numbers, without state. Where such expressions have a law of their own
  that integers can tell (force elements, guidance, track geometry, drives), they are
  modelled on integers; there is no rounding in those models.
* *Track irregularity, equilibrium*: spectra, splines and a static Newton iteration from
  immutable plans. Of track geometry, circular vertical curves, positions in the plane and
  the projection of a point.
* *SUNDIALS, the SIMPACK solver, the rigid tree, sockets, files, browsers*: external, by what
  the code may expect of them.
* *Bytes*: the layout of datagrams, records and files, and their validation, except for
  whether a message decodes and which layout it has.
* *Loading and checking of input documents*, the performance records, the metrics the
  scripts calculate, the scripts for passive runs, and the shape of evidence files.
* *The viewer's drawing, readouts and camera*, replay of records, exports, build scripts.

Simplifications a reader should know of: tolerances are not negative; the patches of
`ContactGeometry` ascend by their left edge, where the code sorts by centroid; its cache of
patches is keyed by the model's address, as the code's is, and models outlive the
workspace; the code's `logic_error` for too many bins cannot occur for the outlines
assumed.

Behaviour met while modelling that no property calls wrong:

* `atomic_qualification_directory.h:12-13` speaks of a destination that must not exist;
  `rename` replaces an empty directory made after the last look
  (`atomic_qualification_directory.cc:58-63`). A published result is never replaced: it is
  not empty.
* A run that was retired and then evicted is forgotten by the receiver (`receiver.ts:33`),
  and a late description registers it as new. The properties speak of registered runs,
  as the code's comments do.
* A run that is described again, differently and after another run's description, keeps
  its old scene in `App.tsx`.
* The refusals in `LiveController.append` cannot be reached behind the watermark of
  `LiveConnection`, nor its limit on the size of one sample behind the receiver's on a
  message.

## Running the tools

    tlc -workers 2 -config ControlledRuns.cfg MCControlledRuns
    tlapm ConstructionProofs.tla

Each run's module and configuration are in `PROJECT.json` under `runs`; `evaluations`,
`cache_inertia`, `controlled_runs`, `run_outputs` and `live_view` take one to four minutes each, the
others less.
