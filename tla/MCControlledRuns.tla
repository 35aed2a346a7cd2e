-------------------------- MODULE MCControlledRuns --------------------------
(***************************************************************************)
(* What runs a vehicle, side by side: the session of control events under  *)
(* any client, as GuidanceLoop has it, the session of a cruise, and the    *)
(* programs: under sampled control the guidance experiment of GuidanceRun, *)
(* the qualification run and the co-simulation, and without any the        *)
(* passive qualification run; and on their own the law that guides the     *)
(* wheels, and the tables the programs write and the scripts read.  One of *)
(* them is started.                                                        *)
(*                                                                         *)
(* A state is the torques each instant of it was integrated under, the     *)
(* memory is the number of events it has seen, and event e writes torques  *)
(* of its own when the trajectory so far was held as its events planned    *)
(* it, and wrong ones otherwise.                                           *)
(*                                                                         *)
(* The passive vehicle, two carriers and a body between them, rides either *)
(* way along a line that comes back to its first places.  The guided       *)
(* vehicle has two axles, on a line whose stations are those of the cross  *)
(* line in order.                                                          *)
(***************************************************************************)
EXTENDS GuidanceLoop, Sequences, TLC

CONSTANTS
  Wrong,
  Rates, Nodes, Rows, Forward, CruisePeriod, Deadband, Threshold,
  TargetSpeed, Gain, IntegralLimit, OutputLimit, Filtered,  \* see CruiseSession
  MaxOrdinal,                               \* see GuidanceRun
  OtherPeriod,                              \* of the other two programs
  TerminalOrdinal, MostWork, Unprimed,      \* see QualificationRun
  CommunicationOrdinals, Decimation,        \* see SimpackRealtime
  Samples, Wheels, Carriers, Bodies, PassiveRuns, Seeds, Place(_), Project(_, _),
  Lost, LineStart, LineEnd, NoUse,          \* see PassiveRun
  Axles, Unit, Radius, TorqueLimit, PiFilter, Strides,  \* see GuidanceLaw
  TableAxles, Slots, TableSamples, Drawn    \* see RunTables

Torques == 0..2
MCLocal == Torques \cup {Wrong}

MCState == [1..Horizon -> MCLocal]

\* What a trajectory holds at instants it has not reached tells two startups apart.
MCInstalled == {[i \in 1..Horizon |-> l] : l \in {0, Wrong}}

MCFlow(s, l, t, u) == [i \in 1..Horizon |-> IF t < i /\ i <= u THEN l ELSE s[i]]

MCMemory == 0..TerminalOrdinal + 2

Planned(e) == e % 3

HeldAsPlanned(s, e, period) ==
  \A i \in 1..Horizon : i <= e * period => s[i] = Planned((i - 1) \div period)

Written(s, e, period) == IF HeldAsPlanned(s, e, period) THEN Planned(e) ELSE Wrong

Advanced(m) == IF m + 1 \in MCMemory THEN m + 1 ELSE m

MCControl(s, m) == [torques |-> Written(s, m, Period), memory |-> Advanced(m)]

\* The initialization recurrence counts too.
QualificationControl(s, m) ==
  [torques |-> IF m = 0 THEN Wrong ELSE Written(s, m - 1, OtherPeriod), memory |-> Advanced(m)]

RealtimeControl(s, m) == [torques |-> Written(s, m, OtherPeriod), memory |-> Advanced(m)]

\* Speeds of the wheel backwards, at rest, below and at the nodes, between them and
\* beyond; rows that fall faster than they rise, that never fall, and with no limit.
MCRates == {-1, 0, 2, 3, 4, 5}
MCNodes == <<2, 4>>
MCRows == {[limit |-> 6, increase |-> 1, decrease |-> 2],
           [limit |-> 3, increase |-> 3, decrease |-> 0],
           [limit |-> -1, increase |-> 2, decrease |-> 1]}
MCForward == -1

\* Places 0 to 2 are passed again at 6 to 8; a projection finds its way back over
\* a station or two.
MCPlace(station) == station % 6

MCProject(place, seed) ==
  LET near == {s \in seed - 2..seed + 2 : MCPlace(s) = place}
  IN  IF near = {} THEN Lost ELSE CHOOSE s \in near : TRUE

Rides == {r \in [1..Samples -> 1..9] :
            r[1] = 4 /\ \A i \in 1..Samples - 1 : r[i + 1] - r[i] \in {-2, 1, 2}}

MCRuns ==
  {[i \in 1..Samples |->
      [at |-> (1 :> ride[i] + 1) @@ (2 :> ride[i] - 1) @@ (3 :> ride[i]),
       patches |-> <<p[i], 2 * (ride[i] % 2)>>]] :
     ride \in Rides, p \in [1..Samples -> 0..1]}

MCSeeds == (1 :> 5) @@ (2 :> 3) @@ (3 :> 5)
-----------------------------------------------------------------------------
Profile(feedforward, yawRate, yaw, velocity, lateral, integral, difference, offsets, outer, limit) ==
  ("feedforward" :> feedforward) @@ ("yaw rate" :> yawRate) @@ ("yaw" :> yaw) @@
  ("lateral velocity" :> velocity) @@ ("lateral" :> lateral) @@ ("integral" :> integral) @@
  ("difference" :> difference) @@ ("equilibrium yaw" :> offsets[1]) @@
  ("equilibrium lateral" :> offsets[2]) @@ ("yaw rate filter" :> <<1, 1>>) @@
  ("velocity filter" :> <<1, 1>>) @@ ("outer" :> outer) @@ ("limit" :> limit)

Zero == <<0, 0>>
NoOffsets == <<Zero, Zero>>

MCProfiles ==
  [straight |-> Profile(Zero, Zero, Zero, Zero, Zero, Zero, Zero, NoOffsets, 1, 12),
   R300 |-> Profile(<<2, -2>>, <<-2, 0>>, <<-2, 2>>, Zero, Zero, <<2, 2>>, <<2, 4>>,
                    <<<<0, 2>>, <<4, -2>>>>, 3, 12),
   R600 |-> Profile(<<4, 0>>, <<2, 0>>, <<0, 2>>, Zero, Zero, <<2, 2>>, <<2, 2>>,
                    <<<<0, 4>>, <<4, -2>>>>, 2, 12),
   R800 |-> Profile(<<4, 2>>, <<2, -2>>, <<2, 2>>, Zero, Zero, <<2, 2>>, <<2, 0>>,
                    <<<<0, 4>>, <<4, -2>>>>, 2, 12),
   leaving |-> Profile(Zero, <<-2, -2>>, <<-6, -4>>, <<-2, -2>>, <<-4, -4>>, Zero, Zero,
                       NoOffsets, 2, 6)]

MCEntry == [start |-> 2, full |-> 4, end |-> 6]
MCEntryFilters ==
  ("yaw rate filter" :> 1) @@ ("velocity filter" :> 1) @@ ("outer" :> 1) @@ ("limit" :> 12)

MCArm == [speed |-> 1, curvature |-> 8, profile |-> "R300"]
MCDefinitions == {MCArm, [speed |-> 3, curvature |-> 4, profile |-> "R800"]}

MCFixed ==
  {MCProfiles.R300 @@ [speed |-> 2, curvature |-> 4, ramp_start |-> 1, ramp_end |-> 5,
                       start |-> 3, end |-> 12]}

MCMeasured ==
  LET Input(lateral, first, second) ==
        [lateral |-> lateral, yaw |-> <<1, -2>>, wheels |-> <<first, second>>]
      Turning(left, right) == [left |-> left, right |-> right]
  IN  {Input(<<2, -3>>, Turning(-10, -14), Turning(-9, 0)),
       Input(<<-7, 0>>, Turning(-10, -14), Turning(-9, 0)),
       Input(<<2, -3>>, Turning(-40, -40), Turning(5, -30))}

MCEach(x) == [a \in 1..Axles |-> x]
MCMinus == MCEach([left |-> -1, right |-> -1])
-----------------------------------------------------------------------------
\* Wheels mounted either way round; loads with a tie, an empty first slot, a slot that
\* carries more than the first, and no contact.
MCSigns == [w \in 1..2 * TableAxles |-> IF w % 2 = 1 THEN 1 ELSE -1]
MCContacts ==
  {<<<<1, 2>>, <<0, 1>>, <<2, 2>>, <<0, 0>>, <<1, 0>>, <<2, 1>>>>,
   <<<<0, 0>>, <<2, 2>>, <<0, 2>>, <<1, 0>>, <<1, 1>>, <<0, 2>>>>}
-----------------------------------------------------------------------------
VARIABLES
  started,
  table, rate, due, cruise_phase, pi, cruise_memory, cruise_held, drive, last,
  stage, interval, sample, observer, rows, events, diagnostics,
  q_accepted, q_blocked, q_unsynchronized, q_returned, q_phase, q_ordinal, q_memory, q_stage,
  q_interval, q_observer, states, q_observations, audits, counters, ledger, performed, report,
  program, plant, inputs, r_started, last_target, outputs, held, r_memory, r_ordinal, r_sample,
  r_stage, observations, controls,
  p_stage, dense, p_sample, seeds, p_observations, patch_rows, before, after, current, longest,
  failure,
  schedule, place, law_memory, sampled, lost,
  t_program, t_plan, listing, bound, previous, t_sample, touched, files

cruiseVars ==
  <<table, rate, due, cruise_phase, pi, cruise_memory, cruise_held, drive, last>>
runVars == <<stage, interval, sample, observer, rows, events, diagnostics>>
qualificationVars ==
  <<q_accepted, q_blocked, q_unsynchronized, q_returned, q_phase, q_ordinal, q_memory, q_stage,
    q_interval, q_observer, states, q_observations, audits, counters, ledger, performed, report>>
realtimeVars ==
  <<program, plant, inputs, r_started, last_target, outputs, held, r_memory, r_ordinal, r_sample,
    r_stage, observations, controls>>
passiveVars ==
  <<p_stage, dense, p_sample, seeds, p_observations, patch_rows, before, after, current, longest,
    failure>>
lawVars == <<schedule, place, law_memory, sampled, lost>>
tableVars == <<t_program, t_plan, listing, bound, previous, t_sample, touched, files>>

Cruise == INSTANCE CruiseSession WITH
  Period <- CruisePeriod, phase <- cruise_phase, memory <- cruise_memory, held <- cruise_held

Experiment == INSTANCE GuidanceRun

Qualification == INSTANCE QualificationRun WITH
  Period <- OtherPeriod, Control <- QualificationControl,
  accepted <- q_accepted, blocked <- q_blocked, unsynchronized <- q_unsynchronized,
  returned <- q_returned, phase <- q_phase, ordinal <- q_ordinal, memory <- q_memory,
  stage <- q_stage, interval <- q_interval, observer <- q_observer,
  observations <- q_observations

Realtime == INSTANCE SimpackRealtime WITH
  Period <- OtherPeriod, Control <- RealtimeControl, MaxOrdinal <- CommunicationOrdinals,
  started <- r_started, memory <- r_memory, ordinal <- r_ordinal, sample <- r_sample,
  stage <- r_stage

Passive == INSTANCE PassiveRun WITH
  Runs <- PassiveRuns, Start <- LineStart, End <- LineEnd, None <- NoUse,
  stage <- p_stage, sample <- p_sample, observations <- p_observations, rows <- patch_rows,
  report <- failure

Law == INSTANCE GuidanceLaw WITH
  Behind <- <<0, 2>>, Profiles <- MCProfiles, SpeedStations <- <<0, 2, 4, 6, 10, 12, 14, 16, 18, 20>>,
  GuidanceStations <- <<0, 2, 4, 6, 8, 10, 12, 14, 16, 18, 20>>, Speeds <- <<1, 3, 5>>,
  Curvatures <- <<0, 8, 4, 2>>, GuidanceStart <- 2, GuidanceEnd <- 20, Entry <- MCEntry,
  EntryFilters <- MCEntryFilters, Definitions <- MCDefinitions, Arm <- MCArm, Fixed <- MCFixed,
  HalfSpan <- 1, Period <- 1, AxleSigns <- <<1, -1>>, WheelSigns <- MCMinus, PiSigns <- MCMinus,
  IntegralLimit <- 5, PiGain <- 1, PiIntegralLimit <- 30, Last <- 20, None <- NoUse,
  Measured <- MCMeasured, source <- schedule, station <- place, memory <- law_memory

Record == INSTANCE RunTables WITH
  Axles <- TableAxles, Samples <- TableSamples, Bodies <- <<"car", "frame">>,
  ForwardSigns <- MCSigns, Contacts <- MCContacts,
  program <- t_program, plan <- t_plan, sample <- t_sample

ASSUME RunAssumptions ==
  /\ Cruise!SessionAssumption
  /\ Experiment!RunAssumption /\ Qualification!RunAssumption /\ Realtime!RunAssumption
  /\ Passive!PassiveAssumption /\ Law!LawAssumption /\ Record!TableAssumption

AtRest == [i \in 1..Horizon |-> 0]
ContextAtRest == [time |-> 0, state |-> AtRest, local |-> 0, hints |-> AtRest]

\* What is not started is in one state.
MCInit ==
  /\ started \in {"loop", "cruise", "experiment", "qualification", "cosimulation", "passive", "law",
                  "tables"}
  /\ IF started \in {"loop", "experiment"} THEN TRUE ELSE accepted = ContextAtRest
  /\ IF started = "cruise" THEN TRUE
       ELSE /\ table = [s \in Cruise!Sides |-> [n \in DOMAIN Nodes |-> CHOOSE r \in Rows : TRUE]]
            /\ rate = 0
  /\ IF started = "qualification" THEN TRUE ELSE q_accepted = ContextAtRest
  /\ IF started = "cosimulation" THEN TRUE
       ELSE program = "cruise" /\ plant = [time |-> 0, state |-> AtRest] /\ inputs = 0 /\ held = 0
  /\ IF started = "law" THEN Law!Init
       ELSE schedule = NoUse /\ place = 0 /\ law_memory = NoUse /\ sampled = NoUse /\ lost = FALSE
  /\ IF started = "tables" THEN Record!Init
       ELSE /\ t_program = "passive" /\ t_plan = Record!Closed /\ listing = <<>>
            /\ bound = "no" /\ previous = <<>> /\ t_sample = 0
            /\ touched = [p \in Record!Programs |-> <<>>]
            /\ files = [p \in Record!Programs |-> Record!NoRows]
  /\ Experiment!Init /\ Cruise!Init /\ Qualification!Init /\ Realtime!Init /\ Passive!Init

MCNext ==
  /\ UNCHANGED started
  /\ \/ started = "loop" /\ Next
          /\ UNCHANGED <<runVars, cruiseVars, qualificationVars, realtimeVars, passiveVars, lawVars,
                         tableVars>>
     \/ started = "cruise" /\ Cruise!Next
          /\ UNCHANGED <<vars, runVars, qualificationVars, realtimeVars, passiveVars, lawVars,
                         tableVars>>
     \/ started = "experiment" /\ Experiment!Next
          /\ UNCHANGED <<cruiseVars, qualificationVars, realtimeVars, passiveVars, lawVars,
                         tableVars>>
     \/ started = "qualification" /\ Qualification!Next
          /\ UNCHANGED <<vars, runVars, cruiseVars, realtimeVars, passiveVars, lawVars,
                         tableVars>>
     \/ started = "cosimulation" /\ Realtime!Next
          /\ UNCHANGED <<vars, runVars, cruiseVars, qualificationVars, passiveVars, lawVars,
                         tableVars>>
     \/ started = "passive" /\ Passive!Next
          /\ UNCHANGED <<vars, runVars, cruiseVars, qualificationVars, realtimeVars, lawVars,
                         tableVars>>
     \/ started = "law" /\ Law!Next
          /\ UNCHANGED <<vars, runVars, cruiseVars, qualificationVars, realtimeVars, passiveVars,
                         tableVars>>
     \/ started = "tables" /\ Record!Next
          /\ UNCHANGED <<vars, runVars, cruiseVars, qualificationVars, realtimeVars,
                         passiveVars,
                         lawVars>>

MCSpec ==
  /\ MCInit
  /\ [][MCNext]_<<started, vars, runVars, cruiseVars, qualificationVars, realtimeVars, passiveVars,
                lawVars, tableVars>>
  /\ WF_<<vars, runVars>>(started = "experiment" /\ Experiment!Proceed)
-----------------------------------------------------------------------------
\* The torque the vehicle is held under obeys the drive and the request, from one
\* event of the cruise session to the next (ComputeCandidate, Step of the
\* conditioner); and the law that guides the wheels knows no side, only redistributes
\* what the line asks for, and is the same on a curve and on the line that starts with
\* it (IrwFullStateWheelSpeedGuidanceRecurrence::Step and its schedules); see
\* CruiseSession and GuidanceLaw.
TorquesObeyTheirLaws ==
  /\ Cruise!HeldTorqueObeysTheDrive
  /\ started = "law" =>
       /\ Law!LawIsMirrorSymmetric /\ Law!GuidanceOnlyRedistributes
       /\ Law!CurveIsTheFirstOfTheLine

\* The experiment ends, published or rejected; see GuidanceRun.
ExperimentEnds == started = "experiment" => Experiment!Ends

\* Each observation of the qualification run belongs to the state beside it
\* (IrwR300 runner, observation_context); see QualificationRun.
ObservationsJoinStates == Qualification!ObservationsJoinStates

\* The work the evidence states is the work all backends have done
\* (QualificationIntegrationWorkLedger); see QualificationRun.
StatedWorkIsTheWorkDone == Qualification!StatedWorkIsTheWorkDone

\* The rows the experiment publishes, the tables of a passive run and those of a
\* co-simulation tell what their vehicles did, sample by sample; and under each name
\* of each table is what it names, for the scripts and the contracts that look it up,
\* in whatever order the plan or the solver have it; see GuidanceRun, PassiveRun,
\* SimpackRealtime and RunTables.
OutputsTellTheRun ==
  /\ Experiment!FilesTellTheRun /\ Passive!RecordTellsTheRun /\ Realtime!TablesTellTheRun
  /\ started = "tables" =>
       /\ Record!TablesTellWhatTheyName /\ Record!ContractsHold
       /\ Record!ScriptsShowWhatTheySay /\ Record!InputsDriveTheirWheels

\* Under control the vehicle of each program moves as the sampled-data loop says:
\* the experiment drives GuidanceLoop, the qualification run and the co-simulation
\* implement SampledDataLoop; see GuidanceRun, QualificationRun, SimpackRealtime.
ControlDrivesTheLoop ==
  Experiment!DrivesTheLoop /\ Qualification!DrivesTheLoop /\ Realtime!ImplementsLoop
=============================================================================
