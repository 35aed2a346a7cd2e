-------------------------- MODULE OutputDirectory --------------------------
(***************************************************************************)
(* Several processes are given the same output path.  Each builds its      *)
(* output in the sibling directory `<name>.partial` and renames it, and a  *)
(* qualification run whose integration fails publishes a report beside it. *)
(* Between any two system calls the other processes may run, and a process *)
(* may be killed.                                                          *)
(*                                                                         *)
(* Three programs share the protocol and differ in details:                *)
(*   "qualification"  AtomicQualificationDirectory and failure results     *)
(*   "experiment"     the AtomicOutputDirectory of the two experiments     *)
(*   "cosimulation"   RunIrwSimpackRealtimeCruise, which keeps what it     *)
(*                    wrote when it fails                                  *)
(***************************************************************************)
EXTENDS Naturals

CONSTANTS Runs,          \* processes, each of them one run
          Program,       \* the program each run executes
          Files          \* how many files a complete output has

Programs == {"qualification", "experiment", "cosimulation"}

ASSUME RunsHavePrograms == Program \in [Runs -> Programs]
ASSUME SomethingIsWritten == Files \in Nat \ {0}

VARIABLES
    stage,     \* of each run: what it is about to do
    written,   \* of each run: the files it has finished
    disk       \* what the four names of the path hold
vars == <<stage, written, disk>>

Names == {"final", "partial", "report", "report.partial"}

Held == {"write", "check", "publish", "look for verdict", "reserve", "report", "link",
         "unreserve", "empty", "remove"}
Stages == {"start", "look", "look again", "create", "ended", "killed"} \cup Held

(* A directory, or the report: how many files it holds and whose they are. *)
Contents == [exists : BOOLEAN, files : Nat, writers : SUBSET Runs]
Nothing  == [exists |-> FALSE, files |-> 0, writers |-> {}]
Empty    == [exists |-> TRUE, files |-> 0, writers |-> {}]
Whole(r) == [exists |-> TRUE, files |-> Files, writers |-> {r}]

TypeOK ==
    /\ stage \in [Runs -> Stages]
    /\ written \in [Runs -> 0 .. Files]
    /\ disk \in [Names -> Contents]

Init ==
    /\ stage = [r \in Runs |-> "start"]
    /\ written = [r \in Runs |-> 0]
    /\ disk = [name \in Names |-> Nothing]

Exists(name) == disk[name].exists

Goes(r, from, to) ==
    /\ stage[r] = from
    /\ stage' = [stage EXCEPT ![r] = to]

Put(name, contents) == disk' = [disk EXCEPT ![name] = contents]

(* A file is opened by its path, whoever's directory is there by now. *)
With(name, r, n) ==
    IF Exists(name)
    THEN [disk EXCEPT ![name].files = @ + n, ![name].writers = @ \cup {r}]
    ELSE disk

-----------------------------------------------------------------------------
(* RequireFailureResultDestinationAvailable *)
VerdictIsOpen == ~ Exists("final") /\ ~ Exists("report") /\ ~ Exists("report.partial")

Start(r) ==
    /\ Goes(r, "start", IF Program[r] = "qualification" => VerdictIsOpen
                        THEN "look" ELSE "ended")
    /\ UNCHANGED <<written, disk>>

(* The constructor looks for both names and then creates the directory,    *)
(* which fails if it is there.  A refused run owns nothing, so nothing is  *)
(* removed when the exception leaves it.                                   *)
LookForFinal(r) ==
    /\ Goes(r, "look", IF Exists("final") THEN "ended" ELSE "look again")
    /\ UNCHANGED <<written, disk>>

(* A refusal that would remove the directory it found: *)
LookForPartialUnowned(r) ==
    /\ Goes(r, "look again", IF Exists("partial") THEN "empty" ELSE "create")
    /\ UNCHANGED <<written, disk>>

LookForPartial(r) ==
    /\ Goes(r, "look again", IF Exists("partial") THEN "ended" ELSE "create")
    /\ UNCHANGED <<written, disk>>

(* A creation that would accept a directory made since the look: *)
CreateOrReuse(r) ==
    /\ Goes(r, "create", "write")
    /\ IF Exists("partial") THEN UNCHANGED disk ELSE Put("partial", Empty)
    /\ UNCHANGED written

Create(r) ==
    /\ IF Exists("partial")
       THEN Goes(r, "create", "ended") /\ UNCHANGED disk
       ELSE Goes(r, "create", "write") /\ Put("partial", Empty)
    /\ UNCHANGED written

(* The run calculates and writes; the completion marker is its last file. *)
Write(r) ==
    /\ Goes(r, "write",
            IF written[r] + 1 < Files THEN "write"
            ELSE IF Program[r] = "qualification" THEN "check" ELSE "publish")
    /\ written' = [written EXCEPT ![r] = @ + 1]
    /\ disk' = With("partial", r, 1)

(* An exception.  Destructors remove the partial directory; a              *)
(* co-simulation notes the failure in it and keeps it.                     *)
Fail(r, from) ==
    /\ UNCHANGED written
    /\ IF Program[r] = "cosimulation"
       THEN Goes(r, from, "ended") /\ disk' = With("partial", r, 1)
       ELSE Goes(r, from, "empty") /\ UNCHANGED disk

WriteFails(r) == Fail(r, "write")

(* AtomicQualificationDirectory::Publish looks once more. *)
CheckFinal(r) ==
    IF Exists("final")
    THEN Fail(r, "check")
    ELSE Goes(r, "check", "publish") /\ UNCHANGED <<written, disk>>

(* rename() of a directory: the target may be absent or an empty directory. *)
CanRename == Exists("partial") /\ disk["final"].files = 0

Publish(r) ==
    IF CanRename
    THEN /\ Goes(r, "publish", "ended")
         /\ disk' = [disk EXCEPT !["final"] = disk["partial"], !["partial"] = Nothing]
         /\ UNCHANGED written
    ELSE Fail(r, "publish")

-----------------------------------------------------------------------------
(* QualificationIntegrationRun::RecordFailure, called while the partial    *)
(* directory is still owned; its own failures are swallowed.               *)
IntegrationFails(r) ==
    /\ Program[r] = "qualification"
    /\ Goes(r, "write", "look for verdict")
    /\ UNCHANGED <<written, disk>>

LookForVerdict(r) ==
    /\ Goes(r, "look for verdict", IF VerdictIsOpen THEN "reserve" ELSE "empty")
    /\ UNCHANGED <<written, disk>>

Reserve(r) ==
    /\ IF Exists("report.partial")
       THEN Goes(r, "reserve", "empty") /\ UNCHANGED disk
       ELSE Goes(r, "reserve", "report") /\ Put("report.partial", Empty)
    /\ UNCHANGED written

WriteReport(r) ==
    /\ UNCHANGED written
    /\ \/ Goes(r, "report", "link") /\ disk' = With("report.partial", r, Files)
       \/ Goes(r, "report", "unreserve") /\ UNCHANGED disk

(* A hard link is not made over an existing file. *)
LinkReport(r) ==
    /\ Goes(r, "link", "unreserve")
    /\ IF Exists("report") \/ ~ Exists("report.partial")
       THEN UNCHANGED disk
       ELSE Put("report", disk["report.partial"])
    /\ UNCHANGED written

Unreserve(r) ==
    /\ Goes(r, "unreserve", "empty")
    /\ Put("report.partial", Nothing)
    /\ UNCHANGED written

(* remove_all: the files first, then the directory. *)
RemoveFiles(r) ==
    /\ Goes(r, "empty", "remove")
    /\ IF Exists("partial") THEN Put("partial", Empty) ELSE UNCHANGED disk
    /\ UNCHANGED written

RemoveDirectory(r) ==
    /\ Goes(r, "remove", "ended")
    /\ Put("partial", Nothing)
    /\ UNCHANGED written

-----------------------------------------------------------------------------
Kill(r) ==
    /\ stage[r] \notin {"start", "ended"}
    /\ Goes(r, stage[r], "killed")
    /\ UNCHANGED <<written, disk>>

(* Somebody else makes a directory of that name. *)
StrangerCreates ==
    /\ ~ Exists("final")
    /\ Put("final", Empty)
    /\ UNCHANGED <<stage, written>>

(* The user removes what a dead run left, since every later run is refused. *)
Holds(r) == stage[r] \in Held

UserRemoves(name) ==
    /\ Exists(name)
    /\ \A r \in Runs : ~ Holds(r)
    /\ Put(name, Nothing)
    /\ UNCHANGED <<stage, written>>

Step(r) ==
    \/ Start(r) \/ LookForFinal(r) \/ LookForPartial(r) \/ Create(r)
    \/ Write(r) \/ WriteFails(r) \/ CheckFinal(r) \/ Publish(r)
    \/ IntegrationFails(r) \/ LookForVerdict(r) \/ Reserve(r) \/ WriteReport(r)
    \/ LinkReport(r) \/ Unreserve(r) \/ RemoveFiles(r) \/ RemoveDirectory(r)

Next ==
    \/ \E r \in Runs : Step(r) \/ Kill(r)
    \/ StrangerCreates
    \/ \E name \in {"partial", "report.partial"} : UserRemoves(name)

Spec == Init /\ [][Next]_vars

-----------------------------------------------------------------------------
(* While a run works in the partial directory, only that run changes it;   *)
(* what a dead run left there is changed by nobody but the user.  Neither  *)
(* a refused run nor its destructor touches a directory it found           *)
(* (atomic_qualification_directory.h: "removes only the partial directory  *)
(* it created").                                                           *)
OnlyItsMakerChangesIt ==
    [][Exists("partial") /\ disk'["partial"] # disk["partial"] =>
          /\ \A r \in Runs : Holds(r) => <<stage[r], written[r]>>' # <<stage[r], written[r]>>
          /\ (\A r \in Runs : ~ Holds(r)) => UNCHANGED stage]_vars

(* Whatever the processes do and wherever they are killed, the path        *)
(* receives one whole output of one run, once, and the report one whole    *)
(* report, which never joins an output that is already there.              *)
Implements ==
    INSTANCE Publication WITH
        result <- IF disk["final"].files = 0 THEN Nothing ELSE disk["final"],
        failure <- disk["report"]
Publishes == Implements!Spec
=============================================================================
