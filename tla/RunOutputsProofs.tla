-------------------------- MODULE RunOutputsProofs --------------------------
(***************************************************************************)
(* What a reader of a run's outputs may rely on, proved for any number of  *)
(* processes on one path, destinations of the stream, datagrams, runs and  *)
(* calls of a recorder.                                                    *)
(*                                                                         *)
(* The output directory is shared by whoever is given its path, so what a  *)
(* process finds there is seldom what it left. The inductive invariant     *)
(* says who may touch the partial directory, what the one who does has put *)
(* into it so far, and what it has learnt about the verdict. Of the sender *)
(* it counts attempts by destination; of the receiver it says that the     *)
(* runs are registered in an order, which eviction and the choice of the   *)
(* run on display rest on, and that a message it still collects is newer   *)
(* than what its lane accepted; of a record, what each table holds between *)
(* buffer and disk; of the report, what its lanes have counted; of the     *)
(* page, that its buffer is in order and ends with what came last.         *)
(*                                                                         *)
(* Sums and filtered sequences are recursive functions. What they compute  *)
(* is proved by induction on the natural numbers, which LEMMA Induction    *)
(* gets from their well-foundedness.                                       *)
(***************************************************************************)
EXTENDS MCRunOutputs, SequenceTheorems, FiniteSetTheorems, WellFoundedInduction, TLAPS

\* The partial directory has at most one owner, for whom it is there;
OneHolder == \A r, q \in Runs : Holds(r) /\ Holds(q) => r = q

Owns(r) == Holds(r) => Exists("partial")

\* it holds the files of its owner and nothing else until something fails;
Wrote(r) ==
    [exists |-> TRUE, files |-> written[r], writers |-> IF written[r] = 0 THEN {} ELSE {r}]

Builds(r) ==
    /\ stage[r] \in {"start", "look", "look again", "create"} => written[r] = 0
    /\ stage[r] = "write" => written[r] < Files
    /\ stage[r] \in {"check", "publish"} => written[r] = Files
    /\ stage[r] \in {"write", "check", "publish"} => disk["partial"] = Wrote(r)

\* and a report is written only while there is no output.
Reports(r) ==
    /\ stage[r] \in {"reserve", "report", "link"} => disk["final"].files = 0
    /\ stage[r] = "report" => disk["report.partial"] = Empty
    /\ stage[r] = "link" => disk["report.partial"] = Whole(r)

DirectoryInv ==
    /\ TypeOK /\ OneHolder
    /\ \A r \in Runs : Owns(r) /\ Builds(r) /\ Reports(r)
    /\ \A name \in Names : Exists(name) \/ disk[name] = Nothing
-----------------------------------------------------------------------------
\* What a process that does not hold the partial directory may do to the path:
\* create that directory, if nobody holds it.
LEMMA NewcomersKeepOut ==
  ASSUME DirectoryInv, NEW r \in Runs,
         Start(r) \/ LookForFinal(r) \/ LookForPartial(r) \/ Create(r)
  PROVE  /\ ~ Holds(r) /\ written' = written /\ written[r] = 0
         /\ \/ /\ disk' = disk
               /\ \E to \in {"look", "look again", "create", "ended"} :
                     stage' = [stage EXCEPT ![r] = to]
            \/ /\ ~ Exists("partial") /\ disk' = [disk EXCEPT !["partial"] = Empty]
               /\ stage' = [stage EXCEPT ![r] = "write"]
BY DEF DirectoryInv, Start, LookForFinal, LookForPartial, Create, Goes, Holds, Held, Builds, Put

LEMMA DirectoryInit == Init => DirectoryInv
<1> SUFFICES ASSUME Init
             PROVE  DirectoryInv
  OBVIOUS
<1>1. Nothing \in Contents
  BY DEF Nothing, Contents
<1>2. TypeOK
  BY <1>1, SomethingIsWritten DEF Init, TypeOK, Stages
<1>3. \A r \in Runs : ~ Holds(r) /\ Builds(r) /\ Reports(r)
  BY DEF Init, Holds, Held, Builds, Reports
<1>4. QED  BY <1>2, <1>3 DEF Init, DirectoryInv, OneHolder, Owns, Names

\* What the owner of the partial directory may do with it.
OwnersStep(r) ==
    \/ Write(r) \/ WriteFails(r) \/ CheckFinal(r) \/ Publish(r)
    \/ IntegrationFails(r) \/ LookForVerdict(r) \/ Reserve(r) \/ WriteReport(r)
    \/ LinkReport(r) \/ Unreserve(r) \/ RemoveFiles(r) \/ RemoveDirectory(r)

\* A process goes from one stage to another and no other process does.
LEMMA GoesAlone ==
  ASSUME stage \in [Runs -> Stages], NEW r \in Runs, NEW from, NEW to \in Stages, Goes(r, from, to)
  PROVE  /\ stage' \in [Runs -> Stages] /\ stage[r] = from /\ stage'[r] = to
         /\ \A q \in Runs : q # r => stage'[q] = stage[q]
BY DEF Goes

\* Files are added to what a name holds.
LEMMA WithTypes ==
  ASSUME TypeOK, NEW r \in Runs, NEW n \in Nat, NEW name \in Names
  PROVE  /\ With(name, r, n) \in [Names -> Contents]
         /\ \A other \in Names : other # name => With(name, r, n)[other] = disk[other]
         /\ ~ Exists(name) => With(name, r, n) = disk
         /\ Exists(name) =>
              With(name, r, n)[name] = [exists |-> TRUE, files |-> disk[name].files + n,
                                        writers |-> disk[name].writers \cup {r}]
<1>1. disk \in [Names -> Contents]
  BY DEF TypeOK
<1>2. CASE ~ Exists(name)
  BY <1>1, <1>2 DEF With
<1>3. CASE Exists(name)
  <2> DEFINE more == [exists |-> TRUE, files |-> disk[name].files + n,
                      writers |-> disk[name].writers \cup {r}]
  <2>1. disk[name] \in Contents /\ disk[name].exists = TRUE
    BY <1>1, <1>3 DEF Exists, Contents
  <2>2. more \in Contents
    BY <2>1 DEF Contents
  <2>3. With(name, r, n)[name] = more
    <3>1. With(name, r, n)[name] =
            [[disk[name] EXCEPT !.files = @ + n] EXCEPT !.writers = disk[name].writers \cup {r}]
      BY <1>1, <1>3 DEF With
    <3>2. QED  BY <2>1, <3>1 DEF Contents
  <2>4. /\ DOMAIN With(name, r, n) = Names
        /\ With(name, r, n) = [other \in Names |-> With(name, r, n)[other]]
        /\ \A other \in Names : other # name => With(name, r, n)[other] = disk[other]
    BY <1>1, <1>3 DEF With
  <2>5. QED  BY <1>1, <1>3, <2>2, <2>3, <2>4
<1>4. QED  BY <1>2, <1>3

LEMMA WithSpares ==
  ASSUME TypeOK, NEW r \in Runs, NEW n \in Nat, NEW name \in Names, NEW other \in Names, other # name
  PROVE  With(name, r, n)[other] = disk[other]
<1>1. disk \in [Names -> Contents]
  BY DEF TypeOK
<1>2. QED  BY <1>1 DEF With

\* What a process does with the directory it holds does not concern the others,
\* who hold nothing.
LEMMA OthersHoldNothing ==
  ASSUME DirectoryInv, NEW r \in Runs, Holds(r),
         stage' \in [Runs -> Stages], written' \in [Runs -> 0 .. Files],
         \A q \in Runs : q # r => stage'[q] = stage[q] /\ written'[q] = written[q]
  PROVE  OneHolder' /\ \A q \in Runs : q # r => Owns(q)' /\ Builds(q)' /\ Reports(q)'
<1>1. \A q \in Runs : q # r => ~ Holds(q) /\ ~ Holds(q)'
  BY DEF DirectoryInv, OneHolder, Holds
<1>2. OneHolder'
  BY <1>1 DEF OneHolder
<1>3. ASSUME NEW q \in Runs, q # r
      PROVE  Owns(q)' /\ Builds(q)' /\ Reports(q)'
  <2>1. stage'[q] \notin Held /\ stage'[q] = stage[q] /\ written'[q] = written[q]
    BY <1>1, <1>3 DEF Holds
  <2>2. Owns(q)' /\ Reports(q)'
    BY <2>1 DEF Owns, Reports, Holds, Held
  <2>3. QED  BY <2>1, <2>2 DEF Builds, DirectoryInv, Held
<1>4. QED  BY <1>2, <1>3

\* Everything an owner's step does keeps the invariant.
LEMMA OwnersKeepIt ==
  ASSUME DirectoryInv, NEW r \in Runs, OwnersStep(r)
  PROVE  DirectoryInv'
<1>1. /\ stage \in [Runs -> Stages] /\ written \in [Runs -> 0 .. Files]
      /\ disk \in [Names -> Contents] /\ written[r] \in 0 .. Files
      /\ {"final", "partial", "report", "report.partial"} = Names /\ Files \in Nat \ {0}
  BY SomethingIsWritten DEF Names, DirectoryInv, TypeOK
<1>2. /\ Empty \in Contents /\ Nothing \in Contents /\ Empty.exists = TRUE /\ Empty.files = 0
      /\ Whole(r) \in Contents /\ Wrote(r) \in Contents
  BY <1>1 DEF Empty, Nothing, Whole, Wrote, Contents
<1>3. Holds(r)
  BY DEF OwnersStep, Write, WriteFails, CheckFinal, Publish, Fail, IntegrationFails,
     LookForVerdict, Reserve, WriteReport, LinkReport, Unreserve, RemoveFiles, RemoveDirectory,
     Goes, Holds, Held
<1>4. /\ Exists("partial") /\ Owns(r) /\ Builds(r) /\ Reports(r)
  BY <1>3 DEF DirectoryInv, Owns, Exists
<1>5. ASSUME NEW from, NEW to \in Stages, Goes(r, from, to), written' \in [Runs -> 0 .. Files],
             \A q \in Runs : q # r => written'[q] = written[q],
             disk' \in [Names -> Contents],
             \A name \in Names : disk'[name].exists \/ disk'[name] = Nothing,
             to \in Held => disk'["partial"].exists,
             Builds(r)', Reports(r)'
      PROVE  DirectoryInv'
  <2>1. /\ stage' \in [Runs -> Stages] /\ stage'[r] = to
        /\ \A q \in Runs : q # r => stage'[q] = stage[q]
    BY <1>1, <1>5, GoesAlone
  <2>2. OneHolder' /\ \A q \in Runs : q # r => Owns(q)' /\ Builds(q)' /\ Reports(q)'
    BY <1>3, <1>5, <2>1, OthersHoldNothing
  <2>3. Owns(r)'
    BY <1>5, <2>1 DEF Owns, Holds, Exists
  <2>4. TypeOK'
    BY <1>5, <2>1 DEF TypeOK
  <2>5. QED  BY <1>5, <2>2, <2>3, <2>4 DEF DirectoryInv, Exists
<1>6. \A name \in Names : disk[name].exists \/ disk[name] = Nothing
  BY DEF DirectoryInv, Exists
<1>7. ASSUME NEW from \in Held, NEW to \in {"empty", "look for verdict", "reserve", "ended"},
             Goes(r, from, to), UNCHANGED written, disk' \in [Names -> Contents],
             \A name \in Names : disk'[name].exists \/ disk'[name] = Nothing,
             to # "ended" => disk'["partial"].exists,
             to = "reserve" => disk'["final"].files = 0
      PROVE  DirectoryInv'
  <2>1. to \in Stages /\ stage'[r] = to
    BY <1>1, <1>7 DEF Goes, Stages, Held
  <2>2. Builds(r)' /\ Reports(r)'
    BY <1>7, <2>1 DEF Builds, Reports
  <2>3. QED  BY <1>1, <1>5, <1>7, <2>1, <2>2 DEF Held
<1>8. ASSUME NEW from \in Held, Fail(r, from)
      PROVE  DirectoryInv'
  <2>1. CASE Program[r] = "cosimulation"
    <3>1. Goes(r, from, "ended") /\ UNCHANGED written /\ disk' = With("partial", r, 1)
      BY <1>8, <2>1 DEF Fail
    <3>2. /\ disk' \in [Names -> Contents]
          /\ \A name \in Names : name # "partial" => disk'[name] = disk[name]
          /\ disk'["partial"] = [exists |-> TRUE, files |-> disk["partial"].files + 1,
                                 writers |-> disk["partial"].writers \cup {r}]
      BY <1>1, <1>4, <3>1, WithTypes DEF DirectoryInv
    <3>3. disk'["partial"].exists
      BY <3>2
    <3>4. QED  BY <1>6, <1>7, <3>1, <3>2, <3>3
  <2>2. CASE Program[r] # "cosimulation"
    <3>1. Goes(r, from, "empty") /\ UNCHANGED <<written, disk>>
      BY <1>8, <2>2 DEF Fail
    <3>2. QED  BY <1>1, <1>4, <1>6, <1>7, <3>1 DEF Exists
  <2>3. QED  BY <2>1, <2>2
<1>9. CASE Write(r)
  <2> DEFINE to == IF written[r] + 1 < Files THEN "write"
                   ELSE IF Program[r] = "qualification" THEN "check" ELSE "publish"
  <2>1. /\ Goes(r, "write", to) /\ to \in Stages /\ stage[r] = "write" /\ stage'[r] = to
        /\ written' = [written EXCEPT ![r] = @ + 1] /\ disk' = With("partial", r, 1)
    BY <1>1, <1>9 DEF Write, Goes, Stages, Held
  <2>2. written[r] < Files /\ disk["partial"] = Wrote(r)
    BY <1>4, <2>1 DEF Builds
  <2>3. /\ written' \in [Runs -> 0 .. Files] /\ written'[r] = written[r] + 1
        /\ \A q \in Runs : q # r => written'[q] = written[q]
    BY <1>1, <2>1, <2>2
  <2>4. /\ disk' \in [Names -> Contents]
        /\ \A name \in Names : name # "partial" => disk'[name] = disk[name]
        /\ disk'["partial"] = [exists |-> TRUE, files |-> disk["partial"].files + 1,
                               writers |-> disk["partial"].writers \cup {r}]
    BY <1>1, <1>4, <2>1, WithTypes DEF DirectoryInv
  <2>5. disk'["partial"] = Wrote(r)'
    <3>1. disk["partial"].files = written[r] /\ disk["partial"].writers \cup {r} = {r}
      BY <2>2 DEF Wrote
    <3>2. written'[r] # 0 /\ written[r] + 1 = written'[r]
      BY <1>1, <2>3
    <3>3. QED  BY <2>4, <3>1, <3>2 DEF Wrote
  <2>6. Builds(r)' /\ Reports(r)'
    BY <1>1, <2>1, <2>2, <2>3, <2>5 DEF Builds, Reports
  <2>7. disk'["partial"].exists
    BY <2>4
  <2>8. QED  BY <1>5, <1>6, <2>1, <2>3, <2>4, <2>6, <2>7
<1>10. CASE WriteFails(r)
  BY <1>8, <1>10 DEF WriteFails, Held
<1>11. CASE CheckFinal(r)
  <2>1. CASE Exists("final")
    BY <1>8, <1>11, <2>1 DEF CheckFinal, Held
  <2>2. CASE ~ Exists("final")
    <3>1. /\ Goes(r, "check", "publish") /\ UNCHANGED <<written, disk>>
          /\ stage[r] = "check" /\ stage'[r] = "publish" /\ "publish" \in Stages
      BY <1>1, <1>11, <2>2 DEF CheckFinal, Goes, Stages, Held
    <3>2. Builds(r)' /\ Reports(r)'
      BY <1>4, <3>1 DEF Builds, Reports, Wrote
    <3>3. QED  BY <1>1, <1>4, <1>5, <1>6, <3>1, <3>2 DEF Exists
  <2>3. QED  BY <2>1, <2>2
<1>12. CASE Publish(r)
  <2>1. CASE CanRename
    <3>1. /\ Goes(r, "publish", "ended") /\ UNCHANGED written
          /\ disk' = [disk EXCEPT !["final"] = disk["partial"], !["partial"] = Nothing]
      BY <1>12, <2>1 DEF Publish
    <3>2. /\ disk' \in [Names -> Contents]
          /\ \A name \in Names : disk'[name].exists \/ disk'[name] = Nothing
      BY <1>1, <1>2, <1>6, <3>1
    <3>3. QED  BY <1>7, <3>1, <3>2 DEF Held
  <2>2. CASE ~ CanRename
    BY <1>8, <1>12, <2>2 DEF Publish, Held
  <2>3. QED  BY <2>1, <2>2
<1>13. CASE IntegrationFails(r)
  BY <1>1, <1>4, <1>6, <1>7, <1>13 DEF IntegrationFails, Held, Exists
<1>14. CASE LookForVerdict(r)
  <2>1. VerdictIsOpen => disk["final"].files = 0
    BY <1>1, <1>6 DEF VerdictIsOpen, Exists, Nothing
  <2>2. QED  BY <1>1, <1>4, <1>6, <1>7, <1>14, <2>1 DEF LookForVerdict, Held, Exists
<1>15. CASE Reserve(r)
  <2>1. CASE Exists("report.partial")
    BY <1>1, <1>4, <1>6, <1>7, <1>15, <2>1 DEF Reserve, Held, Exists
  <2>2. CASE ~ Exists("report.partial")
    <3>1. /\ Goes(r, "reserve", "report") /\ UNCHANGED written
          /\ disk' = [disk EXCEPT !["report.partial"] = Empty]
          /\ stage[r] = "reserve" /\ stage'[r] = "report" /\ "report" \in Stages
      BY <1>1, <1>15, <2>2 DEF Reserve, Put, Goes, Stages, Held
    <3>2. /\ disk' \in [Names -> Contents] /\ disk'["report.partial"] = Empty
          /\ \A name \in Names : name # "report.partial" => disk'[name] = disk[name]
      BY <1>1, <1>2, <3>1
    <3>3. Builds(r)' /\ Reports(r)'
      BY <1>1, <1>4, <3>1, <3>2 DEF Builds, Reports
    <3>4. QED  BY <1>1, <1>2, <1>4, <1>5, <1>6, <3>1, <3>2, <3>3 DEF Exists
  <2>3. QED  BY <2>1, <2>2
<1>16. CASE WriteReport(r)
  <2>1. stage[r] = "report" /\ UNCHANGED written /\ {"link", "unreserve"} \subseteq Stages
    BY <1>16 DEF WriteReport, Goes, Stages, Held
  <2>2. disk["report.partial"] = Empty /\ disk["final"].files = 0
    BY <1>4, <2>1 DEF Reports
  <2>3. CASE Goes(r, "report", "link") /\ disk' = With("report.partial", r, Files)
    <3>1. stage'[r] = "link" /\ Exists("report.partial")
      BY <1>1, <1>2, <2>2, <2>3 DEF Goes, Exists
    <3>2. /\ disk' \in [Names -> Contents]
          /\ \A name \in Names : name # "report.partial" => disk'[name] = disk[name]
          /\ disk'["report.partial"] = [exists |-> TRUE, files |-> 0 + Files, writers |-> {} \cup {r}]
      BY <1>1, <2>2, <2>3, <3>1, WithTypes DEF DirectoryInv, Empty
    <3>3. disk'["report.partial"] = Whole(r) /\ disk'["report.partial"].exists
      BY <1>1, <3>2 DEF Whole
    <3>4. Builds(r)' /\ Reports(r)'
      BY <1>1, <2>1, <2>2, <3>1, <3>2, <3>3 DEF Builds, Reports, Whole
    <3>5. QED  BY <1>1, <1>4, <1>5, <1>6, <2>1, <2>3, <3>2, <3>3, <3>4 DEF Exists
  <2>4. CASE Goes(r, "report", "unreserve") /\ UNCHANGED disk
    <3>1. stage'[r] = "unreserve"
      BY <1>1, <2>4 DEF Goes
    <3>2. Builds(r)' /\ Reports(r)'
      BY <2>1, <2>4, <3>1 DEF Builds, Reports
    <3>3. QED  BY <1>1, <1>4, <1>5, <1>6, <2>1, <2>4, <3>2 DEF Exists
  <2>5. QED  BY <1>16, <2>3, <2>4 DEF WriteReport
<1>17. CASE LinkReport(r)
  <2>1. /\ Goes(r, "link", "unreserve") /\ UNCHANGED written /\ stage'[r] = "unreserve"
        /\ "unreserve" \in Stages
    BY <1>1, <1>17 DEF LinkReport, Goes, Stages, Held
  <2>2. /\ disk' \in [Names -> Contents] /\ disk'["partial"] = disk["partial"]
        /\ \A name \in Names : disk'[name].exists \/ disk'[name] = Nothing
    BY <1>1, <1>6, <1>17 DEF LinkReport, Put, Exists
  <2>3. Builds(r)' /\ Reports(r)'
    BY <2>1 DEF Builds, Reports
  <2>4. QED  BY <1>1, <1>4, <1>5, <2>1, <2>2, <2>3 DEF Exists
<1>18. CASE Unreserve(r)
  BY <1>1, <1>2, <1>4, <1>6, <1>7, <1>18 DEF Unreserve, Put, Held, Exists
<1>19. CASE RemoveFiles(r)
  <2>1. /\ Goes(r, "empty", "remove") /\ UNCHANGED written /\ stage'[r] = "remove"
        /\ "remove" \in Stages /\ disk' = [disk EXCEPT !["partial"] = Empty]
    BY <1>1, <1>4, <1>19 DEF RemoveFiles, Put, Goes, Stages, Held
  <2>2. /\ disk' \in [Names -> Contents] /\ disk'["partial"].exists
        /\ \A name \in Names : disk'[name].exists \/ disk'[name] = Nothing
    BY <1>1, <1>2, <1>6, <2>1
  <2>3. Builds(r)' /\ Reports(r)'
    BY <2>1 DEF Builds, Reports
  <2>4. QED  BY <1>1, <1>5, <2>1, <2>2, <2>3
<1>20. CASE RemoveDirectory(r)
  BY <1>1, <1>2, <1>6, <1>7, <1>20 DEF RemoveDirectory, Put, Held
<1>21. QED
  BY <1>9, <1>10, <1>11, <1>12, <1>13, <1>14, <1>15, <1>16, <1>17, <1>18, <1>19, <1>20 DEF OwnersStep

\* A process that arrives takes the directory only when nobody has it.
LEMMA NewcomersKeepIt ==
  ASSUME DirectoryInv, NEW r \in Runs,
         Start(r) \/ LookForFinal(r) \/ LookForPartial(r) \/ Create(r)
  PROVE  DirectoryInv'
<1>1. /\ stage \in [Runs -> Stages] /\ written \in [Runs -> 0 .. Files]
      /\ disk \in [Names -> Contents] /\ "partial" \in Names
  BY DEF DirectoryInv, TypeOK, Names
<1>2. ~ Holds(r) /\ written' = written /\ written[r] = 0
  BY NewcomersKeepOut
<1>3. ASSUME disk' = disk, NEW to \in {"look", "look again", "create", "ended"},
             stage' = [stage EXCEPT ![r] = to]
      PROVE  DirectoryInv'
  <2>1. /\ stage' \in [Runs -> Stages] /\ stage'[r] = to /\ to \notin Held
        /\ \A q \in Runs : q # r => stage'[q] = stage[q]
    BY <1>1, <1>3 DEF Stages, Held
  <2>2. \A q \in Runs : Holds(q)' => Holds(q) /\ q # r
    BY <2>1 DEF Holds
  <2>3. OneHolder' /\ \A q \in Runs : Owns(q)'
    BY <1>3, <2>2 DEF OneHolder, Owns, DirectoryInv, Exists
  <2>4. ASSUME NEW q \in Runs
        PROVE  Builds(q)' /\ Reports(q)'
    <3>1. CASE q = r
      BY <1>2, <2>1, <3>1 DEF Builds, Reports
    <3>2. CASE q # r
      BY <1>2, <1>3, <2>1, <3>2 DEF DirectoryInv, Builds, Reports, Wrote
    <3>3. QED  BY <3>1, <3>2
  <2>5. QED  BY <1>1, <1>2, <1>3, <2>1, <2>3, <2>4 DEF DirectoryInv, TypeOK, Exists
<1>4. ASSUME ~ Exists("partial"), disk' = [disk EXCEPT !["partial"] = Empty],
             stage' = [stage EXCEPT ![r] = "write"]
      PROVE  DirectoryInv'
  <2>1. \A q \in Runs : ~ Holds(q)
    BY <1>4 DEF DirectoryInv, Owns
  <2>2. /\ stage' \in [Runs -> Stages] /\ stage'[r] = "write"
        /\ \A q \in Runs : q # r => stage'[q] = stage[q]
    BY <1>1, <1>4 DEF Stages, Held
  <2>3. \A q \in Runs : Holds(q)' => q = r
    BY <2>1, <2>2 DEF Holds
  <2>4. /\ disk' \in [Names -> Contents] /\ disk'["partial"] = Empty
        /\ \A name \in Names : name # "partial" => disk'[name] = disk[name]
        /\ Empty.exists
    BY <1>1, <1>4 DEF Empty, Contents
  <2>5. OneHolder' /\ \A q \in Runs : Owns(q)'
    BY <2>3, <2>4 DEF OneHolder, Owns, Exists
  <2>6. Builds(r)' /\ Reports(r)'
    BY <1>2, <2>2, <2>4, SomethingIsWritten DEF Builds, Reports, Wrote, Empty
  <2>7. ASSUME NEW q \in Runs, q # r
        PROVE  Builds(q)' /\ Reports(q)'
    <3>1. stage'[q] = stage[q] /\ stage[q] \notin Held /\ written'[q] = written[q]
      BY <1>2, <2>1, <2>2, <2>7 DEF Holds
    <3>2. QED  BY <3>1 DEF Builds, Reports, DirectoryInv, Held
  <2>8. QED  BY <1>1, <1>2, <2>2, <2>4, <2>5, <2>6, <2>7 DEF DirectoryInv, TypeOK, Exists
<1>5. QED  BY <1>3, <1>4, NewcomersKeepOut

\* Neither a kill, nor a stranger, nor the user puts anything into the partial
\* directory of a process.
LEMMA DisturbancesKeepIt ==
  ASSUME DirectoryInv,
         \/ \E r \in Runs : Kill(r)
         \/ StrangerCreates
         \/ \E name \in {"partial", "report.partial"} : UserRemoves(name)
  PROVE  DirectoryInv'
<1>1. /\ stage \in [Runs -> Stages] /\ written \in [Runs -> 0 .. Files]
      /\ disk \in [Names -> Contents]
      /\ {"final", "partial", "report", "report.partial"} = Names
      /\ \A name \in Names : disk[name].exists \/ disk[name] = Nothing
  BY DEF DirectoryInv, TypeOK, Names, Exists
<1>2. /\ Empty \in Contents /\ Nothing \in Contents /\ Empty.exists = TRUE /\ Empty.files = 0
  BY DEF Empty, Nothing, Contents
<1>3. ASSUME NEW r \in Runs, Kill(r)
      PROVE  DirectoryInv'
  <2>1. /\ stage' \in [Runs -> Stages] /\ stage'[r] = "killed" /\ UNCHANGED <<written, disk>>
        /\ \A q \in Runs : q # r => stage'[q] = stage[q]
    BY <1>1, <1>3 DEF Kill, Goes, Stages
  <2>2. \A q \in Runs : Holds(q)' => Holds(q) /\ q # r
    BY <2>1 DEF Holds, Held
  <2>3. OneHolder' /\ \A q \in Runs : Owns(q)'
    BY <2>1, <2>2 DEF OneHolder, Owns, DirectoryInv, Exists
  <2>4. ASSUME NEW q \in Runs
        PROVE  Builds(q)' /\ Reports(q)'
    <3>1. CASE q = r
      BY <2>1, <3>1 DEF Builds, Reports
    <3>2. CASE q # r
      BY <2>1, <3>2 DEF DirectoryInv, Builds, Reports, Wrote
    <3>3. QED  BY <3>1, <3>2
  <2>5. QED  BY <1>1, <2>1, <2>3, <2>4 DEF DirectoryInv, TypeOK, Exists
<1>4. CASE StrangerCreates
  <2>1. /\ disk' \in [Names -> Contents] /\ disk'["final"] = Empty /\ UNCHANGED <<stage, written>>
        /\ \A name \in Names : name # "final" => disk'[name] = disk[name]
    BY <1>1, <1>2, <1>4 DEF StrangerCreates, Put
  <2>2. OneHolder' /\ \A q \in Runs : Owns(q)' /\ Builds(q)'
    BY <1>1, <2>1 DEF DirectoryInv, OneHolder, Owns, Builds, Holds, Wrote, Exists
  <2>3. \A q \in Runs : Reports(q)'
    BY <1>1, <1>2, <2>1 DEF DirectoryInv, Reports
  <2>4. QED  BY <1>1, <1>2, <2>1, <2>2, <2>3 DEF DirectoryInv, TypeOK, Exists
<1>5. ASSUME NEW name \in {"partial", "report.partial"}, UserRemoves(name)
      PROVE  DirectoryInv'
  <2>1. /\ disk' \in [Names -> Contents] /\ disk'[name] = Nothing /\ UNCHANGED <<stage, written>>
        /\ \A other \in Names : other # name => disk'[other] = disk[other]
        /\ \A q \in Runs : stage[q] \notin Held
    BY <1>1, <1>2, <1>5 DEF UserRemoves, Put, Holds
  <2>2. OneHolder' /\ \A q \in Runs : Owns(q)' /\ Builds(q)' /\ Reports(q)'
    BY <2>1 DEF DirectoryInv, OneHolder, Owns, Builds, Reports, Holds, Held
  <2>3. QED  BY <1>1, <2>1, <2>2 DEF DirectoryInv, TypeOK, Exists
<1>6. QED  BY <1>3, <1>4, <1>5

LEMMA DirectoryStep == DirectoryInv /\ [Next]_vars => DirectoryInv'
<1>1. ASSUME DirectoryInv, Next
      PROVE  DirectoryInv'
  BY <1>1, OwnersKeepIt, NewcomersKeepIt, DisturbancesKeepIt DEF Next, Step, OwnersStep
<1>2. ASSUME DirectoryInv, UNCHANGED vars
      PROVE  DirectoryInv'
  BY <1>2 DEF vars, DirectoryInv, TypeOK, OneHolder, Owns, Builds, Reports, Holds, Wrote, Exists
<1>3. QED  BY <1>1, <1>2
-----------------------------------------------------------------------------
\* While the other ways out are at work, the directory stays as it is.
LEMMA DirectoryIsOnItsOwn == MCSpec => Init /\ [][Next]_vars
<1>1. MCInit => Init
  BY DEF MCInit
<1>2. [MCNext]_<<atWork, vars, recordVars, senderVars, receiverVars, reporterVars, displayVars>>
        => [Next]_vars
  BY DEF MCNext
<1>3. QED  BY <1>1, <1>2, PTL DEF MCSpec

\* The partial directory has at most one owner, holds what that one wrote, and a
\* report is written only while there is no output.
THEOREM DirectoryInvariance == MCSpec => []DirectoryInv
BY DirectoryIsOnItsOwn, DirectoryInit, DirectoryStep, PTL

\* Only the process that made the partial directory changes it while it works;
\* what a dead process left there only the user removes.
THEOREM MakerAlone == MCSpec => OnlyItsMakerChangesIt
<1> DEFINE A == Exists("partial") /\ disk'["partial"] # disk["partial"] =>
                  /\ \A r \in Runs : Holds(r) => <<stage[r], written[r]>>' # <<stage[r], written[r]>>
                  /\ (\A r \in Runs : ~ Holds(r)) => UNCHANGED stage
<1>1. ASSUME DirectoryInv, Next, Exists("partial"), disk'["partial"] # disk["partial"]
      PROVE  /\ \A r \in Runs : Holds(r) => <<stage[r], written[r]>>' # <<stage[r], written[r]>>
             /\ (\A r \in Runs : ~ Holds(r)) => UNCHANGED stage
  <2>1. /\ stage \in [Runs -> Stages] /\ written \in [Runs -> 0 .. Files]
        /\ disk \in [Names -> Contents]
        /\ {"final", "partial", "report", "report.partial"} = Names
    BY <1>1 DEF DirectoryInv, TypeOK, Names
  <2>2. ASSUME NEW r \in Runs, OwnersStep(r)
        PROVE  Holds(r) /\ <<stage[r], written[r]>>' # <<stage[r], written[r]>>
    <3>1. CASE Write(r)
      <4>1. stage[r] = "write" /\ written'[r] = written[r] + 1 /\ written[r] \in Nat
        BY <2>1, <3>1, SomethingIsWritten DEF Write, Goes
      <4>2. QED  BY <4>1 DEF Holds, Held
    <3>2. CASE ~ Write(r)
      <4>1. PICK from \in Held, to \in (Held \cup {"ended"}) \ {"write"} :
               from # to /\ Goes(r, from, to)
        BY <2>2, <3>2 DEF OwnersStep, WriteFails, CheckFinal, Publish, Fail, IntegrationFails,
           LookForVerdict, Reserve, WriteReport, LinkReport, Unreserve, RemoveFiles,
           RemoveDirectory, Held
      <4>2. stage[r] = from /\ stage'[r] = to
        BY <2>1, <4>1 DEF Goes
      <4>3. QED  BY <4>1, <4>2 DEF Holds
    <3>3. QED  BY <3>1, <3>2
  <2>3. ASSUME NEW r \in Runs, Start(r) \/ LookForFinal(r) \/ LookForPartial(r) \/ Create(r)
        PROVE  FALSE
    BY <1>1, <2>3, NewcomersKeepOut
  <2>4. ASSUME NEW r \in Runs, Kill(r)
        PROVE  FALSE
    BY <1>1, <2>4 DEF Kill
  <2>5. CASE StrangerCreates
    BY <1>1, <2>1, <2>5 DEF StrangerCreates, Put
  <2>6. ASSUME NEW name \in {"partial", "report.partial"}, UserRemoves(name)
        PROVE  (\A r \in Runs : ~ Holds(r)) /\ UNCHANGED stage
    BY <2>6 DEF UserRemoves
  <2>7. \A r, q \in Runs : Holds(r) /\ Holds(q) => r = q
    BY <1>1 DEF DirectoryInv, OneHolder
  <2>8. QED  BY <1>1, <2>2, <2>3, <2>4, <2>5, <2>6, <2>7 DEF Next, Step, OwnersStep
<1>2. DirectoryInv /\ [Next]_vars => [A]_vars
  BY <1>1
<1>3. QED  BY <1>2, DirectoryInvariance, DirectoryIsOnItsOwn, PTL DEF OnlyItsMakerChangesIt

\* What a reader sees of the path: an empty directory is nothing to read.
Result == IF disk["final"].files = 0 THEN Nothing ELSE disk["final"]

\* Whatever the processes, the stranger and the user do, what a reader sees stays
\* or is published as Publication says.
LEMMA PublicationStep ==
  ASSUME DirectoryInv, [Next]_vars
  PROVE  \/ \E r \in Runs : Implements!Publish(r) \/ Implements!ReportFailure(r)
         \/ UNCHANGED <<Result, disk["report"]>>
<1>1. /\ stage \in [Runs -> Stages] /\ written \in [Runs -> 0 .. Files]
      /\ disk \in [Names -> Contents] /\ Files \in Nat \ {0}
      /\ {"final", "partial", "report", "report.partial"} = Names
      /\ \A name \in Names : Exists(name) \/ disk[name] = Nothing
  BY SomethingIsWritten DEF DirectoryInv, TypeOK, Names
<1>2. ASSUME disk'["final"] = disk["final"], disk'["report"] = disk["report"]
      PROVE  UNCHANGED <<Result, disk["report"]>>
  BY <1>2 DEF Result
<1>3. ASSUME NEW r \in Runs, NEW n \in Nat, NEW name \in {"partial", "report.partial"},
             disk' = With(name, r, n)
      PROVE  disk'["final"] = disk["final"] /\ disk'["report"] = disk["report"]
  <2>1. TypeOK /\ name \in Names /\ "final" \in Names /\ "report" \in Names
    BY <1>3 DEF DirectoryInv, Names
  <2>2. name # "final" /\ name # "report"
    BY <1>3
  <2>3. With(name, r, n)["final"] = disk["final"]
    BY <2>1, <2>2, WithSpares
  <2>4. With(name, r, n)["report"] = disk["report"]
    BY <2>1, <2>2, WithSpares
  <2>5. QED  BY <1>3, <2>3, <2>4
<1>4. ASSUME NEW r \in Runs, NEW from, Fail(r, from)
      PROVE  UNCHANGED <<Result, disk["report"]>>
  <2>1. disk' = With("partial", r, 1) \/ disk' = disk
    BY <1>4 DEF Fail
  <2>2. CASE disk' = With("partial", r, 1)
    <3>1. 1 \in Nat /\ "partial" \in {"partial", "report.partial"}
      OBVIOUS
    <3>2. disk'["final"] = disk["final"] /\ disk'["report"] = disk["report"]
      BY <2>2, <3>1, <1>3
    <3>3. QED  BY <3>2, <1>2
  <2>3. CASE disk' = disk
    BY <2>3, <1>2
  <2>4. QED  BY <2>1, <2>2, <2>3
<1>5. ASSUME NEW r \in Runs, Publish(r)
      PROVE  Implements!Publish(r) \/ UNCHANGED <<Result, disk["report"]>>
  <2>1. CASE CanRename
    <3>1. stage[r] = "publish"
      BY <1>5, <2>1 DEF Publish, Goes
    <3>2. disk["partial"] = Wrote(r) /\ written[r] = Files
      BY <3>1 DEF DirectoryInv, Builds
    <3>3. disk["partial"] = Whole(r)
      BY <1>1, <3>2 DEF Wrote, Whole
    <3>4. disk'["final"] = Whole(r) /\ disk'["report"] = disk["report"] /\ disk["final"].files = 0
      BY <1>1, <1>5, <2>1, <3>3 DEF Publish, CanRename
    <3>5. Result = Nothing /\ Result' = Whole(r)
      BY <1>1, <3>4 DEF Result, Whole
    <3>6. QED  BY <3>4, <3>5 DEF Implements!Publish, Result
  <2>2. CASE ~ CanRename
    BY <1>4, <1>5, <2>2 DEF Publish
  <2>3. QED  BY <2>1, <2>2
<1>6. ASSUME NEW r \in Runs, LinkReport(r)
      PROVE  Implements!ReportFailure(r) \/ UNCHANGED <<Result, disk["report"]>>
  <2>1. stage[r] = "link" /\ disk["final"].files = 0 /\ disk["report.partial"] = Whole(r)
    BY <1>6 DEF LinkReport, Goes, DirectoryInv, Reports
  <2>2. CASE Exists("report") \/ ~ Exists("report.partial")
    BY <1>2, <1>6, <2>2 DEF LinkReport
  <2>3. CASE ~ (Exists("report") \/ ~ Exists("report.partial"))
    <3>1. disk'["final"] = disk["final"] /\ disk'["report"] = Whole(r) /\ disk["report"] = Nothing
      BY <1>1, <1>6, <2>1, <2>3 DEF LinkReport, Put
    <3>2. Result = Nothing /\ Result' = Nothing
      BY <2>1, <3>1 DEF Result
    <3>3. QED  BY <3>1, <3>2 DEF Implements!ReportFailure, Result
  <2>4. QED  BY <2>2, <2>3
<1>7. ASSUME NEW r \in Runs, WriteReport(r)
      PROVE  UNCHANGED <<Result, disk["report"]>>
  BY <1>1, <1>2, <1>3, <1>7 DEF WriteReport
<1>8. ASSUME NEW r \in Runs, Write(r) \/ WriteFails(r) \/ CheckFinal(r)
      PROVE  UNCHANGED <<Result, disk["report"]>>
  BY <1>2, <1>3, <1>4, <1>8 DEF Write, WriteFails, CheckFinal
<1>9. ASSUME NEW r \in Runs,
             \/ Start(r) \/ LookForFinal(r) \/ LookForPartial(r) \/ Create(r)
             \/ IntegrationFails(r) \/ LookForVerdict(r) \/ Reserve(r) \/ Unreserve(r)
             \/ RemoveFiles(r) \/ RemoveDirectory(r) \/ Kill(r)
      PROVE  UNCHANGED <<Result, disk["report"]>>
  BY <1>1, <1>2, <1>9 DEF Start, LookForFinal, LookForPartial, Create, IntegrationFails,
     LookForVerdict, Reserve, Unreserve, RemoveFiles, RemoveDirectory, Kill, Put
<1>10. CASE StrangerCreates
  <2>1. disk["final"] = Nothing /\ disk'["final"] = Empty /\ disk'["report"] = disk["report"]
    BY <1>1, <1>10 DEF StrangerCreates, Put
  <2>2. QED  BY <2>1 DEF Result, Nothing, Empty
<1>11. ASSUME NEW name \in {"partial", "report.partial"}, UserRemoves(name)
       PROVE  UNCHANGED <<Result, disk["report"]>>
  BY <1>1, <1>2, <1>11 DEF UserRemoves, Put
<1>12. CASE UNCHANGED vars
  BY <1>2, <1>12 DEF vars
<1>13. QED
  BY <1>5, <1>6, <1>7, <1>8, <1>9, <1>10, <1>11, <1>12 DEF Next, Step

\* The shared output directory implements the promise to its readers: one whole
\* output of one run, once, and one whole report, never beside an output.
THEOREM PublishesOnceAndWhole == MCSpec => Publishes
<1>1. Init => Implements!Init
  BY DEF Init, Implements!Init, Nothing, Names
<1>2. DirectoryInv /\ [Next]_vars
        => [Implements!Next]_<<Result, disk["report"]>>
  BY PublicationStep DEF Implements!Next
<1>3. QED
  BY <1>1, <1>2, DirectoryInvariance, DirectoryIsOnItsOwn, PTL
     DEF Publishes, Implements!Spec, Result
-----------------------------------------------------------------------------
(***************************************************************************)
(* The stream's sender.  The waits are bounded because the clock runs      *)
(* while the sender polls: they never exceed what the clock shows, and a   *)
(* poll ends less than a millisecond past the budget.  The datagrams are   *)
(* accounted for destination by destination.                               *)
(***************************************************************************)
InTime ==
    /\ waited <= clock /\ waited < Budget + Millisecond
    /\ call = "poll" => clock <= timeout /\ timeout < Budget + Millisecond

Attempted(d) == sent[d] + failed[d]

InTurn ==
    /\ message = 0 => call = "idle" /\ \A d \in 1 .. Destinations : Attempted(d) = 0
    /\ message > 0 /\ call = "idle" => \A d \in 1 .. Destinations : Attempted(d) = parts
    /\ call # "idle" =>
         /\ part <= parts /\ Attempted(address) = part - 1
         /\ \A d \in 1 .. Destinations :
              /\ d < address => Attempted(d) = parts
              /\ d > address => Attempted(d) = 0

SenderInv == Sender!TypeOK /\ InTime /\ InTurn

LEMMA SenderNumbers ==
  /\ Destinations \in Nat \ {0} /\ MaxParts \in Nat \ {0} /\ Messages \in Nat
  /\ Millisecond \in Nat \ {0} /\ Budget \in Nat /\ Late \in Nat /\ Late > Millisecond
BY OutputAssumptions DEF Sender!SenderAssumption

\* A time rounded up to whole milliseconds is less than a millisecond longer.
LEMMA RoundedUp ==
  ASSUME NEW t \in Nat \ {0}
  PROVE  /\ ((t + Millisecond - 1) \div Millisecond) * Millisecond \in Nat
         /\ ((t + Millisecond - 1) \div Millisecond) * Millisecond >= t
         /\ ((t + Millisecond - 1) \div Millisecond) * Millisecond < t + Millisecond
<1> DEFINE q == (t + Millisecond - 1) \div Millisecond
           r == (t + Millisecond - 1) % Millisecond
<1>1. Millisecond \in Nat \ {0} /\ t + Millisecond - 1 \in Nat
  BY SenderNumbers
<1>2. q \in Nat /\ r \in 0 .. Millisecond - 1 /\ t + Millisecond - 1 = Millisecond * q + r
  BY <1>1
<1>3. q * Millisecond = Millisecond * q /\ q * Millisecond \in Nat
  BY <1>1, <1>2
<1> HIDE DEF q, r
<1>4. q * Millisecond = t + Millisecond - 1 - r
  BY <1>1, <1>2, <1>3
<1>5. QED  BY <1>1, <1>2, <1>3, <1>4 DEF q

\* After an attempt the sender goes on to the next datagram, or has attempted
\* every one to every destination.
LEMMA NextInTurn ==
  ASSUME SenderInv, call # "idle", Sender!NextDatagram, UNCHANGED <<message, parts>>,
         sent' \in [1 .. Destinations -> Nat], failed' \in [1 .. Destinations -> Nat],
         \A d \in 1 .. Destinations :
           Attempted(d)' = IF d = address THEN Attempted(d) + 1 ELSE Attempted(d)
  PROVE  /\ InTurn'
         /\ address' \in 1 .. Destinations /\ part' \in 1 .. MaxParts /\ call' \in {"idle", "sendto"}
<1>1. /\ address \in 1 .. Destinations /\ part \in 1 .. parts /\ parts \in 1 .. MaxParts
      /\ message \in Nat /\ message # 0 /\ Destinations \in Nat /\ MaxParts \in Nat
  BY SenderNumbers DEF SenderInv, InTurn, Sender!TypeOK
<1>2. /\ Attempted(address) = part - 1
      /\ \A d \in 1 .. Destinations : /\ d < address => Attempted(d) = parts
                                      /\ d > address => Attempted(d) = 0
  BY DEF SenderInv, InTurn
<1>3. \A d \in 1 .. Destinations : /\ d = address => Attempted(d)' = part
                                   /\ d # address => Attempted(d)' = Attempted(d)
  BY <1>1, <1>2
<1>4. CASE part < parts
  <2>1. part' = part + 1 /\ call' = "sendto" /\ address' = address
    BY <1>4 DEF Sender!NextDatagram
  <2>2. QED  BY <1>1, <1>2, <1>3, <1>4, <2>1 DEF InTurn
<1>5. CASE part = parts /\ address < Destinations
  <2>1. address' = address + 1 /\ part' = 1 /\ call' = "sendto"
    BY <1>1, <1>5 DEF Sender!NextDatagram
  <2>2. \A d \in 1 .. Destinations : /\ d < address + 1 => Attempted(d)' = parts
                                     /\ d >= address + 1 => Attempted(d)' = 0
    BY <1>1, <1>2, <1>3, <1>5
  <2>3. QED  BY <1>1, <1>5, <2>1, <2>2 DEF InTurn
<1>6. CASE part = parts /\ address = Destinations
  <2>1. call' = "idle" /\ address' = address /\ part' = part
    BY <1>1, <1>6 DEF Sender!NextDatagram
  <2>2. \A d \in 1 .. Destinations : Attempted(d)' = parts
    BY <1>1, <1>2, <1>3, <1>6
  <2>3. QED  BY <1>1, <2>1, <2>2 DEF InTurn
<1>7. QED  BY <1>1, <1>4, <1>5, <1>6

\* One attempt at a datagram is counted once, as sent or as failed.
LEMMA CountedOnce ==
  ASSUME SenderInv, call # "idle", Sender!NextDatagram,
         UNCHANGED <<clock, message, parts, timeout, waited>>,
         \/ sent' = [sent EXCEPT ![address] = @ + 1] /\ failed' = failed
         \/ failed' = [failed EXCEPT ![address] = @ + 1] /\ sent' = sent
  PROVE  SenderInv'
<1> USE SenderNumbers
<1>1. /\ address \in 1 .. Destinations /\ part \in 1 .. parts /\ parts \in 1 .. MaxParts
      /\ sent \in [1 .. Destinations -> 0 .. MaxParts]
      /\ failed \in [1 .. Destinations -> 0 .. MaxParts]
      /\ sent[address] + failed[address] = part - 1
  BY DEF SenderInv, InTurn, Sender!TypeOK, Attempted
<1>2. /\ sent[address] \in Nat /\ failed[address] \in Nat
      /\ sent[address] + 1 <= MaxParts /\ failed[address] + 1 <= MaxParts
  BY <1>1
<1>3. ASSUME NEW counted \in [1 .. Destinations -> 0 .. MaxParts], counted[address] + 1 <= MaxParts,
             NEW more, more = [counted EXCEPT ![address] = @ + 1]
      PROVE  /\ more \in [1 .. Destinations -> 0 .. MaxParts]
             /\ \A d \in 1 .. Destinations :
                  more[d] = IF d = address THEN counted[d] + 1 ELSE counted[d]
  <2>1. counted[address] + 1 \in 0 .. MaxParts
    BY <1>1, <1>3
  <2>2. QED  BY <1>1, <1>3, <2>1
<1>4. /\ sent' \in [1 .. Destinations -> 0 .. MaxParts]
      /\ failed' \in [1 .. Destinations -> 0 .. MaxParts]
      /\ \A d \in 1 .. Destinations :
           Attempted(d)' = IF d = address THEN Attempted(d) + 1 ELSE Attempted(d)
  <2>1. CASE sent' = [sent EXCEPT ![address] = @ + 1] /\ failed' = failed
    <3>1. /\ sent' \in [1 .. Destinations -> 0 .. MaxParts]
          /\ \A d \in 1 .. Destinations :
               sent'[d] = IF d = address THEN sent[d] + 1 ELSE sent[d]
      BY <1>1, <1>2, <1>3, <2>1
    <3>2. QED  BY <1>1, <2>1, <3>1 DEF Attempted
  <2>2. CASE failed' = [failed EXCEPT ![address] = @ + 1] /\ sent' = sent
    <3>1. /\ failed' \in [1 .. Destinations -> 0 .. MaxParts]
          /\ \A d \in 1 .. Destinations :
               failed'[d] = IF d = address THEN failed[d] + 1 ELSE failed[d]
      BY <1>1, <1>2, <1>3, <2>2
    <3>2. QED  BY <1>1, <2>2, <3>1 DEF Attempted
  <2>3. QED  BY <2>1, <2>2
<1>5. /\ sent' \in [1 .. Destinations -> Nat] /\ failed' \in [1 .. Destinations -> Nat]
  BY <1>4
<1>6. /\ InTurn'
      /\ address' \in 1 .. Destinations /\ part' \in 1 .. MaxParts /\ call' \in {"idle", "sendto"}
  BY <1>4, <1>5, NextInTurn
<1>7. InTime'
  BY <1>6 DEF SenderInv, InTime
<1>8. Sender!TypeOK'
  BY <1>4, <1>6 DEF SenderInv, Sender!TypeOK
<1>9. QED  BY <1>6, <1>7, <1>8 DEF SenderInv

\* A datagram that is given up is counted as failed.
LEMMA GivenUpIsCounted ==
  ASSUME SenderInv, call # "idle", Sender!GiveUp
  PROVE  SenderInv'
BY CountedOnce DEF Sender!GiveUp, Sender!message_vars

\* Going from one call to another counts nothing and takes no time.
LEMMA CallsCountNothing ==
  ASSUME SenderInv, call # "idle", call' \in {"sendto", "wait", "poll"},
         UNCHANGED <<clock, message, parts, address, part, waited, sent, failed>>,
         timeout' \in 0 .. Budget + Millisecond,
         call' = "poll" => clock <= timeout' /\ timeout' < Budget + Millisecond
  PROVE  SenderInv'
<1>1. Sender!TypeOK'
  BY DEF SenderInv, Sender!TypeOK
<1>2. InTime'
  BY DEF SenderInv, InTime
<1>3. InTurn'
  <2>1. message > 0 /\ message \in Nat
    BY DEF SenderInv, InTurn, Sender!TypeOK
  <2>2. QED  BY <2>1 DEF SenderInv, InTurn, Attempted
<1>4. QED  BY <1>1, <1>2, <1>3 DEF SenderInv

LEMMA SenderInit == Sender!Init => SenderInv
<1> SUFFICES ASSUME Sender!Init
             PROVE  SenderInv
  OBVIOUS
<1>1. \A d \in 1 .. Destinations : sent[d] = 0 /\ failed[d] = 0
  BY DEF Sender!Init, Sender!None
<1>2. Sender!TypeOK
  BY SenderNumbers DEF Sender!Init, Sender!TypeOK, Sender!None
<1>3. InTime /\ InTurn
  BY <1>1, SenderNumbers DEF Sender!Init, InTime, InTurn, Attempted
<1>4. QED  BY <1>2, <1>3 DEF SenderInv

LEMMA SenderStep == SenderInv /\ [Sender!Next]_senderVars => SenderInv'
<1> SUFFICES ASSUME SenderInv, [Sender!Next]_senderVars
             PROVE  SenderInv'
  OBVIOUS
<1> USE SenderNumbers
<1>1. /\ clock \in 0 .. Budget + Late /\ timeout \in 0 .. Budget + Millisecond
      /\ message \in 0 .. Messages /\ waited \in Nat
  BY DEF SenderInv, Sender!TypeOK
<1>2. CASE Sender!Publish
  <2>1. /\ message' = message + 1 /\ parts' \in 1 .. MaxParts /\ address' = 1 /\ part' = 1
        /\ clock' = 0 /\ waited' = 0 /\ call' = "sendto" /\ timeout' = timeout
        /\ message < Messages
        /\ sent' = [d \in 1 .. Destinations |-> 0] /\ failed' = [d \in 1 .. Destinations |-> 0]
    BY <1>2 DEF Sender!Publish, Sender!None
  <2>2. Sender!TypeOK'
    BY <1>1, <2>1 DEF Sender!TypeOK
  <2>3. InTime'
    BY <2>1 DEF InTime
  <2>4. \A d \in 1 .. Destinations : Attempted(d)' = 0
    BY <2>1 DEF Attempted
  <2>5. InTurn'
    BY <1>1, <2>1, <2>4 DEF InTurn
  <2>6. QED  BY <2>2, <2>3, <2>5 DEF SenderInv
<1>3. CASE Sender!Sent
  BY <1>3, CountedOnce DEF Sender!Sent, Sender!message_vars
<1>4. CASE Sender!SendFails \/ Sender!BudgetSpent \/ Sender!TimedOut \/ Sender!PollFails
  BY <1>4, GivenUpIsCounted DEF Sender!SendFails, Sender!BudgetSpent, Sender!TimedOut,
     Sender!PollFails
<1>5. CASE Sender!WouldBlock \/ Sender!Interrupted
  BY <1>1, <1>5, CallsCountNothing DEF Sender!WouldBlock, Sender!Interrupted, Sender!message_vars
<1>6. CASE Sender!WaitWritable
  <2> DEFINE left == Budget - clock
             wait == ((left + Millisecond - 1) \div Millisecond) * Millisecond
  <2>1. left \in Nat \ {0} /\ timeout' = clock + wait
    BY <1>1, <1>6 DEF Sender!WaitWritable, Sender!Remaining
  <2>2. wait \in Nat /\ wait >= left /\ wait < left + Millisecond
    BY <2>1, RoundedUp
  <2> HIDE DEF wait
  <2>3. timeout' \in 0 .. Budget + Millisecond /\ clock <= timeout' /\ timeout' < Budget + Millisecond
    BY <1>1, <2>1, <2>2
  <2>4. QED  BY <1>6, <2>3, CallsCountNothing DEF Sender!WaitWritable, Sender!message_vars
<1>7. CASE Sender!Writable
  <2>1. CASE Sender!Remaining > 0
    BY <1>1, <1>7, <2>1, CallsCountNothing DEF Sender!Writable, Sender!message_vars
  <2>2. CASE ~ (Sender!Remaining > 0)
    BY <1>7, <2>2, GivenUpIsCounted DEF Sender!Writable
  <2>3. QED  BY <2>1, <2>2
<1>8. CASE Sender!Tick
  <2>1. /\ clock' = clock + 1 /\ clock < Budget + Late
        /\ UNCHANGED <<message, parts, address, part, call, timeout, sent, failed>>
        /\ waited' = (IF call = "poll" THEN waited + 1 ELSE waited)
        /\ call = "poll" => clock < timeout
    BY <1>8 DEF Sender!Tick, Sender!message_vars
  <2>2. Sender!TypeOK'
    BY <1>1, <2>1 DEF SenderInv, Sender!TypeOK
  <2>3. InTime'
    BY <1>1, <2>1 DEF SenderInv, InTime
  <2>4. InTurn'
    BY <2>1 DEF SenderInv, InTurn, Attempted
  <2>5. QED  BY <2>2, <2>3, <2>4 DEF SenderInv
<1>9. CASE UNCHANGED senderVars
  BY <1>9 DEF senderVars, SenderInv, Sender!TypeOK, InTime, InTurn, Attempted
<1>10. QED
  BY <1>2, <1>3, <1>4, <1>5, <1>6, <1>7, <1>8, <1>9 DEF Sender!Next, Sender!Send

\* Every attempt of the sender is counted for its destination.
THEOREM SenderInvariance == MCSpec => []SenderInv
<1>1. MCInit => Sender!Init
  BY DEF MCInit
<1>2. [MCNext]_<<atWork, vars, recordVars, senderVars, receiverVars, reporterVars, displayVars>>
        => [Sender!Next]_senderVars
  BY DEF MCNext
<1>3. QED  BY <1>1, <1>2, SenderInit, SenderStep, PTL DEF MCSpec

\* However often sends block and polls are interrupted, the waits of one message
\* end less than a millisecond past its budget, and when Publish returns every
\* datagram has been sent to each destination or counted as failed there, once.
THEOREM Accounted == MCSpec => []EveryDatagramIsAccountedInTime
<1>1. ASSUME SenderInv
      PROVE  EveryDatagramIsAccountedInTime
  <2>1. waited < Budget + Millisecond /\ (call = "poll" => timeout < Budget + Millisecond)
    BY <1>1 DEF SenderInv, InTime
  <2>2. /\ address \in 1 .. Destinations /\ part \in Nat /\ parts \in Nat /\ message \in Nat
        /\ Destinations \in Nat
    BY <1>1, SenderNumbers DEF SenderInv, Sender!TypeOK
  <2>3. ASSUME NEW d \in 1 .. Destinations
        PROVE  /\ call = "idle" /\ message > 0 => sent[d] + failed[d] = parts
               /\ sent[d] + failed[d] <= parts
    BY <1>1, <2>2 DEF SenderInv, InTurn, Attempted
  <2>4. QED
    BY <2>1, <2>3 DEF EveryDatagramIsAccountedInTime, Sender!EveryDatagramIsAccountedInTime
<1>2. QED  BY <1>1, SenderInvariance, PTL
-----------------------------------------------------------------------------
(***************************************************************************)
(* The receiver of the live server.  What a run's entry holds fits         *)
(* together, and the order in which runs were registered is an order; with *)
(* both, the run on display is the latest that can be shown.  Nothing here *)
(* depends on what the messages of the checked instance contain.           *)
(***************************************************************************)
EntriesFit ==
    /\ DOMAIN runs \subseteq Run
    /\ \A r \in DOMAIN runs : runs[r] \in Receiver!Entry
    /\ Receiver!StatesFitDescriptions

RegisteredInOrder ==
    /\ registered \subseteq (DOMAIN runs) \X (DOMAIN runs)
    /\ \A r \in DOMAIN runs : <<r, r>> \notin registered
    /\ \A r, q \in DOMAIN runs : r # q => <<r, q>> \in registered \/ <<q, r>> \in registered
    /\ \A r, q, p \in DOMAIN runs :
         <<r, q>> \in registered /\ <<q, p>> \in registered => <<r, p>> \in registered

ReceiverInv == EntriesFit /\ RegisteredInOrder /\ Receiver!LatestReadyRunIsActive

LEMMA ReceiverNumbers ==
  /\ NoRun \notin Run /\ NoMessage \notin Receiver!Message /\ MaxSequence \in Nat
  /\ MaxRuns \in Nat \ {0, 1} /\ MaxPartials \in Nat \ {0}
  /\ Invalid \notin {one, two}
BY OutputAssumptions DEF Receiver!ReceiverAssumption

\* What a message does to the entry of its run: it stays typed, what it binds
\* fits, what was there is not lost, and whether it is retired is left alone.
Fits(entry) ==
    /\ entry.state # NoMessage =>
         /\ entry.description # NoMessage
         /\ MCContent[entry.state] = MCContent[entry.description]
    /\ entry.pending # NoMessage => entry.description = NoMessage

Updates(m, entry) ==
    LET old == Receiver!Known(m.run)
    IN  /\ entry \in Receiver!Entry /\ Fits(entry) /\ entry.retired = old.retired
        /\ old.description # NoMessage => entry.description # NoMessage
        /\ old.state # NoMessage => entry.state # NoMessage
        /\ m.kind # "state" /\ Receiver!Ready(old) => entry.state = old.state
        /\ m.kind = "state" /\ Receiver!Ready(old) =>
             /\ entry.state = m
             /\ m.sequence > old.state.sequence

\* What is known of a run, or of one that nothing is known of.
LEMMA KnownFits ==
  ASSUME EntriesFit, NEW r
  PROVE  Receiver!Known(r) \in Receiver!Entry /\ Fits(Receiver!Known(r))
<1>1. CASE r \in DOMAIN runs
  BY <1>1 DEF EntriesFit, Receiver!StatesFitDescriptions, Receiver!Known, Fits
<1>2. CASE r \notin DOMAIN runs
  BY <1>2 DEF Receiver!Known, Receiver!NewEntry, Receiver!Entry, Fits
<1>3. QED  BY <1>1, <1>2

LEMMA DescriptionUpdates ==
  ASSUME EntriesFit, NEW m \in Receiver!Message, m.kind = "description",
         Receiver!Known(m.run).description # NoMessage =>
           MCContent[Receiver!Known(m.run).description] = MCContent[m]
  PROVE  Updates(m, Receiver!Described(m))
<1> DEFINE old == Receiver!Known(m.run)
           held == Receiver!Promoted(m)
           entry == Receiver!Described(m)
<1>1. old \in Receiver!Entry /\ Fits(old)
  BY KnownFits
<1>2. m # NoMessage
  BY ReceiverNumbers
<1>3. /\ held \in Receiver!Message \cup {NoMessage}
      /\ held # NoMessage => /\ held = old.pending /\ MCContent[held] = MCContent[m]
                             /\ old.description = NoMessage
  BY <1>1 DEF Receiver!Promoted, Receiver!Entry, Fits
<1>4. /\ entry \in Receiver!Entry /\ entry.description = m /\ entry.pending = NoMessage
      /\ entry.state = IF held # NoMessage THEN held ELSE old.state
      /\ entry.retired = old.retired
  BY <1>1, <1>3 DEF Receiver!Described, Receiver!Entry
<1>5. Fits(entry)
  BY <1>1, <1>2, <1>3, <1>4 DEF Fits
<1>6. Receiver!Ready(old) => entry.state = old.state
  BY <1>3, <1>4 DEF Receiver!Ready
<1>7. QED  BY <1>2, <1>3, <1>4, <1>5, <1>6 DEF Updates

LEMMA HeldUpdates ==
  ASSUME EntriesFit, NEW m \in Receiver!Message, m.kind = "state",
         Receiver!Known(m.run).description = NoMessage
  PROVE  Updates(m, [Receiver!Known(m.run) EXCEPT
                       !.pending = IF @ = NoMessage \/ m.sequence > @.sequence THEN m ELSE @])
<1> DEFINE old == Receiver!Known(m.run)
           kept == IF old.pending = NoMessage \/ m.sequence > old.pending.sequence
                   THEN m ELSE old.pending
           entry == [old EXCEPT !.pending = kept]
<1>1. old \in Receiver!Entry /\ Fits(old)
  BY KnownFits
<1>2. kept \in Receiver!Message \cup {NoMessage}
  BY <1>1 DEF Receiver!Entry
<1> HIDE DEF kept
<1>3. /\ entry \in Receiver!Entry /\ entry.description = old.description
      /\ entry.state = old.state /\ entry.retired = old.retired
  BY <1>1, <1>2 DEF Receiver!Entry
<1>4. Fits(entry)
  BY <1>1, <1>3 DEF Fits
<1>5. ~ Receiver!Ready(old)
  BY DEF Receiver!Ready
<1>6. QED  BY <1>3, <1>4, <1>5 DEF Updates, kept

LEMMA StateUpdates ==
  ASSUME EntriesFit, NEW m \in Receiver!Message, m.kind = "state", Receiver!Admissible(m),
         Receiver!Known(m.run).description # NoMessage,
         MCContent[m] = MCContent[Receiver!Known(m.run).description]
  PROVE  Updates(m, [Receiver!Known(m.run) EXCEPT !.state = m])
<1> DEFINE old == Receiver!Known(m.run)
           entry == [old EXCEPT !.state = m]
<1>1. old \in Receiver!Entry /\ Fits(old) /\ m # NoMessage
  BY KnownFits, ReceiverNumbers
<1>2. /\ entry \in Receiver!Entry /\ entry.description = old.description
      /\ entry.state = m /\ entry.retired = old.retired /\ entry.pending = old.pending
  BY <1>1 DEF Receiver!Entry
<1>3. Fits(entry)
  BY <1>1, <1>2 DEF Fits
<1>4. Receiver!Ready(old) => m.sequence > old.state.sequence
  BY DEF Receiver!Ready, Receiver!Admissible, Receiver!Accepted, Receiver!Known, Receiver!NewEntry
<1>5. QED  BY <1>1, <1>2, <1>3, <1>4 DEF Updates

\* What installing an entry does to the runs and their order, once those of keep
\* are left.
Installs(m, entry, keep) ==
    /\ active # NoRun => active \in keep
    /\ m.run \in DOMAIN runs => keep = DOMAIN runs
    /\ DOMAIN runs' = keep \cup {m.run}
    /\ runs'[m.run] = entry
    /\ \A r \in keep \ {m.run} :
         runs'[r] = IF Receiver!TakesOver(m.run, entry) /\ <<r, m.run>> \in registered'
                    THEN [runs[r] EXCEPT !.retired = TRUE] ELSE runs[r]
    /\ registered' = {p \in registered : p[1] \in keep /\ p[2] \in keep}
                       \cup (IF m.run \in keep THEN {} ELSE keep \X {m.run})
    /\ active' = IF Receiver!TakesOver(m.run, entry) THEN m.run ELSE active
    /\ published' = IF Receiver!Announces(m, entry)
                    THEN [run |-> m.run, state |-> entry.state] ELSE published

LEMMA InstallRuns ==
  ASSUME ReceiverInv, NEW m \in Receiver!Message, NEW entry, NEW acceptedNow,
         Receiver!Install(m, entry, acceptedNow)
  PROVE  \E keep \in SUBSET DOMAIN runs : Installs(m, entry, keep)
<1>1. PICK displaced \in SUBSET DOMAIN runs :
        /\ Receiver!MakesRoom(m.run, displaced)
        /\ registered' = Receiver!Ordered(registered, DOMAIN runs \ displaced, m.run)
        /\ runs' = [r \in (DOMAIN runs \ displaced) \cup {m.run} |->
                      IF r = m.run THEN entry
                      ELSE IF Receiver!TakesOver(m.run, entry) /\ <<r, m.run>> \in registered'
                           THEN [runs[r] EXCEPT !.retired = TRUE]
                           ELSE runs[r]]
        /\ active' = IF Receiver!TakesOver(m.run, entry) THEN m.run ELSE active
        /\ published' = IF Receiver!Announces(m, entry)
                        THEN [run |-> m.run, state |-> entry.state] ELSE published
  BY DEF Receiver!Install
<1> DEFINE keep == DOMAIN runs \ displaced
<1>2. active # NoRun => active \in DOMAIN runs
  BY DEF ReceiverInv, Receiver!LatestReadyRunIsActive
<1>3. /\ active # NoRun => active \in keep
      /\ m.run \in DOMAIN runs => keep = DOMAIN runs
  BY <1>1, <1>2 DEF Receiver!MakesRoom
<1>4. QED  BY <1>1, <1>3 DEF Receiver!Ordered, Installs

\* The registration order stays an order when runs leave and one is added last.
LEMMA OrderIsKept ==
  ASSUME RegisteredInOrder, NEW keep \in SUBSET DOMAIN runs, NEW key,
         DOMAIN runs' = keep \cup {key},
         registered' = {p \in registered : p[1] \in keep /\ p[2] \in keep}
                         \cup (IF key \in keep THEN {} ELSE keep \X {key})
  PROVE  /\ RegisteredInOrder'
         /\ \A r, q \in keep : <<r, q>> \in registered' <=> <<r, q>> \in registered
         /\ key \notin keep => \A r \in keep : <<r, key>> \in registered' /\ <<key, r>> \notin registered'
<1>1. \A r, q : <<r, q>> \in registered' <=>
                  \/ r \in keep /\ q \in keep /\ <<r, q>> \in registered
                  \/ key \notin keep /\ r \in keep /\ q = key
  OBVIOUS
<1>2. registered' \subseteq (DOMAIN runs') \X (DOMAIN runs')
  BY DEF RegisteredInOrder
<1>3. \A r \in keep \cup {key} : <<r, r>> \notin registered'
  BY <1>1 DEF RegisteredInOrder
<1>4. \A r, q \in keep \cup {key} : r # q => <<r, q>> \in registered' \/ <<q, r>> \in registered'
  BY <1>1 DEF RegisteredInOrder
<1>5. \A r, q, p \in keep \cup {key} :
        <<r, q>> \in registered' /\ <<q, p>> \in registered' => <<r, p>> \in registered'
  BY <1>1 DEF RegisteredInOrder
<1>6. QED  BY <1>1, <1>2, <1>3, <1>4, <1>5 DEF RegisteredInOrder

\* After a message the entries still fit together and the order is an order.
LEMMA InstallFits ==
  ASSUME ReceiverInv, NEW m \in Receiver!Message, NEW entry, NEW acceptedNow,
         Receiver!Install(m, entry, acceptedNow), Updates(m, entry)
  PROVE  EntriesFit' /\ RegisteredInOrder'
<1>1. PICK keep \in SUBSET DOMAIN runs : Installs(m, entry, keep)
  BY InstallRuns
<1> USE DEF Installs
<1>2. RegisteredInOrder'
  BY <1>1, OrderIsKept DEF ReceiverInv
<1>3. m.run \in Run /\ DOMAIN runs \subseteq Run
  BY DEF Receiver!Message, ReceiverInv, EntriesFit
<1>4. ASSUME NEW r \in keep \ {m.run}
      PROVE  runs'[r] \in Receiver!Entry /\ Fits(runs'[r])
  <2>1. runs[r] \in Receiver!Entry /\ Fits(runs[r])
    BY <1>4 DEF ReceiverInv, EntriesFit, Receiver!StatesFitDescriptions, Fits
  <2>2. /\ [runs[r] EXCEPT !.retired = TRUE] \in Receiver!Entry
        /\ Fits([runs[r] EXCEPT !.retired = TRUE])
    BY <2>1 DEF Receiver!Entry, Fits
  <2>3. QED  BY <1>1, <1>4, <2>1, <2>2
<1>5. entry \in Receiver!Entry /\ Fits(entry)
  BY DEF Updates
<1>6. \A r \in DOMAIN runs' : runs'[r] \in Receiver!Entry /\ Fits(runs'[r])
  BY <1>1, <1>4, <1>5
<1>7. EntriesFit'
  BY <1>1, <1>3, <1>6 DEF EntriesFit, Receiver!StatesFitDescriptions, Fits
<1>8. QED  BY <1>2, <1>7

\* After a message the run on display is the latest that can be shown, and what
\* is shown is what it was, newer, or another run's.
LEMMA InstallShows ==
  ASSUME ReceiverInv, NEW m \in Receiver!Message, NEW entry, NEW acceptedNow,
         Receiver!Install(m, entry, acceptedNow), Updates(m, entry)
  PROVE  /\ Receiver!LatestReadyRunIsActive'
         /\ \/ active' = active /\ (active # NoRun => runs'[active].state = runs[active].state)
            \/ /\ active' = active /\ active # NoRun
               /\ runs'[active].state.sequence > runs[active].state.sequence
            \/ active' # active /\ active' # NoRun
<1>1. PICK keep \in SUBSET DOMAIN runs : Installs(m, entry, keep)
  BY InstallRuns
<1> USE DEF Installs
<1> DEFINE old == Receiver!Known(m.run)
<1>2. /\ m.run \in Run /\ m.run # NoRun /\ NoRun \notin DOMAIN runs
      /\ m.run \in keep <=> m.run \in DOMAIN runs
  BY <1>1, ReceiverNumbers DEF Receiver!Message, ReceiverInv, EntriesFit
<1>3. /\ \A r, q \in keep : <<r, q>> \in registered' <=> <<r, q>> \in registered
      /\ m.run \notin keep =>
           \A r \in keep : <<r, m.run>> \in registered' /\ <<m.run, r>> \notin registered'
      /\ RegisteredInOrder /\ RegisteredInOrder'
  BY <1>1, OrderIsKept, InstallFits DEF ReceiverInv
<1>4. /\ old = IF m.run \in DOMAIN runs THEN runs[m.run] ELSE Receiver!NewEntry
      /\ entry \in Receiver!Entry /\ entry.retired = old.retired
      /\ Receiver!Ready(old) => Receiver!Ready(entry)
      /\ Receiver!NewEntry.retired = FALSE
  BY DEF Receiver!Known, Updates, Receiver!Ready, Receiver!NewEntry
<1>5. /\ active # NoRun => active \in DOMAIN runs /\ Receiver!Shows(runs[active])
      /\ published = [run |-> active,
                      state |-> IF active = NoRun THEN NoMessage ELSE runs[active].state]
      /\ \A r \in DOMAIN runs \ {active} :
           /\ Receiver!Ready(runs[r]) => runs[r].retired
           /\ runs[r].retired <=> <<r, active>> \in registered
  BY DEF ReceiverInv, Receiver!LatestReadyRunIsActive
<1>6. \A r \in keep \ {m.run} :
        /\ runs'[r].description = runs[r].description /\ runs'[r].state = runs[r].state
        /\ runs'[r].retired = (runs[r].retired \/
             (Receiver!TakesOver(m.run, entry) /\ <<r, m.run>> \in registered'))
  <2> SUFFICES ASSUME NEW r \in keep \ {m.run}
               PROVE  /\ runs'[r].description = runs[r].description /\ runs'[r].state = runs[r].state
                      /\ runs'[r].retired = (runs[r].retired \/
                           (Receiver!TakesOver(m.run, entry) /\ <<r, m.run>> \in registered'))
    OBVIOUS
  <2>1. runs[r] \in Receiver!Entry
    BY DEF ReceiverInv, EntriesFit
  <2>2. CASE Receiver!TakesOver(m.run, entry) /\ <<r, m.run>> \in registered'
    <3>1. runs'[r] = [runs[r] EXCEPT !.retired = TRUE]
      BY <1>1, <2>2
    <3>2. /\ runs'[r].description = runs[r].description /\ runs'[r].state = runs[r].state
          /\ runs'[r].retired = TRUE
      BY <2>1, <3>1 DEF Receiver!Entry
    <3>3. QED  BY <2>2, <3>2
  <2>3. CASE ~ (Receiver!TakesOver(m.run, entry) /\ <<r, m.run>> \in registered')
    <3>1. runs'[r] = runs[r] /\ runs[r].retired \in BOOLEAN
      BY <1>1, <2>1, <2>3 DEF Receiver!Entry
    <3>2. QED  BY <2>3, <3>1
  <2>4. QED  BY <2>2, <2>3
<1>7. CASE Receiver!TakesOver(m.run, entry)
  <2>1. /\ active' = m.run /\ active # m.run /\ Receiver!Shows(entry)
        /\ published' = [run |-> m.run, state |-> entry.state]
    BY <1>1, <1>7 DEF Receiver!TakesOver, Receiver!Announces
  <2>2. \* What was on display was registered before.
        active # NoRun => <<active, m.run>> \in registered' /\ <<m.run, active>> \notin registered'
    <3>1. SUFFICES ASSUME active # NoRun
                   PROVE  <<active, m.run>> \in registered' /\ <<m.run, active>> \notin registered'
      OBVIOUS
    <3>2. CASE m.run \in keep
      <4>1. ~ runs[m.run].retired
        BY <1>2, <1>4, <2>1, <3>2 DEF Receiver!Shows
      <4>2. <<m.run, active>> \notin registered /\ <<active, m.run>> \in registered
        BY <1>1, <1>2, <1>3, <1>5, <2>1, <3>1, <3>2, <4>1 DEF RegisteredInOrder
      <4>3. QED  BY <1>1, <1>3, <3>1, <3>2, <4>2
    <3>3. CASE m.run \notin keep
      BY <1>1, <1>3, <3>1, <3>3
    <3>4. QED  BY <3>2, <3>3
  <2>3. ASSUME NEW r \in keep \ {m.run}
        PROVE  /\ Receiver!Ready(runs'[r]) => runs'[r].retired
               /\ runs'[r].retired <=> <<r, m.run>> \in registered'
    <3>1. Receiver!Ready(runs'[r]) <=> Receiver!Ready(runs[r])
      BY <1>6 DEF Receiver!Ready
    <3>2. runs'[r].retired = (runs[r].retired \/ <<r, m.run>> \in registered')
      BY <1>6, <1>7
    <3>3. CASE r = active
      <4>1. <<r, m.run>> \in registered'
        BY <1>2, <2>2, <3>3 DEF ReceiverInv, EntriesFit
      <4>2. runs'[r].retired = TRUE
        BY <3>2, <4>1
      <4>3. QED  BY <4>1, <4>2
    <3>4. CASE r # active
      <4>1. (Receiver!Ready(runs[r]) => runs[r].retired)
            /\ (runs[r].retired <=> <<r, active>> \in registered)
        BY <1>5, <3>4
      <4>2. <<r, active>> \in registered => active \in keep
        BY <1>1, <1>2 DEF ReceiverInv, RegisteredInOrder
      <4>3. <<r, active>> \in registered => <<r, m.run>> \in registered'
        BY <1>1, <1>2, <1>3, <2>2, <4>2 DEF RegisteredInOrder
      <4>4. QED  BY <3>1, <3>2, <4>1, <4>3
    <3>5. QED  BY <3>3, <3>4
  <2>4. Receiver!LatestReadyRunIsActive'
    BY <1>1, <1>2, <2>1, <2>3 DEF Receiver!LatestReadyRunIsActive
  <2>5. QED  BY <1>2, <2>1, <2>4
<1>8. CASE ~ Receiver!TakesOver(m.run, entry)
  <2>1. active' = active /\ (Receiver!Shows(entry) => active = m.run)
    BY <1>1, <1>8 DEF Receiver!TakesOver
  <2>2. \A r \in keep \ {m.run} : runs'[r] = runs[r]
    BY <1>1, <1>8
  <2>3. ASSUME NEW r \in (keep \cup {m.run}) \ {active}
        PROVE  /\ Receiver!Ready(runs'[r]) => runs'[r].retired
               /\ runs'[r].retired <=> <<r, active>> \in registered'
    <3>1. CASE r # m.run
      <4>1. runs'[r] = runs[r] /\ r \in DOMAIN runs /\ r \in keep
        BY <2>2, <2>3, <3>1
      <4>2. active \in keep => (<<r, active>> \in registered' <=> <<r, active>> \in registered)
        BY <1>3, <4>1
      <4>3. active \notin keep => active = NoRun
        BY <1>1
      <4>4. active = NoRun => <<r, active>> \notin registered' /\ <<r, active>> \notin registered
        BY <1>1, <1>2, <1>3 DEF RegisteredInOrder
      <4>5. QED  BY <1>5, <2>3, <4>1, <4>2, <4>3, <4>4
    <3>2. CASE r = m.run
      <4>1. ~ Receiver!Shows(entry) /\ runs'[r] = entry
        BY <1>1, <2>1, <2>3, <3>2
      <4>2. Receiver!Ready(runs'[r]) => runs'[r].retired
        BY <4>1 DEF Receiver!Shows
      <4>3. active = NoRun => <<r, active>> \notin registered'
        BY <1>1, <1>2, <1>3 DEF RegisteredInOrder
      <4>4. CASE m.run \in keep
        <5>1. runs'[r].retired = runs[r].retired /\ r \in DOMAIN runs
          BY <1>2, <1>4, <3>2, <4>1, <4>4
        <5>2. active # NoRun => (<<r, active>> \in registered' <=> <<r, active>> \in registered)
          BY <1>1, <1>3, <3>2, <4>4
        <5>3. active = NoRun => <<r, active>> \notin registered
          BY <1>2, <1>3 DEF RegisteredInOrder
        <5>4. QED  BY <1>5, <2>3, <4>2, <4>3, <5>1, <5>2, <5>3
      <4>5. CASE m.run \notin keep
        <5>1. runs'[r].retired = FALSE
          BY <1>2, <1>4, <3>2, <4>1, <4>5
        <5>2. <<r, active>> \notin registered'
          BY <1>1, <1>3, <3>2, <4>3, <4>5
        <5>3. QED  BY <4>2, <5>1, <5>2
      <4>6. QED  BY <4>4, <4>5
    <3>3. QED  BY <3>1, <3>2
  <2>4. CASE active # m.run
    <3>1. published' = published
      BY <1>1, <1>8, <2>1, <2>4 DEF Receiver!Announces
    <3>2. active # NoRun => active \in DOMAIN runs' /\ runs'[active] = runs[active]
      BY <1>1, <2>2, <2>4
    <3>3. Receiver!LatestReadyRunIsActive'
      BY <1>1, <1>5, <2>1, <2>3, <3>1, <3>2 DEF Receiver!LatestReadyRunIsActive
    <3>4. QED  BY <2>1, <3>2, <3>3
  <2>5. CASE active = m.run
    <3>1. Receiver!Ready(old) /\ ~ old.retired /\ old = runs[m.run] /\ m.run \in DOMAIN runs
      BY <1>2, <1>4, <1>5, <2>5 DEF Receiver!Shows
    <3>2. Receiver!Shows(entry)
      BY <1>4, <3>1 DEF Receiver!Shows
    <3>3. published' = [run |-> active, state |-> entry.state]
      <4>1. CASE m.kind = "state"
        BY <1>1, <2>5, <3>2, <4>1 DEF Receiver!Announces
      <4>2. CASE m.kind # "state"
        <5>1. entry.state = old.state
          BY <3>1, <4>2 DEF Updates
        <5>2. published' = published
          BY <1>1, <1>8, <4>2 DEF Receiver!Announces
        <5>3. QED  BY <1>2, <1>5, <2>5, <3>1, <5>1, <5>2
      <4>3. QED  BY <4>1, <4>2
    <3>4. Receiver!LatestReadyRunIsActive'
      BY <1>1, <1>2, <2>1, <2>3, <2>5, <3>2, <3>3 DEF Receiver!LatestReadyRunIsActive
    <3>5. \/ entry.state = old.state
          \/ entry.state.sequence > old.state.sequence
      BY <3>1 DEF Updates
    <3>6. QED  BY <1>1, <1>2, <2>1, <2>5, <3>1, <3>4, <3>5
  <2>6. QED  BY <2>4, <2>5
<1>9. QED  BY <1>7, <1>8

\* What a step of the receiver does that changes what it knows of runs.
LEMMA ReceiverSteps ==
  ASSUME ReceiverInv, Receiver!Next
  PROVE  \/ UNCHANGED <<runs, registered, active, published>>
         \/ \E m \in Receiver!Message : \E entry, acceptedNow :
              Receiver!Install(m, entry, acceptedNow) /\ Updates(m, entry)
<1>1. PICK m \in Receiver!Message :
        \/ Receiver!Conflict(m)
        \/ \E f \in Receiver!Fragments(m.kind) :
             \/ Receiver!Collect(m, f)
             \/ Receiver!AcceptDescription(m, f)
             \/ Receiver!HoldState(m, f)
             \/ Receiver!AcceptState(m, f)
             \/ Receiver!Refuse(m, f)
  BY DEF Receiver!Next
<1>2. EntriesFit
  BY DEF ReceiverInv
<1>3. ASSUME NEW entry, NEW acceptedNow, Receiver!Install(m, entry, acceptedNow), Updates(m, entry)
      PROVE  \E n \in Receiver!Message : \E given, accepted_now :
               Receiver!Install(n, given, accepted_now) /\ Updates(n, given)
  BY <1>3
<1>4. ASSUME NEW f \in Receiver!Fragments(m.kind), Receiver!AcceptDescription(m, f)
      PROVE  \E n \in Receiver!Message : \E given, accepted_now :
               Receiver!Install(n, given, accepted_now) /\ Updates(n, given)
  <2>1. Updates(m, Receiver!Described(m))
    BY <1>2, <1>4, DescriptionUpdates DEF Receiver!AcceptDescription
  <2>2. Receiver!Install(m, Receiver!Described(m),
                         {m} \cup ({Receiver!Promoted(m)} \ {NoMessage}))
    BY <1>4 DEF Receiver!AcceptDescription
  <2>3. QED  BY <1>3, <2>1, <2>2
<1>5. ASSUME NEW f \in Receiver!Fragments(m.kind), Receiver!HoldState(m, f)
      PROVE  \E n \in Receiver!Message : \E given, accepted_now :
               Receiver!Install(n, given, accepted_now) /\ Updates(n, given)
  <2> DEFINE held == [Receiver!Known(m.run) EXCEPT
                        !.pending = IF @ = NoMessage \/ m.sequence > @.sequence THEN m ELSE @]
  <2>1. Updates(m, held)
    BY <1>2, <1>5, HeldUpdates DEF Receiver!HoldState
  <2>2. Receiver!Install(m, held, {})
    BY <1>5 DEF Receiver!HoldState
  <2> HIDE DEF held
  <2>3. QED  BY <1>3, <2>1, <2>2
<1>6. ASSUME NEW f \in Receiver!Fragments(m.kind), Receiver!AcceptState(m, f)
      PROVE  \E n \in Receiver!Message : \E given, accepted_now :
               Receiver!Install(n, given, accepted_now) /\ Updates(n, given)
  <2> DEFINE bound == [Receiver!Known(m.run) EXCEPT !.state = m]
  <2>1. Updates(m, bound)
    BY <1>2, <1>6, StateUpdates DEF Receiver!AcceptState, Receiver!Completes
  <2>2. Receiver!Install(m, bound, {m})
    BY <1>6 DEF Receiver!AcceptState
  <2> HIDE DEF bound
  <2>3. QED  BY <1>3, <2>1, <2>2
<1>7. ASSUME NEW f \in Receiver!Fragments(m.kind), Receiver!Collect(m, f) \/ Receiver!Refuse(m, f)
      PROVE  UNCHANGED <<runs, registered, active, published>>
  BY <1>7 DEF Receiver!Collect, Receiver!Refuse
<1>8. Receiver!Conflict(m) => UNCHANGED <<runs, registered, active, published>>
  BY DEF Receiver!Conflict
<1>9. QED  BY <1>1, <1>4, <1>5, <1>6, <1>7, <1>8

LEMMA ReceiverInit == Receiver!Init => ReceiverInv
<1> SUFFICES ASSUME Receiver!Init
             PROVE  ReceiverInv
  OBVIOUS
<1>1. DOMAIN runs = {} /\ registered = {} /\ active = NoRun
      /\ published = [run |-> NoRun, state |-> NoMessage]
  BY DEF Receiver!Init
<1>2. EntriesFit /\ RegisteredInOrder
  BY <1>1 DEF EntriesFit, RegisteredInOrder, Receiver!StatesFitDescriptions
<1>3. Receiver!LatestReadyRunIsActive
  BY <1>1 DEF Receiver!LatestReadyRunIsActive
<1>4. QED  BY <1>2, <1>3 DEF ReceiverInv

LEMMA ReceiverStep == ReceiverInv /\ [Receiver!Next]_receiverVars => ReceiverInv'
<1>1. ASSUME ReceiverInv, UNCHANGED <<runs, registered, active, published>>
      PROVE  ReceiverInv'
  BY <1>1 DEF ReceiverInv, EntriesFit, RegisteredInOrder, Receiver!StatesFitDescriptions,
     Receiver!LatestReadyRunIsActive
<1>2. ASSUME ReceiverInv, NEW m \in Receiver!Message, NEW entry, NEW acceptedNow,
             Receiver!Install(m, entry, acceptedNow), Updates(m, entry)
      PROVE  ReceiverInv'
  BY <1>2, InstallFits, InstallShows DEF ReceiverInv
<1>3. QED  BY <1>1, <1>2, ReceiverSteps DEF receiverVars

\* What the receiver knows of its runs fits together, and they are registered in an
\* order that the run on display heads.
THEOREM ReceiverInvariance == MCSpec => []ReceiverInv
<1>1. MCInit => Receiver!Init
  BY DEF MCInit
<1>2. [MCNext]_<<atWork, vars, recordVars, senderVars, receiverVars, reporterVars, displayVars>>
        => [Receiver!Next]_receiverVars
  BY DEF MCNext
<1>3. QED  BY <1>1, <1>2, ReceiverInit, ReceiverStep, PTL DEF MCSpec

\* Whatever arrives in whatever order, a state is bound only to a description it
\* is laid out by, and is held back only while there is none.
THEOREM StatesFit == MCSpec => []StatesFitDescriptions
<1>1. ReceiverInv => StatesFitDescriptions
  BY DEF ReceiverInv, EntriesFit, StatesFitDescriptions
<1>2. QED  BY <1>1, ReceiverInvariance, PTL

\* The display belongs to the ready run registered last, and the state sent to a
\* client that connects is the one that the others were sent last.
THEOREM LatestIsShown == MCSpec => []LatestReadyRunIsActive
<1>1. ReceiverInv => LatestReadyRunIsActive
  BY DEF ReceiverInv, LatestReadyRunIsActive
<1>2. QED  BY <1>1, ReceiverInvariance, PTL

\* The server's stream is a StreamFeed: within a run states only get newer, another
\* run may take over, and once something is shown there is always something.
THEOREM FeedIsImplemented == MCSpec => ImplementsFeed
<1> DEFINE shown == [run |-> active,
                     sequence |-> IF active = NoRun THEN -1 ELSE runs[active].state.sequence]
<1>1. Receiver!Init => Receiver!Feed!Init
  BY DEF Receiver!Init, Receiver!Feed!Init, Receiver!Feed!Nothing
<1>2. ASSUME ReceiverInv, ReceiverInv', [Receiver!Next]_receiverVars
      PROVE  [Receiver!Feed!Next]_shown
  <2>1. CASE UNCHANGED <<runs, registered, active, published>>
    BY <2>1
  <2>2. ASSUME NEW m \in Receiver!Message, NEW entry, NEW acceptedNow,
               Receiver!Install(m, entry, acceptedNow), Updates(m, entry)
        PROVE  [Receiver!Feed!Next]_shown
    <3>1. CASE active' = active /\ (active # NoRun => runs'[active].state = runs[active].state)
      BY <3>1
    <3>2. CASE active' # NoRun
      <4>1. /\ active' \in Run /\ runs'[active'].state \in Receiver!Message
            /\ active' # NoRun
        BY <1>2, <3>2 DEF ReceiverInv, EntriesFit, Receiver!LatestReadyRunIsActive,
           Receiver!Shows, Receiver!Ready, Receiver!Entry
      <4>2. runs'[active'].state.sequence \in 0 .. MaxSequence
        BY <4>1 DEF Receiver!Message
      <4>3. shown' \in Receiver!Feed!Shown
        BY <4>1, <4>2 DEF Receiver!Feed!Shown
      <4>4. CASE active' # active
        BY <4>3, <4>4 DEF Receiver!Feed!Next, Receiver!Feed!TakeOver
      <4>5. CASE active' = active /\ runs'[active].state.sequence > runs[active].state.sequence
        BY <3>2, <4>3, <4>5 DEF Receiver!Feed!Next, Receiver!Feed!Advance
      <4>6. QED  BY <1>2, <2>2, <3>1, <4>4, <4>5, InstallShows
    <3>3. QED  BY <1>2, <2>2, <3>1, <3>2, InstallShows
  <2>3. QED  BY <1>2, <2>1, <2>2, ReceiverSteps DEF receiverVars
<1>3. MCInit => Receiver!Init
  BY DEF MCInit
<1>4. [MCNext]_<<atWork, vars, recordVars, senderVars, receiverVars, reporterVars, displayVars>>
        => [Receiver!Next]_receiverVars
  BY DEF MCNext
<1>5. QED
  BY <1>1, <1>2, <1>3, <1>4, ReceiverInvariance, PTL
  DEF MCSpec, ImplementsFeed, Receiver!ImplementsFeed, Receiver!Feed!Spec
-----------------------------------------------------------------------------
(***************************************************************************)
(* Scene records.  What a table holds, on disk and in its buffer, is what  *)
(* was accepted for as long as its stream is good; a stream that is not    *)
(* open has nothing in its buffer; and a record gets its document only     *)
(* after both tables were closed while they were good.                     *)
(***************************************************************************)
Handed(stream) == stream.disk \o stream.buffer

TablesHoldTheAccepted ==
    /\ statuses.good => Handed(statuses) = accepted
    /\ statuses.good /\ frames.good =>
         Handed(frames) = IF writer = "status row" THEN Record!Twice(accepted) \o <<calls, calls>>
                        ELSE Record!Twice(accepted)

BuffersAreOfOpenTables ==
    /\ ~ frames.open => frames.buffer = <<>>
    /\ ~ statuses.open => statuses.buffer = <<>>

ClosedInTurn ==
    /\ writer \in {"close statuses", "document", "closed"} => frames.good /\ ~ frames.open
    /\ writer \in {"document", "closed"} => statuses.good /\ ~ statuses.open

DocumentIsLast ==
    document.there =>
      /\ writer \in {"closed", "dead"}
      /\ document.count = count
      /\ statuses.disk = accepted
      /\ frames.disk = Record!Twice(accepted)

RecordInv ==
    /\ Record!TypeOK
    /\ count = Len(accepted) /\ count <= calls /\ (writer = "status row" => count < calls)
    /\ writer = "new" => accepted = <<>>
    /\ writer # "dead" => TablesHoldTheAccepted
    /\ BuffersAreOfOpenTables
    /\ ClosedInTurn
    /\ DocumentIsLast

LEMMA CallsAreBounded == Calls \in Nat
BY OutputAssumptions DEF Record!CallsAssumption

\* The rows of values are two units a frame.
LEMMA TwiceIs ==
  ASSUME NEW S, NEW q \in Seq(S)
  PROVE  /\ Record!Twice(q) \in Seq(S) /\ Len(Record!Twice(q)) = 2 * Len(q)
         /\ \A i \in 1 .. 2 * Len(q) : Record!Twice(q)[i] = q[(i + 1) \div 2]
<1>1. Len(q) \in Nat /\ q \in [1 .. Len(q) -> S] /\ 2 * Len(q) \in Nat
  BY LenProperties
<1>2. \A i \in 1 .. 2 * Len(q) : (i + 1) \div 2 \in 1 .. Len(q)
  BY <1>1
<1>3. Record!Twice(q) \in [1 .. 2 * Len(q) -> S]
  BY <1>1, <1>2 DEF Record!Twice
<1>4. Record!Twice(q) \in Seq(S) /\ Len(Record!Twice(q)) = 2 * Len(q)
  BY <1>1, <1>3, SeqDef
<1>5. QED  BY <1>1, <1>4 DEF Record!Twice

LEMMA TwiceOfNothing == Record!Twice(<<>>) = <<>>
<1>1. <<>> \in Seq({}) /\ Len(<<>>) = 0
  OBVIOUS
<1>2. Record!Twice(<<>>) \in Seq({}) /\ Len(Record!Twice(<<>>)) = 0
  <2>1. Record!Twice(<<>>) \in Seq({}) /\ Len(Record!Twice(<<>>)) = 2 * Len(<<>>)
    BY <1>1, TwiceIs
  <2>2. QED  BY <1>1, <2>1
<1>3. QED  BY <1>2, EmptySeq

\* What the rows of values hold after one more row.
LEMMA TwiceAppended ==
  ASSUME NEW S, NEW s1 \in Seq(S), NEW e \in S
  PROVE  Record!Twice(Append(s1, e)) = Record!Twice(s1) \o <<e, e>>
<1> DEFINE n == Len(s1)
           more == Append(s1, e)
           both == <<e, e>>
           base == Record!Twice(s1)
           left == Record!Twice(more)
           right == base \o both
<1>1. n \in Nat
  BY LenProperties
<1>2. /\ more \in Seq(S) /\ Len(more) = n + 1 /\ more[n + 1] = e
      /\ \A i \in 1 .. n : more[i] = s1[i]
  BY AppendProperties
<1>3. /\ base \in Seq(S) /\ Len(base) = 2 * n
      /\ \A i \in 1 .. 2 * n : base[i] = s1[(i + 1) \div 2]
  BY TwiceIs
<1>4. both \in Seq(S) /\ Len(both) = 2 /\ both[1] = e /\ both[2] = e
  OBVIOUS
<1> HIDE DEF more, both
<1>5. /\ left \in Seq(S) /\ Len(left) = 2 * Len(more)
      /\ \A i \in 1 .. 2 * Len(more) : left[i] = more[(i + 1) \div 2]
  BY <1>2, TwiceIs
<1> HIDE DEF base, n, left
<1>6. /\ right \in Seq(S) /\ Len(right) = Len(base) + Len(both)
      /\ \A i \in 1 .. Len(base) + Len(both) :
           right[i] = IF i <= Len(base) THEN base[i] ELSE both[i - Len(base)]
  BY <1>3, <1>4, ConcatProperties
<1> HIDE DEF right
<1>7. Len(left) = 2 * n + 2 /\ Len(right) = 2 * n + 2
  BY <1>1, <1>2, <1>3, <1>4, <1>5, <1>6
<1>8. ASSUME NEW i \in 1 .. 2 * n + 2
      PROVE  left[i] = right[i]
  <2>1. left[i] = more[(i + 1) \div 2]
    <3>1. i \in 1 .. 2 * Len(more)
      BY <1>1, <1>2, <1>8
    <3>2. QED  BY <1>5, <3>1
  <2>2. right[i] = IF i <= 2 * n THEN base[i] ELSE both[i - 2 * n]
    BY <1>1, <1>3, <1>4, <1>6, <1>8
  <2>3. CASE i <= 2 * n
    <3>1. (i + 1) \div 2 \in 1 .. n /\ i \in 1 .. 2 * n
      BY <1>1, <1>8, <2>3
    <3>2. QED  BY <1>2, <1>3, <2>1, <2>2, <2>3, <3>1
  <2>4. CASE ~ (i <= 2 * n)
    <3>1. (i + 1) \div 2 = n + 1 /\ (i - 2 * n = 1 \/ i - 2 * n = 2)
      BY <1>1, <1>8, <2>4
    <3>2. QED  BY <1>2, <1>4, <2>1, <2>2, <2>4, <3>1
  <2>5. QED  BY <2>3, <2>4
<1>9. left = right
  BY <1>5, <1>6, <1>7, <1>8, SeqEqual
<1>10. QED  BY <1>9 DEF left, right, base, both, more

\* A write leaves the disk alone and, if it succeeds, adds its units to the buffer.
LEMMA PutAdds ==
  ASSUME NEW stream \in Record!Streams, NEW units \in Seq(Record!Units),
         NEW after \in Record!Put(stream, units)
  PROVE  /\ after \in Record!Streams /\ after.open = stream.open
         /\ after.good => /\ stream.good /\ stream.open
                          /\ Handed(after) = Handed(stream) \o units
         /\ ~ stream.open => after.buffer = stream.buffer
<1>1. stream.disk \in Seq(Record!Units) /\ stream.buffer \in Seq(Record!Units)
      /\ stream.good \in BOOLEAN /\ stream.open \in BOOLEAN
  BY DEF Record!Streams
<1>2. CASE stream.good /\ stream.open /\ after = [stream EXCEPT !.buffer = @ \o units]
  <2>1. stream.buffer \o units \in Seq(Record!Units)
    BY <1>1, ConcatProperties
  <2>2. /\ after.disk = stream.disk /\ after.buffer = stream.buffer \o units
        /\ after.open = stream.open /\ after.good = stream.good
    BY <1>2 DEF Record!Streams
  <2>3. after \in Record!Streams
    BY <1>2, <2>1 DEF Record!Streams
  <2>4. Handed(after) = Handed(stream) \o units
    <3> DEFINE disk_before == stream.disk
               buffer_before == stream.buffer
    <3>1. disk_before \in Seq(Record!Units) /\ buffer_before \in Seq(Record!Units)
      BY <1>1
    <3> HIDE DEF disk_before, buffer_before
    <3>2. (disk_before \o buffer_before) \o units = disk_before \o (buffer_before \o units)
      BY <3>1, ConcatAssociative
    <3>3. QED  BY <2>2, <3>2 DEF Handed, disk_before, buffer_before
  <2>5. QED  BY <1>2, <2>2, <2>3, <2>4
<1>3. ASSUME NEW head \in Record!Prefixes(units),
             after = [stream EXCEPT !.buffer = @ \o head, !.good = FALSE]
      PROVE  after \in Record!Streams /\ after.open = stream.open /\ after.good = FALSE
  <2>1. Len(units) \in Nat /\ \A i \in 1 .. Len(units) : units[i] \in Record!Units
    BY LenProperties, ElementOfSeq
  <2>2. PICK l \in 0 .. Len(units) : head = SubSeq(units, 1, l)
    BY <1>3 DEF Record!Prefixes
  <2>3. \A i \in 1 .. l : units[i] \in Record!Units
    BY <2>1, <2>2
  <2>4. l \in Int /\ 1 \in Int
    BY <2>1, <2>2
  <2>5. head \in Seq(Record!Units)
    BY <2>2, <2>3, <2>4, SubSeqProperties
  <2>6. stream.buffer \o head \in Seq(Record!Units)
    BY <1>1, <2>5, ConcatProperties
  <2>7. QED  BY <1>3, <2>6 DEF Record!Streams
<1>4. CASE ~ (stream.good /\ stream.open)
  <2>1. after = [stream EXCEPT !.good = FALSE]
    BY <1>4 DEF Record!Put
  <2>2. after \in Record!Streams /\ after.good = FALSE
        /\ after.open = stream.open /\ after.buffer = stream.buffer
    BY <2>1 DEF Record!Streams
  <2>3. QED  BY <2>2
<1>5. CASE stream.good /\ stream.open
  <2>1. \/ after = [stream EXCEPT !.buffer = @ \o units]
        \/ \E head \in Record!Prefixes(units) :
             after = [stream EXCEPT !.buffer = @ \o head, !.good = FALSE]
    BY <1>5 DEF Record!Put
  <2>2. QED  BY <1>2, <1>3, <1>5, <2>1
<1>6. QED  BY <1>4, <1>5

\* Writing some of the buffer out changes nothing of what the table holds.
LEMMA DrainKeeps ==
  ASSUME NEW stream \in Record!Streams, NEW after \in Record!Drained(stream)
  PROVE  /\ after \in Record!Streams /\ after.open = stream.open /\ after.good = stream.good
         /\ Handed(after) = Handed(stream)
         /\ stream.buffer # <<>>
<1>1. stream.disk \in Seq(Record!Units) /\ stream.buffer \in Seq(Record!Units)
  BY DEF Record!Streams
<1> DEFINE buffer == stream.buffer
<1>2. Len(buffer) \in Nat /\ \A i \in 1 .. Len(buffer) : buffer[i] \in Record!Units
  BY <1>1, LenProperties, ElementOfSeq
<1>3. PICK n \in 1 .. Len(buffer) :
        after = [stream EXCEPT !.disk = @ \o SubSeq(buffer, 1, n),
                               !.buffer = SubSeq(@, n + 1, Len(@))]
  BY DEF Record!Drained
<1> DEFINE out == SubSeq(buffer, 1, n)
           in == SubSeq(buffer, n + 1, Len(buffer))
<1>4. n \in Int /\ n + 1 \in Int /\ Len(buffer) \in Int /\ 1 \in Int
  BY <1>2
<1>5. /\ \A i \in 1 .. n : buffer[i] \in Record!Units
      /\ \A i \in n + 1 .. Len(buffer) : buffer[i] \in Record!Units
  BY <1>2
<1>6. out \in Seq(Record!Units) /\ in \in Seq(Record!Units)
  <2> HIDE DEF buffer
  <2>1. QED  BY <1>4, <1>5, SubSeqProperties
<1>7. out \o in = buffer
  <2> HIDE DEF buffer
  <2>1. /\ 1 \in 1 .. Len(buffer) + 1 /\ n \in 1 - 1 .. Len(buffer)
        /\ Len(buffer) \in n .. Len(buffer)
    BY <1>2
  <2>2. buffer \in Seq(Record!Units)
    BY <1>1 DEF buffer
  <2>3. out \o in = SubSeq(buffer, 1, Len(buffer))
    BY <2>1, <2>2, ConcatAdjacentSubSeq
  <2>4. QED  BY <2>2, <2>3, SubSeqFull
<1> HIDE DEF out, in
<1>8. after = [stream EXCEPT !.disk = @ \o out, !.buffer = in]
  BY <1>3 DEF out, in
<1>9. stream.disk \o out \in Seq(Record!Units)
  BY <1>1, <1>6, ConcatProperties
<1>10. /\ after \in Record!Streams /\ after.open = stream.open /\ after.good = stream.good
       /\ after.disk = stream.disk \o out /\ after.buffer = in
  BY <1>6, <1>8, <1>9 DEF Record!Streams
<1>11. (stream.disk \o out) \o in = stream.disk \o (out \o in)
  <2> DEFINE disk_before == stream.disk
  <2>1. disk_before \in Seq(Record!Units)
    BY <1>1
  <2> HIDE DEF disk_before
  <2>2. (disk_before \o out) \o in = disk_before \o (out \o in)
    BY <1>6, <2>1, ConcatAssociative
  <2>3. QED  BY <2>2 DEF disk_before
<1>12. Handed(after) = Handed(stream)
  BY <1>7, <1>10, <1>11 DEF Handed
<1>13. buffer # <<>>
  BY <1>2
<1>14. QED  BY <1>10, <1>12, <1>13

\* A close that succeeds leaves what the table holds on disk.
LEMMA CloseFlushes ==
  ASSUME NEW stream \in Record!Streams, NEW after \in Record!CloseChecked(stream)
  PROVE  /\ after \in Record!Streams
         /\ after.good => /\ stream.good /\ ~ after.open
                          /\ after.disk = Handed(stream) /\ after.buffer = <<>>
                          /\ Handed(after) = Handed(stream)
         /\ ~ after.good => after.open = stream.open /\ after.buffer = stream.buffer
<1>1. stream.disk \in Seq(Record!Units) /\ stream.buffer \in Seq(Record!Units)
      /\ stream.good \in BOOLEAN /\ stream.open \in BOOLEAN
  BY DEF Record!Streams
<1>2. CASE after = [stream EXCEPT !.good = FALSE]
  BY <1>2 DEF Record!Streams
<1>3. CASE /\ after = [stream EXCEPT !.disk = @ \o stream.buffer, !.buffer = <<>>, !.open = FALSE]
           /\ stream.good
  <2> DEFINE all == Handed(stream)
  <2>1. all \in Seq(Record!Units)
    BY <1>1, ConcatProperties DEF Handed
  <2>2. after = [stream EXCEPT !.disk = all, !.buffer = <<>>, !.open = FALSE]
    BY <1>3 DEF Handed
  <2> HIDE DEF all
  <2>3. /\ after.disk = all /\ after.buffer = <<>> /\ ~ after.open
    BY <2>2 DEF Record!Streams
  <2>4. after.good
    BY <1>3, <2>2 DEF Record!Streams
  <2>5. <<>> \in Seq(Record!Units) /\ all \o <<>> = all
    BY <2>1, ConcatEmptySeq
  <2>6. after \in Record!Streams
    BY <2>1, <2>2, <2>5 DEF Record!Streams
  <2>7. QED  BY <1>3, <2>3, <2>4, <2>5, <2>6 DEF Handed, all
<1>4. QED  BY <1>2, <1>3 DEF Record!CloseChecked

LEMMA RecordInit == Record!Init => RecordInv
<1> SUFFICES ASSUME Record!Init
             PROVE  RecordInv
  OBVIOUS
<1>1. /\ frames = [disk |-> <<>>, buffer |-> <<>>, good |-> TRUE, open |-> FALSE]
      /\ statuses = frames /\ accepted = <<>> /\ count = 0 /\ calls = 0 /\ writer = "new"
      /\ document = [there |-> FALSE, count |-> 0]
  BY DEF Record!Init, Record!Opened, Record!NoDocument
<1>2. <<>> \in Seq(Record!Units) /\ Len(<<>>) = 0
  OBVIOUS
<1>3. Record!TypeOK
  BY <1>1, <1>2, CallsAreBounded DEF Record!TypeOK, Record!Streams
<1>4. Handed(statuses) = <<>> /\ Handed(frames) = <<>>
  BY <1>1, <1>2, ConcatEmptySeq DEF Handed
<1>5. Record!Twice(<<>>) = <<>>
  BY TwiceOfNothing
<1>6. QED
  BY <1>1, <1>2, <1>3, <1>4, <1>5 DEF RecordInv, TablesHoldTheAccepted, BuffersAreOfOpenTables,
     ClosedInTurn, DocumentIsLast

LEMMA RecordStep == RecordInv /\ [Record!Next]_recordVars => RecordInv'
<1> SUFFICES ASSUME RecordInv, [Record!Next]_recordVars
             PROVE  RecordInv'
  OBVIOUS
<1> USE CallsAreBounded
<1>1. /\ frames \in Record!Streams /\ statuses \in Record!Streams
      /\ accepted \in Seq(Record!Units) /\ count \in 0 .. Calls /\ calls \in 0 .. Calls
      /\ document \in [there : BOOLEAN, count : 0 .. Calls]
  BY DEF RecordInv, Record!TypeOK
<1>numbers. calls \in Nat /\ calls <= Calls /\ count \in Nat
  <2>1. count \in 0 .. Calls /\ calls \in 0 .. Calls
    BY DEF RecordInv, Record!TypeOK
  <2>2. QED  BY <2>1
<1>length. count = Len(accepted)
  BY DEF RecordInv
<1>counted. count <= calls
  BY DEF RecordInv
<1>row. writer = "status row" => count < calls
  BY DEF RecordInv
<1>2. CASE Record!Construct
  <2>1. /\ writer = "new" /\ writer' = "ready" /\ ~ document.there
        /\ UNCHANGED <<count, document, calls, accepted>>
        /\ frames' = [disk |-> <<>>, buffer |-> <<>>, good |-> TRUE, open |-> TRUE]
        /\ statuses' = frames'
    BY <1>2 DEF Record!Construct, Record!Opened, RecordInv, DocumentIsLast
  <2>2. <<>> \in Seq(Record!Units) /\ Handed(frames') = <<>> /\ Handed(statuses') = <<>>
    BY <2>1, ConcatEmptySeq DEF Handed
  <2>3. Record!TypeOK'
    BY <1>1, <2>1, <2>2 DEF RecordInv, Record!TypeOK, Record!Streams
  <2>4. Record!Twice(accepted) = accepted /\ accepted = <<>>
    BY <2>1, TwiceOfNothing DEF RecordInv
  <2>5. QED
    BY <2>1, <2>2, <2>3, <2>4 DEF RecordInv, TablesHoldTheAccepted, BuffersAreOfOpenTables,
       ClosedInTurn, DocumentIsLast
<1>3. CASE Record!WriteRow
  <2>1. /\ writer = "ready" /\ calls < Calls /\ calls' = calls + 1
        /\ frames' \in Record!Put(frames, <<calls + 1, calls + 1>>)
        /\ writer' = (IF frames'.good THEN "status row" ELSE "ready")
        /\ UNCHANGED <<statuses, count, document, accepted>>
    BY <1>3 DEF Record!WriteRow
  <2>2. <<calls + 1, calls + 1>> \in Seq(Record!Units)
    <3>1. calls < Calls
      BY <2>1
    <3>2. calls + 1 \in Record!Units
      BY <1>numbers, <3>1 DEF Record!Units
    <3>3. QED  BY <3>2
  <2>3. /\ frames' \in Record!Streams /\ frames'.open = frames.open
        /\ frames'.good => /\ frames.good /\ frames.open
                           /\ Handed(frames') = Handed(frames) \o <<calls + 1, calls + 1>>
        /\ ~ frames.open => frames'.buffer = frames.buffer
    BY <1>1, <2>1, <2>2, PutAdds
  <2>4. Record!TypeOK'
    <3>0. calls < Calls /\ calls' = calls + 1
      BY <2>1
    <3>1. calls' \in 0 .. Calls
      BY <1>numbers, <3>0
    <3>2. writer' \in {"status row", "ready"}
      BY <2>1
    <3>3. QED  BY <1>1, <2>1, <2>3, <3>1, <3>2 DEF Record!TypeOK
  <2>5. TablesHoldTheAccepted'
    BY <2>1, <2>3 DEF RecordInv, TablesHoldTheAccepted, Handed
  <2>6. BuffersAreOfOpenTables' /\ ClosedInTurn' /\ DocumentIsLast'
    BY <2>1, <2>3 DEF RecordInv, BuffersAreOfOpenTables, ClosedInTurn, DocumentIsLast
  <2>7. count' = Len(accepted') /\ count' <= calls' /\ count' < calls'
    <3>1. count' = count /\ accepted' = accepted /\ calls' = calls + 1
      BY <2>1
    <3>2. count' <= calls' /\ count' < calls'
      BY <1>numbers, <1>counted, <3>1
    <3>3. QED  BY <1>length, <3>1, <3>2
  <2>8. writer' # "new"
    BY <2>1
  <2>9. QED  BY <2>4, <2>5, <2>6, <2>7, <2>8 DEF RecordInv
<1>4. CASE Record!WriteStatuses
  <2>1. /\ writer = "status row" /\ writer' = "ready"
        /\ statuses' \in Record!Put(statuses, <<calls>>)
        /\ UNCHANGED <<frames, document, calls>>
        /\ IF statuses'.good THEN count' = count + 1 /\ accepted' = Append(accepted, calls)
           ELSE UNCHANGED <<count, accepted>>
    BY <1>4 DEF Record!WriteStatuses
  <2>2. calls \in Record!Units /\ <<calls>> \in Seq(Record!Units) /\ count < calls
    <3>1. calls \in Record!Units /\ count < calls
      <4>1. count < calls
        BY <1>row, <2>1
      <4>2. QED  BY <1>numbers, <4>1 DEF Record!Units
    <3>2. QED  BY <3>1
  <2>3. /\ statuses' \in Record!Streams /\ statuses'.open = statuses.open
        /\ statuses'.good => /\ statuses.good /\ statuses.open
                             /\ Handed(statuses') = Handed(statuses) \o <<calls>>
        /\ ~ statuses.open => statuses'.buffer = statuses.buffer
    BY <1>1, <2>1, <2>2, PutAdds
  <2>4. /\ accepted' \in Seq(Record!Units) /\ count' = Len(accepted')
        /\ count' <= calls' /\ count' \in 0 .. Calls
    <3>1. Len(Append(accepted, calls)) = Len(accepted) + 1
          /\ Append(accepted, calls) \in Seq(Record!Units)
      BY <1>1, <2>2, AppendProperties
    <3>2. CASE statuses'.good
      <4>1. count' = count + 1 /\ accepted' = Append(accepted, calls) /\ calls' = calls
        BY <2>1, <3>2
      <4>2. count' <= calls' /\ count' \in 0 .. Calls
        BY <1>numbers, <2>2, <4>1
      <4>3. count' = Len(accepted')
        BY <1>length, <3>1, <4>1
      <4>4. QED  BY <3>1, <4>1, <4>2, <4>3
    <3>3. CASE ~ statuses'.good
      <4>1. count' = count /\ accepted' = accepted /\ calls' = calls
        BY <2>1, <3>3
      <4>2. QED  BY <1>1, <1>numbers, <1>length, <2>2, <4>1
    <3>4. QED  BY <3>2, <3>3
  <2>5. Record!TypeOK'
    BY <1>1, <2>1, <2>3, <2>4 DEF RecordInv, Record!TypeOK
  <2>6. TablesHoldTheAccepted'
    <3>1. SUFFICES ASSUME statuses'.good
                   PROVE  TablesHoldTheAccepted'
      BY DEF TablesHoldTheAccepted
    <3>2. accepted' = Append(accepted, calls) /\ writer # "dead"
      BY <2>1, <3>1
    <3>3. Append(accepted, calls) = accepted \o <<calls>>
      BY <1>1, <2>2, AppendIsConcat
    <3>4. Handed(statuses') = accepted'
      BY <2>3, <3>1, <3>2, <3>3 DEF RecordInv, TablesHoldTheAccepted
    <3>5. Record!Twice(accepted') = Record!Twice(accepted) \o <<calls, calls>>
      BY <1>1, <2>2, <3>2, TwiceAppended
    <3>6. frames.good => Handed(frames) = Record!Twice(accepted) \o <<calls, calls>>
      BY <2>1, <2>3, <3>1, <3>2 DEF RecordInv, TablesHoldTheAccepted
    <3>7. QED  BY <2>1, <3>4, <3>5, <3>6 DEF TablesHoldTheAccepted, Handed
  <2>7. BuffersAreOfOpenTables' /\ ClosedInTurn' /\ DocumentIsLast'
    BY <2>1, <2>3 DEF RecordInv, BuffersAreOfOpenTables, ClosedInTurn, DocumentIsLast
  <2>8. QED  BY <2>1, <2>4, <2>5, <2>6, <2>7 DEF RecordInv
<1>5. CASE Record!Drain
  <2>1. writer # "dead" /\ UNCHANGED <<count, document, writer, calls, accepted>>
    BY <1>5 DEF Record!Drain
  <2>2. /\ frames' \in Record!Streams /\ frames'.open = frames.open /\ frames'.good = frames.good
        /\ statuses' \in Record!Streams
        /\ statuses'.open = statuses.open /\ statuses'.good = statuses.good
        /\ Handed(frames') = Handed(frames) /\ Handed(statuses') = Handed(statuses)
        /\ frames' = frames \/ frames.buffer # <<>>
        /\ statuses' = statuses \/ statuses.buffer # <<>>
    BY <1>1, <1>5, DrainKeeps DEF Record!Drain, Handed
  <2>3. Record!TypeOK'
    BY <1>1, <2>1, <2>2 DEF RecordInv, Record!TypeOK
  <2>4. TablesHoldTheAccepted'
    BY <2>1, <2>2 DEF RecordInv, TablesHoldTheAccepted
  <2>5. BuffersAreOfOpenTables' /\ ClosedInTurn'
    BY <2>1, <2>2 DEF RecordInv, BuffersAreOfOpenTables, ClosedInTurn
  <2>6. DocumentIsLast'
    BY <2>1, <2>2 DEF RecordInv, DocumentIsLast, ClosedInTurn, BuffersAreOfOpenTables
  <2>7. QED  BY <2>1, <2>3, <2>4, <2>5, <2>6 DEF RecordInv
<1>6. CASE Record!CloseFrames
  <2>1. /\ writer = "ready" /\ frames' \in Record!CloseChecked(frames)
        /\ writer' = (IF frames'.good THEN "close statuses" ELSE "ready")
        /\ UNCHANGED <<statuses, count, document, calls, accepted>>
    BY <1>6 DEF Record!CloseFrames
  <2>2. /\ frames' \in Record!Streams
        /\ frames'.good => /\ frames.good /\ ~ frames'.open /\ frames'.buffer = <<>>
                           /\ Handed(frames') = Handed(frames)
        /\ ~ frames'.good => frames'.open = frames.open /\ frames'.buffer = frames.buffer
    BY <1>1, <2>1, CloseFlushes
  <2>3. Record!TypeOK'
    BY <1>1, <2>1, <2>2 DEF RecordInv, Record!TypeOK
  <2>4. TablesHoldTheAccepted'
    BY <2>1, <2>2 DEF RecordInv, TablesHoldTheAccepted, Handed
  <2>5. BuffersAreOfOpenTables' /\ ClosedInTurn' /\ DocumentIsLast'
    BY <2>1, <2>2 DEF RecordInv, BuffersAreOfOpenTables, ClosedInTurn, DocumentIsLast
  <2>6. QED  BY <2>1, <2>3, <2>4, <2>5 DEF RecordInv
<1>7. CASE Record!CloseStatuses
  <2>1. /\ writer = "close statuses" /\ statuses' \in Record!CloseChecked(statuses)
        /\ writer' = (IF statuses'.good THEN "document" ELSE "ready")
        /\ UNCHANGED <<frames, count, document, calls, accepted>>
    BY <1>7 DEF Record!CloseStatuses
  <2>2. /\ statuses' \in Record!Streams
        /\ statuses'.good => /\ statuses.good /\ ~ statuses'.open /\ statuses'.buffer = <<>>
                             /\ Handed(statuses') = Handed(statuses)
        /\ ~ statuses'.good => /\ statuses'.open = statuses.open
                               /\ statuses'.buffer = statuses.buffer
    BY <1>1, <2>1, CloseFlushes
  <2>3. Record!TypeOK'
    BY <1>1, <2>1, <2>2 DEF RecordInv, Record!TypeOK
  <2>4. TablesHoldTheAccepted'
    BY <2>1, <2>2 DEF RecordInv, TablesHoldTheAccepted, Handed
  <2>5. BuffersAreOfOpenTables' /\ ClosedInTurn' /\ DocumentIsLast'
    BY <2>1, <2>2 DEF RecordInv, BuffersAreOfOpenTables, ClosedInTurn, DocumentIsLast
  <2>6. QED  BY <2>1, <2>3, <2>4, <2>5 DEF RecordInv
<1>8. CASE Record!WriteSceneDocumentLast
  <2>1. /\ writer = "document" /\ writer' = "closed"
        /\ document' = [there |-> TRUE, count |-> count]
        /\ UNCHANGED <<frames, statuses, count, calls, accepted>>
    BY <1>8 DEF Record!WriteSceneDocumentLast
  <2>2. /\ frames.good /\ statuses.good /\ frames.buffer = <<>> /\ statuses.buffer = <<>>
        /\ Handed(statuses) = accepted /\ Handed(frames) = Record!Twice(accepted)
    BY <2>1 DEF RecordInv, ClosedInTurn, BuffersAreOfOpenTables, TablesHoldTheAccepted
  <2>3. frames.disk = Handed(frames) /\ statuses.disk = Handed(statuses)
    <3>1. frames.disk \in Seq(Record!Units) /\ statuses.disk \in Seq(Record!Units)
      BY <1>1 DEF Record!Streams
    <3>2. QED  BY <2>2, <3>1, ConcatEmptySeq DEF Handed
  <2>4. Record!TypeOK'
    BY <1>1, <2>1 DEF RecordInv, Record!TypeOK
  <2>5. TablesHoldTheAccepted' /\ BuffersAreOfOpenTables' /\ ClosedInTurn'
    BY <2>1, <2>2 DEF RecordInv, TablesHoldTheAccepted, BuffersAreOfOpenTables, ClosedInTurn,
       Handed
  <2>6. DocumentIsLast'
    BY <2>1, <2>2, <2>3 DEF DocumentIsLast
  <2>7. QED  BY <2>1, <2>4, <2>5, <2>6 DEF RecordInv
<1>9. CASE Record!WriteSceneDocumentFails
  <2>1. /\ writer = "document" /\ writer' = "ready"
        /\ UNCHANGED <<frames, statuses, count, document, calls, accepted>>
    BY <1>9 DEF Record!WriteSceneDocumentFails
  <2>2. Record!TypeOK'
    BY <2>1 DEF RecordInv, Record!TypeOK
  <2>3. QED
    BY <2>1, <2>2 DEF RecordInv, TablesHoldTheAccepted, BuffersAreOfOpenTables, ClosedInTurn,
       DocumentIsLast, Handed
<1>10. CASE Record!Kill
  <2>1. /\ writer' = "dead" /\ UNCHANGED <<count, document, calls, accepted>>
        /\ frames' = [frames EXCEPT !.buffer = <<>>, !.open = FALSE]
        /\ statuses' = [statuses EXCEPT !.buffer = <<>>, !.open = FALSE]
    BY <1>10 DEF Record!Kill
  <2>2. /\ frames' \in Record!Streams /\ frames'.buffer = <<>> /\ frames'.disk = frames.disk
        /\ statuses' \in Record!Streams /\ statuses'.buffer = <<>>
        /\ statuses'.disk = statuses.disk
    <3>1. ASSUME NEW stream \in Record!Streams, NEW after,
                 after = [stream EXCEPT !.buffer = <<>>, !.open = FALSE]
          PROVE  after.buffer = <<>> /\ after.disk = stream.disk
      BY <3>1 DEF Record!Streams
    <3>2. <<>> \in Seq(Record!Units)
      OBVIOUS
    <3>3. ASSUME NEW stream \in Record!Streams, NEW after,
                 after = [stream EXCEPT !.buffer = <<>>, !.open = FALSE]
          PROVE  after \in Record!Streams
      BY <3>2, <3>3 DEF Record!Streams
    <3>4. QED  BY <1>1, <2>1, <3>1, <3>3
  <2>3. Record!TypeOK'
    BY <1>1, <2>1, <2>2 DEF RecordInv, Record!TypeOK
  <2>4. BuffersAreOfOpenTables' /\ ClosedInTurn' /\ DocumentIsLast'
    BY <2>1, <2>2 DEF RecordInv, BuffersAreOfOpenTables, ClosedInTurn, DocumentIsLast
  <2>5. QED  BY <2>1, <2>3, <2>4 DEF RecordInv
<1>11. CASE UNCHANGED recordVars
  <2>1. UNCHANGED <<frames, statuses, count, document, writer, calls, accepted>>
    BY <1>11 DEF recordVars
  <2>2. Record!TypeOK'
    BY <2>1 DEF RecordInv, Record!TypeOK
  <2>3. QED
    BY <2>1, <2>2 DEF RecordInv, TablesHoldTheAccepted, BuffersAreOfOpenTables, ClosedInTurn,
       DocumentIsLast, Handed
<1>12. QED
  BY <1>2, <1>3, <1>4, <1>5, <1>6, <1>7, <1>8, <1>9, <1>10, <1>11 DEF Record!Next

\* Between buffer and disk each table of a record holds what was accepted.
THEOREM RecordInvariance == MCSpec => []RecordInv
<1>1. MCInit => Record!Init
  BY DEF MCInit
<1>2. [MCNext]_<<atWork, vars, recordVars, senderVars, receiverVars, reporterVars, displayVars>>
        => [Record!Next]_recordVars
  BY DEF MCNext
<1>3. QED  BY <1>1, <1>2, RecordInit, RecordStep, PTL DEF MCSpec

\* Whenever there is a scene.json the record is readable and holds exactly the
\* frames whose WriteFrame returned, whatever failed, was tried again or was killed.
THEOREM WholeOrNone == MCSpec => []ReadableIsWhole
<1>1. ASSUME RecordInv
      PROVE  ReadableIsWhole
  <2>1. SUFFICES ASSUME document.there
                 PROVE  /\ Record!Readable
                        /\ statuses.disk = accepted /\ frames.disk = Record!Twice(accepted)
    BY DEF ReadableIsWhole, Record!ReadableIsWhole
  <2>2. /\ statuses.disk = accepted /\ frames.disk = Record!Twice(accepted)
        /\ document.count = Len(accepted) /\ accepted \in Seq(Record!Units)
    BY <1>1, <2>1 DEF RecordInv, DocumentIsLast, Record!TypeOK
  <2>3. Len(Record!Twice(accepted)) = 2 * Len(accepted)
    BY <2>2, TwiceIs
  <2>4. QED  BY <2>1, <2>2, <2>3 DEF Record!Readable
<1>2. QED  BY <1>1, RecordInvariance, PTL
-----------------------------------------------------------------------------
(***************************************************************************)
(* What the receiver keeps is bounded, and of use.                         *)
(***************************************************************************)
\* An entry holds messages of its run, each of its kind.
Own(r, entry) ==
    /\ entry.description # NoMessage =>
         entry.description.run = r /\ entry.description.kind = "description"
    /\ entry.state # NoMessage => entry.state.run = r /\ entry.state.kind = "state"
    /\ entry.pending # NoMessage => entry.pending.run = r /\ entry.pending.kind = "state"

EntriesAreOwn ==
    /\ DOMAIN runs \subseteq Run /\ IsFiniteSet(DOMAIN runs)
    /\ Cardinality(DOMAIN runs) <= MaxRuns
    /\ \A r \in DOMAIN runs : runs[r] \in Receiver!Entry /\ Own(r, runs[r])

PartialsAreOfUse ==
    /\ DOMAIN partials \subseteq Receiver!Message /\ IsFiniteSet(DOMAIN partials)
    /\ Cardinality(DOMAIN partials) <= MaxPartials
    /\ \A m \in DOMAIN partials :
         /\ Receiver!Admissible(m)
         /\ partials[m] \notin {{}, Receiver!Fragments(m.kind)}

MemoryInv == EntriesAreOwn /\ PartialsAreOfUse

LEMMA SequencesAreNumbers ==
  ASSUME NEW m \in Receiver!Message
  PROVE  /\ m.sequence \in Int /\ m.run \in Run /\ m.kind \in Receiver!Kind
         /\ m # NoMessage /\ MCParts[m.kind] \in Nat \ {0}
<1>1. MaxSequence \in Nat /\ NoMessage \notin Receiver!Message
      /\ MCParts \in [Receiver!Kind -> Nat \ {0}]
  BY OutputAssumptions, Zenon DEF Receiver!ReceiverAssumption
<1>2. m.sequence \in 0 .. MaxSequence /\ m.run \in Run /\ m.kind \in Receiver!Kind
  BY DEF Receiver!Message
<1>3. QED  BY <1>1, <1>2

LEMMA KnownIsOwn ==
  ASSUME EntriesAreOwn, NEW r
  PROVE  Receiver!Known(r) \in Receiver!Entry /\ Own(r, Receiver!Known(r))
<1>1. CASE r \in DOMAIN runs
  BY <1>1 DEF EntriesAreOwn, Receiver!Known
<1>2. CASE r \notin DOMAIN runs
  BY <1>2 DEF Receiver!Known, Receiver!NewEntry, Receiver!Entry, Own
<1>3. QED  BY <1>1, <1>2

\* One more, in place of the oldest if there is no room: it stays bounded.
LEMMA RoomForOne ==
  ASSUME NEW S, IsFiniteSet(S), NEW n \in Nat \ {0}, Cardinality(S) <= n, NEW r,
         NEW keep \in SUBSET S,
         \/ r \in S
         \/ Cardinality(S) < n
         \/ \E oldest \in S : keep = S \ {oldest}
  PROVE  IsFiniteSet(keep \cup {r}) /\ Cardinality(keep \cup {r}) <= n
<1>1. Cardinality(S) \in Nat /\ IsFiniteSet(keep) /\ Cardinality(keep) \in Nat
      /\ Cardinality(keep) <= Cardinality(S)
  BY FS_Subset, FS_CardinalityType
<1>2. /\ IsFiniteSet(keep \cup {r})
      /\ Cardinality(keep \cup {r}) = IF r \in keep THEN Cardinality(keep)
                                      ELSE Cardinality(keep) + 1
  BY <1>1, FS_AddElement
<1>3. CASE r \in S
  <2>1. keep \cup {r} \subseteq S
    BY <1>3
  <2>2. Cardinality(keep \cup {r}) <= Cardinality(S) /\ Cardinality(keep \cup {r}) \in Nat
    BY <2>1, FS_Subset, FS_CardinalityType
  <2>3. QED  BY <2>2, <1>1, <1>2
<1>4. CASE Cardinality(S) < n
  BY <1>1, <1>2, <1>4
<1>5. ASSUME NEW oldest \in S, keep = S \ {oldest}
      PROVE  Cardinality(keep \cup {r}) <= n
  <2>1. Cardinality(keep) = Cardinality(S) - 1
    BY <1>5, FS_RemoveElement
  <2>2. QED  BY <2>1, <1>1, <1>2
<1>6. QED  BY <1>2, <1>3, <1>4, <1>5

LEMMA StayFits ==
  ASSUME MemoryInv, NEW m, NEW keep \in SUBSET DOMAIN partials, Receiver!Stay(m, keep)
  PROVE  /\ IsFiniteSet(keep \cup {m}) /\ Cardinality(keep \cup {m}) <= MaxPartials
         /\ IsFiniteSet(keep)
<1>1. IsFiniteSet(DOMAIN partials) /\ Cardinality(DOMAIN partials) <= MaxPartials
  BY DEF MemoryInv, PartialsAreOfUse
<1>2. \/ m \in DOMAIN partials
      \/ Cardinality(DOMAIN partials) < MaxPartials
      \/ \E oldest \in DOMAIN partials : keep = DOMAIN partials \ {oldest}
  <2>1. CASE m \in DOMAIN partials \/ Cardinality(DOMAIN partials) < MaxPartials
    BY <2>1
  <2>2. CASE ~ (m \in DOMAIN partials \/ Cardinality(DOMAIN partials) < MaxPartials)
    <3>1. \E oldest \in DOMAIN partials :
            /\ Receiver!IsOldest(arrival, DOMAIN partials, oldest)
            /\ keep = DOMAIN partials \ {oldest}
      BY <2>2, Zenon DEF Receiver!Stay, Receiver!Cardinality, Cardinality
    <3>2. QED  BY <3>1
  <2>3. QED  BY <2>1, <2>2
<1>3. MaxPartials \in Nat \ {0}
  BY ReceiverNumbers
<1>4. QED  BY <1>1, <1>2, <1>3, RoomForOne, FS_Subset

\* What stays of the buffer when a message leaves it.
LEMMA ReleaseKeeps ==
  ASSUME MemoryInv, NEW m, NEW displaced, NEW acceptedNow,
         Receiver!Release(m, displaced, acceptedNow)
  PROVE  /\ DOMAIN partials' \subseteq DOMAIN partials
         /\ IsFiniteSet(DOMAIN partials') /\ Cardinality(DOMAIN partials') <= MaxPartials
         /\ \A k \in DOMAIN partials' : /\ partials'[k] = partials[k] /\ k.run \notin displaced
                                        /\ ~ Receiver!Outdated(k, acceptedNow)
<1>1. PICK keep \in SUBSET DOMAIN partials :
        /\ Receiver!Stay(m, keep)
        /\ partials' = [k \in {k \in keep \ {m} : /\ k.run \notin displaced
                                                  /\ ~ Receiver!Outdated(k, acceptedNow)}
                          |-> partials[k]]
  BY DEF Receiver!Release
<1>2. /\ DOMAIN partials' \subseteq keep
      /\ \A k \in DOMAIN partials' : /\ partials'[k] = partials[k] /\ k.run \notin displaced
                                     /\ ~ Receiver!Outdated(k, acceptedNow)
  BY <1>1
<1>3. /\ IsFiniteSet(DOMAIN partials) /\ Cardinality(DOMAIN partials) <= MaxPartials
      /\ DOMAIN partials' \subseteq DOMAIN partials
  BY <1>2 DEF MemoryInv, PartialsAreOfUse
<1>4. /\ IsFiniteSet(DOMAIN partials')
      /\ Cardinality(DOMAIN partials') <= Cardinality(DOMAIN partials)
      /\ Cardinality(DOMAIN partials') \in Nat /\ Cardinality(DOMAIN partials) \in Nat
  BY <1>3, FS_Subset, FS_CardinalityType
<1>5. Cardinality(DOMAIN partials') <= MaxPartials
  BY <1>3, <1>4, ReceiverNumbers
<1>6. QED  BY <1>2, <1>3, <1>4, <1>5

\* A message accepted as a description or a state is one of those that make others
\* useless; everything else of the entry was there.
Takes(m, entry, acceptedNow) ==
    /\ entry \in Receiver!Entry /\ Own(m.run, entry)
    /\ \A kind \in Receiver!Kind :
         \/ entry[kind] = Receiver!Known(m.run)[kind]
         \/ entry[kind] \in acceptedNow

LEMMA InstallTakes ==
  ASSUME MemoryInv, NEW m \in Receiver!Message, NEW entry, NEW acceptedNow,
         Receiver!Install(m, entry, acceptedNow), Takes(m, entry, acceptedNow)
  PROVE  MemoryInv'
<1>1. PICK displaced \in SUBSET DOMAIN runs :
        /\ Receiver!MakesRoom(m.run, displaced)
        /\ Receiver!Release(m, displaced, acceptedNow)
        /\ runs' = [r \in (DOMAIN runs \ displaced) \cup {m.run} |->
                      IF r = m.run THEN entry
                      ELSE IF Receiver!TakesOver(m.run, entry) /\ <<r, m.run>> \in registered'
                           THEN [runs[r] EXCEPT !.retired = TRUE]
                           ELSE runs[r]]
  BY DEF Receiver!Install
<1> DEFINE keep == DOMAIN runs \ displaced
<1>2. /\ DOMAIN runs' = keep \cup {m.run} /\ runs'[m.run] = entry
      /\ \A r \in keep \ {m.run} :
           runs'[r] = [runs[r] EXCEPT !.retired = TRUE] \/ runs'[r] = runs[r]
  BY <1>1
<1>3. \/ m.run \in DOMAIN runs /\ displaced = {}
      \/ Cardinality(DOMAIN runs) < MaxRuns /\ displaced = {}
      \/ /\ m.run \notin DOMAIN runs
         /\ \E oldest \in DOMAIN runs : keep = DOMAIN runs \ {oldest}
  <2>1. CASE m.run \in DOMAIN runs \/ Cardinality(DOMAIN runs) < MaxRuns
    BY <1>1, <2>1, Zenon DEF Receiver!MakesRoom
  <2>2. CASE ~ (m.run \in DOMAIN runs \/ Cardinality(DOMAIN runs) < MaxRuns)
    <3>1. \E oldest \in DOMAIN runs \ {active} :
            /\ Receiver!IsOldest(registered, DOMAIN runs \ {active}, oldest)
            /\ displaced = {oldest}
      BY <1>1, <2>2, Zenon DEF Receiver!MakesRoom, Receiver!Cardinality, Cardinality
    <3>2. QED  BY <2>2, <3>1
  <2>3. QED  BY <2>1, <2>2
<1>4. DOMAIN runs \subseteq Run /\ IsFiniteSet(DOMAIN runs)
      /\ Cardinality(DOMAIN runs) <= MaxRuns
  BY DEF MemoryInv, EntriesAreOwn
<1>5. m.run \in displaced => FALSE
  BY <1>1, <1>3
<1>6. MaxRuns \in Nat \ {0}
  BY ReceiverNumbers
<1>7. keep \in SUBSET DOMAIN runs
  OBVIOUS
<1> HIDE DEF keep
<1>8. IsFiniteSet(keep \cup {m.run}) /\ Cardinality(keep \cup {m.run}) <= MaxRuns
  BY <1>3, <1>4, <1>6, <1>7, RoomForOne
<1>9. ASSUME NEW r \in DOMAIN runs'
      PROVE  runs'[r] \in Receiver!Entry /\ Own(r, runs'[r])
  <2>1. CASE r = m.run
    BY <2>1, <1>2 DEF Takes
  <2>2. CASE r # m.run
    <3>1. r \in keep /\ runs[r] \in Receiver!Entry /\ Own(r, runs[r])
      BY <2>2, <1>2, <1>7 DEF MemoryInv, EntriesAreOwn
    <3>2. runs'[r] = [runs[r] EXCEPT !.retired = TRUE] \/ runs'[r] = runs[r]
      BY <3>1, <2>2, <1>2
    <3>3. QED  BY <3>1, <3>2 DEF Receiver!Entry, Own
  <2>3. QED  BY <2>1, <2>2
<1>10. EntriesAreOwn'
  <2>1. DOMAIN runs' \subseteq Run
    BY <1>2, <1>4, <1>7, SequencesAreNumbers
  <2>2. QED  BY <2>1, <1>2, <1>8, <1>9 DEF EntriesAreOwn, Own
<1>11. /\ DOMAIN partials' \subseteq DOMAIN partials
       /\ IsFiniteSet(DOMAIN partials') /\ Cardinality(DOMAIN partials') <= MaxPartials
       /\ \A k \in DOMAIN partials' : /\ partials'[k] = partials[k] /\ k.run \notin displaced
                                      /\ ~ Receiver!Outdated(k, acceptedNow)
  BY <1>1, ReleaseKeeps
<1>12. ASSUME NEW k \in DOMAIN partials'
       PROVE  Receiver!Admissible(k)'
  <2>1. k \in DOMAIN partials /\ k \in Receiver!Message /\ Receiver!Admissible(k)
    BY <1>11 DEF MemoryInv, PartialsAreOfUse
  <2>2. /\ k.sequence \in Int /\ k.kind \in Receiver!Kind
        /\ k.kind = "description" \/ k.kind = "state"
    BY <2>1, SequencesAreNumbers DEF Receiver!Kind
  <2>3. Receiver!Accepted(k.run, k.kind)' =
          IF k.run \in DOMAIN runs' /\ runs'[k.run][k.kind] # NoMessage
          THEN runs'[k.run][k.kind].sequence ELSE -1
    BY DEF Receiver!Accepted
  <2>4. Receiver!Admissible(k)' <=> k.sequence > Receiver!Accepted(k.run, k.kind)'
    BY DEF Receiver!Admissible
  <2>5. k.sequence > Receiver!Accepted(k.run, k.kind) /\ k.sequence > -1
    <3>1. k.sequence >= 0
      BY <2>1, ReceiverNumbers DEF Receiver!Message
    <3>2. QED  BY <3>1, <2>1, <2>2 DEF Receiver!Admissible
  <2>6. CASE k.run = m.run
    <3> DEFINE new == entry[k.kind]
    <3>1. Receiver!Accepted(k.run, k.kind)' = IF new # NoMessage THEN new.sequence ELSE -1
      BY <2>3, <2>6, <1>2
    <3>2. CASE new = NoMessage
      BY <3>1, <3>2, <2>4, <2>5
    <3>3. CASE new # NoMessage /\ new \in acceptedNow
      <4>1. new.run = m.run /\ new.kind = k.kind /\ new \in Receiver!Message
        BY <3>3, <2>2 DEF Takes, Own, Receiver!Entry
      <4>2. ~ (k.sequence <= new.sequence) /\ new.sequence \in Int
        BY <3>3, <4>1, <2>6, <1>11, SequencesAreNumbers DEF Receiver!Outdated
      <4> HIDE DEF new
      <4>3. k.sequence > new.sequence
        BY <4>2, <2>2
      <4>4. QED  BY <4>3, <3>1, <3>3, <2>4
    <3>4. CASE new # NoMessage /\ new = Receiver!Known(m.run)[k.kind]
      <4>1. Receiver!Accepted(k.run, k.kind) = new.sequence
        BY <3>4, <2>2, <2>6 DEF Receiver!Accepted, Receiver!Known, Receiver!NewEntry
      <4>2. QED  BY <4>1, <3>1, <3>4, <2>4, <2>5
    <3>5. QED  BY <3>2, <3>3, <3>4, <2>2 DEF Takes
  <2>7. CASE k.run # m.run
    <3>1. CASE k.run \in DOMAIN runs'
      <4>1. k.run \in keep \ {m.run} /\ k.run \in DOMAIN runs
        BY <3>1, <2>7, <1>2, <1>7
      <4>2. runs[k.run] \in Receiver!Entry
        BY <4>1 DEF MemoryInv, EntriesAreOwn
      <4>3. runs'[k.run][k.kind] = runs[k.run][k.kind]
        <5>1. runs'[k.run] = [runs[k.run] EXCEPT !.retired = TRUE] \/ runs'[k.run] = runs[k.run]
          BY <4>1, <1>2
        <5>2. QED  BY <5>1, <4>2, <2>2 DEF Receiver!Entry
      <4>4. Receiver!Accepted(k.run, k.kind)' = Receiver!Accepted(k.run, k.kind)
        BY <4>1, <4>3, <3>1, <2>3 DEF Receiver!Accepted
      <4>5. QED  BY <4>4, <2>4, <2>5
    <3>2. CASE k.run \notin DOMAIN runs'
      BY <3>2, <2>3, <2>4, <2>5
    <3>3. QED  BY <3>1, <3>2
  <2>8. QED  BY <2>6, <2>7
<1>13. PartialsAreOfUse'
  <2>1. DOMAIN partials' \subseteq Receiver!Message
    BY <1>11 DEF MemoryInv, PartialsAreOfUse
  <2>2. \A k \in DOMAIN partials' : partials'[k] \notin {{}, Receiver!Fragments(k.kind)}
    BY <1>11 DEF MemoryInv, PartialsAreOfUse
  <2>3. QED  BY <2>1, <2>2, <1>11, <1>12 DEF PartialsAreOfUse
<1>14. QED  BY <1>10, <1>13 DEF MemoryInv

LEMMA DescriptionTakes ==
  ASSUME MemoryInv, NEW m \in Receiver!Message, m.kind = "description"
  PROVE  Takes(m, Receiver!Described(m), {m} \cup ({Receiver!Promoted(m)} \ {NoMessage}))
<1> DEFINE old == Receiver!Known(m.run)
           held == Receiver!Promoted(m)
           entry == Receiver!Described(m)
<1>1. old \in Receiver!Entry /\ Own(m.run, old)
  BY KnownIsOwn DEF MemoryInv
<1>2. m # NoMessage /\ m.run \in Run
  BY SequencesAreNumbers
<1>3. /\ held \in Receiver!Message \cup {NoMessage}
      /\ held # NoMessage => held = old.pending
  BY <1>1 DEF Receiver!Promoted, Receiver!Entry
<1>4. /\ entry \in Receiver!Entry /\ entry.description = m /\ entry.pending = NoMessage
      /\ entry.state = IF held # NoMessage THEN held ELSE old.state
  BY <1>1, <1>3 DEF Receiver!Described, Receiver!Entry
<1>5. Own(m.run, entry)
  BY <1>1, <1>3, <1>4 DEF Own
<1>6. QED  BY <1>3, <1>4, <1>5 DEF Takes, Receiver!Kind

LEMMA HeldTakes ==
  ASSUME MemoryInv, NEW m \in Receiver!Message, m.kind = "state"
  PROVE  Takes(m, [Receiver!Known(m.run) EXCEPT
                     !.pending = IF @ = NoMessage \/ m.sequence > @.sequence THEN m ELSE @], {})
<1> DEFINE old == Receiver!Known(m.run)
           kept == IF old.pending = NoMessage \/ m.sequence > old.pending.sequence
                   THEN m ELSE old.pending
           entry == [old EXCEPT !.pending = IF @ = NoMessage \/ m.sequence > @.sequence
                                            THEN m ELSE @]
<1>1. old \in Receiver!Entry /\ Own(m.run, old)
  BY KnownIsOwn DEF MemoryInv
<1>2. kept \in {m, old.pending}
  OBVIOUS
<1>3. entry = [old EXCEPT !.pending = kept]
  OBVIOUS
<1> HIDE DEF kept, entry
<1>4. /\ entry \in Receiver!Entry /\ entry.pending = kept
      /\ entry.description = old.description /\ entry.state = old.state
  BY <1>1, <1>2, <1>3 DEF Receiver!Entry
<1>5. Own(m.run, entry)
  BY <1>1, <1>2, <1>4 DEF Own
<1>6. Takes(m, entry, {})
  BY <1>4, <1>5 DEF Takes, Receiver!Kind
<1>7. QED  BY <1>6 DEF entry

LEMMA StateTakes ==
  ASSUME MemoryInv, NEW m \in Receiver!Message, m.kind = "state"
  PROVE  Takes(m, [Receiver!Known(m.run) EXCEPT !.state = m], {m})
<1> DEFINE old == Receiver!Known(m.run)
           entry == [old EXCEPT !.state = m]
<1>1. old \in Receiver!Entry /\ Own(m.run, old)
  BY KnownIsOwn DEF MemoryInv
<1>2. /\ entry \in Receiver!Entry /\ entry.state = m
      /\ entry.description = old.description /\ entry.pending = old.pending
  BY <1>1 DEF Receiver!Entry
<1>3. Own(m.run, entry)
  BY <1>1, <1>2 DEF Own
<1> HIDE DEF entry
<1>4. Takes(m, entry, {m})
  BY <1>2, <1>3 DEF Takes, Receiver!Kind
<1>5. QED  BY <1>4 DEF entry

\* Fewer messages are collected, nothing else changes.
LEMMA FewerStay ==
  ASSUME MemoryInv, UNCHANGED runs,
         DOMAIN partials' \subseteq DOMAIN partials, IsFiniteSet(DOMAIN partials'),
         Cardinality(DOMAIN partials') <= MaxPartials,
         \A k \in DOMAIN partials' : partials'[k] = partials[k]
  PROVE  MemoryInv'
<1>1. EntriesAreOwn'
  BY DEF MemoryInv, EntriesAreOwn
<1>2. \A k : Receiver!Admissible(k)' <=> Receiver!Admissible(k)
  BY DEF Receiver!Admissible, Receiver!Accepted
<1>3. PartialsAreOfUse'
  BY <1>2 DEF MemoryInv, PartialsAreOfUse
<1>4. QED  BY <1>1, <1>3 DEF MemoryInv

LEMMA CollectKeeps ==
  ASSUME MemoryInv, NEW m \in Receiver!Message, NEW f \in Receiver!Fragments(m.kind),
         Receiver!Collect(m, f)
  PROVE  MemoryInv'
<1>1. PICK keep \in SUBSET DOMAIN partials :
        /\ Receiver!Stay(m, keep)
        /\ partials' = [k \in keep \cup {m} |->
                          IF k = m THEN Receiver!Received(m) \cup {f} ELSE partials[k]]
  BY DEF Receiver!Collect
<1>2. /\ DOMAIN partials' = keep \cup {m}
      /\ partials'[m] = Receiver!Received(m) \cup {f}
      /\ \A k \in keep \ {m} : partials'[k] = partials[k]
  BY <1>1
<1>3. IsFiniteSet(DOMAIN partials') /\ Cardinality(DOMAIN partials') <= MaxPartials
  BY <1>1, <1>2, StayFits
<1>4. UNCHANGED runs
  BY DEF Receiver!Collect
<1>5. \A k : Receiver!Admissible(k)' <=> Receiver!Admissible(k)
  BY <1>4 DEF Receiver!Admissible, Receiver!Accepted
<1>6. /\ Receiver!Admissible(m)
      /\ partials'[m] \notin {{}, Receiver!Fragments(m.kind)}
  BY <1>2 DEF Receiver!Collect
<1>7. PartialsAreOfUse'
  BY <1>1, <1>2, <1>3, <1>5, <1>6 DEF MemoryInv, PartialsAreOfUse
<1>8. EntriesAreOwn'
  BY <1>4 DEF MemoryInv, EntriesAreOwn
<1>9. QED  BY <1>7, <1>8 DEF MemoryInv

LEMMA MemoryInit == Receiver!Init => MemoryInv
<1> SUFFICES ASSUME Receiver!Init
             PROVE  MemoryInv
  OBVIOUS
<1>1. DOMAIN runs = {} /\ DOMAIN partials = {}
  BY DEF Receiver!Init
<1>2. Cardinality({}) = 0 /\ IsFiniteSet({}) /\ MaxRuns > 0 /\ MaxPartials > 0
  BY FS_EmptySet, ReceiverNumbers
<1>3. QED  BY <1>1, <1>2, ReceiverNumbers DEF MemoryInv, EntriesAreOwn, PartialsAreOfUse

LEMMA MemoryStep == MemoryInv /\ [Receiver!Next]_receiverVars => MemoryInv'
<1> SUFFICES ASSUME MemoryInv, [Receiver!Next]_receiverVars
             PROVE  MemoryInv'
  OBVIOUS
<1>1. CASE UNCHANGED receiverVars
  BY <1>1 DEF MemoryInv, EntriesAreOwn, PartialsAreOfUse, Receiver!Admissible,
              Receiver!Accepted, receiverVars
<1>2. ASSUME NEW m \in Receiver!Message, Receiver!Conflict(m)
      PROVE  MemoryInv'
  <2>1. /\ DOMAIN partials' = DOMAIN partials \ {m}
        /\ \A k \in DOMAIN partials' : partials'[k] = partials[k]
        /\ UNCHANGED runs
    BY <1>2 DEF Receiver!Conflict
  <2>2. IsFiniteSet(DOMAIN partials) /\ Cardinality(DOMAIN partials) <= MaxPartials
    BY DEF MemoryInv, PartialsAreOfUse
  <2>3. /\ IsFiniteSet(DOMAIN partials') /\ DOMAIN partials' \subseteq DOMAIN partials
        /\ Cardinality(DOMAIN partials') <= Cardinality(DOMAIN partials)
        /\ Cardinality(DOMAIN partials') \in Nat /\ Cardinality(DOMAIN partials) \in Nat
    BY <2>1, <2>2, FS_Subset, FS_CardinalityType
  <2>4. Cardinality(DOMAIN partials') <= MaxPartials
    BY <2>2, <2>3, ReceiverNumbers
  <2>5. QED  BY <2>1, <2>3, <2>4, FewerStay
<1>3. ASSUME NEW m \in Receiver!Message, NEW f \in Receiver!Fragments(m.kind),
             Receiver!AcceptDescription(m, f)
      PROVE  MemoryInv'
  BY <1>3, DescriptionTakes, InstallTakes DEF Receiver!AcceptDescription
<1>4. ASSUME NEW m \in Receiver!Message, NEW f \in Receiver!Fragments(m.kind),
             Receiver!HoldState(m, f)
      PROVE  MemoryInv'
  BY <1>4, HeldTakes, InstallTakes DEF Receiver!HoldState
<1>5. ASSUME NEW m \in Receiver!Message, NEW f \in Receiver!Fragments(m.kind),
             Receiver!AcceptState(m, f)
      PROVE  MemoryInv'
  BY <1>5, StateTakes, InstallTakes DEF Receiver!AcceptState
<1>6. ASSUME NEW m \in Receiver!Message, NEW f \in Receiver!Fragments(m.kind),
             Receiver!Refuse(m, f)
      PROVE  MemoryInv'
  <2>1. UNCHANGED runs /\ Receiver!Release(m, {}, {})
    BY <1>6 DEF Receiver!Refuse
  <2>2. QED  BY <2>1, ReleaseKeeps, FewerStay
<1>7. QED  BY <1>1, <1>2, <1>3, <1>4, <1>5, <1>6, CollectKeeps DEF Receiver!Next

-----------------------------------------------------------------------------
(***************************************************************************)
(* Induction, sums and filtered sequences.                                 *)
(***************************************************************************)
Less == {p \in Nat \X Nat : p[1] < p[2]}

\* Every set of natural numbers that is not empty has a least element,
LEMMA Least ==
  ASSUME NEW T, T \subseteq Nat, T # {}
  PROVE  \E n \in T : \A m \in T : n <= m
<1>1. IsWellFoundedOn(Less, Nat)
  BY NatLessThanWellFounded DEF OpToRel, Less
<1>2. PICK n \in T : \A m \in T : <<m, n>> \notin Less
  BY <1>1, WFMin
<1>3. ASSUME NEW m \in T  PROVE n <= m
  <2>1. m \in Nat /\ n \in Nat /\ <<m, n>> \in Nat \X Nat /\ <<m, n>>[1] = m /\ <<m, n>>[2] = n
    OBVIOUS
  <2>2. ~ (m < n)
    BY <1>2, <2>1 DEF Less
  <2>3. QED  BY <2>1, <2>2
<1>4. QED  BY <1>3

\* which is what proves a claim about each of them, given as the set of those it holds for.
LEMMA Induction ==
  ASSUME NEW T, 0 \in T, \A n \in Nat : n \in T => n + 1 \in T
  PROVE  \A n \in Nat : n \in T
<1> DEFINE S == {n \in Nat : n \notin T}
<1> SUFFICES ASSUME S # {}  PROVE FALSE
  OBVIOUS
<1>1. PICK n \in S : \A m \in S : n <= m
  <2>1. S \subseteq Nat
    OBVIOUS
  <2> HIDE DEF S
  <2>2. QED  BY <2>1, Least
<1>2. n \in Nat /\ n # 0
  OBVIOUS
<1>3. n - 1 \in Nat /\ ~ (n <= n - 1) /\ (n - 1) + 1 = n
  BY <1>2
<1>4. n - 1 \in T
  BY <1>1, <1>3
<1>5. QED  BY <1>3, <1>4

\* g sums f over the subsets of S, one chosen element after the other.
Chosen(some) == CHOOSE y \in some : TRUE

Sums(f, g, S) ==
    g = [some \in SUBSET S |-> IF some = {} THEN 0 ELSE f[Chosen(some)] + g[some \ {Chosen(some)}]]

LEMMA SumIsChosen ==
  ASSUME NEW f, NEW S, DOMAIN f = S
  PROVE  SumFunction(f) = (CHOOSE g : Sums(f, g, S))[S]
BY Zenon DEF SumFunction, SumFunctionOnSet, FoldFunctionOnSet, MapThenFoldSet, Sums, Chosen

LEMMA ChosenIsThere ==
  ASSUME NEW some, some # {}
  PROVE  Chosen(some) \in some
BY DEF Chosen

\* A subset without one of its elements is smaller by one.
LEMMA OneLess ==
  ASSUME NEW S, IsFiniteSet(S), NEW some \in SUBSET S, NEW y \in some
  PROVE  /\ some \ {y} \in SUBSET S /\ IsFiniteSet(some) /\ Cardinality(some) \in Nat
         /\ Cardinality(some \ {y}) \in Nat /\ Cardinality(some \ {y}) + 1 = Cardinality(some)
<1>1. IsFiniteSet(some)
  BY FS_Subset
<1>2. Cardinality(some) \in Nat /\ Cardinality(some \ {y}) = Cardinality(some) - 1
  BY <1>1, FS_CardinalityType, FS_RemoveElement
<1>3. IsFiniteSet(some \ {y})
  BY <1>1, FS_Subset
<1>4. Cardinality(some \ {y}) \in Nat
  BY <1>3, FS_CardinalityType
<1>5. QED  BY <1>1, <1>2, <1>4

LEMMA SumExists ==
  ASSUME NEW f, NEW S, IsFiniteSet(S)
  PROVE  \E g : Sums(f, g, S)
<1> DEFINE Small(n) == {some \in SUBSET S : Cardinality(some) <= n}
           Body(g, some) == IF some = {} THEN 0 ELSE f[Chosen(some)] + g[some \ {Chosen(some)}]
           T == {n \in Nat : \E g : g = [some \in Small(n) |-> Body(g, some)]}
<1>1. \A some \in SUBSET S : IsFiniteSet(some) /\ Cardinality(some) \in Nat
  BY FS_Subset, FS_CardinalityType
<1>2. 0 \in T
  <2>1. \A some \in Small(0) : some = {}
    BY <1>1, FS_EmptySet
  <2> DEFINE g == [some \in Small(0) |-> 0]
  <2>2. g = [some \in Small(0) |-> Body(g, some)]
    BY <2>1
  <2>3. QED  BY <2>2
<1>3. ASSUME NEW n \in Nat, n \in T
      PROVE  n + 1 \in T
  <2>1. PICK g : g = [some \in Small(n) |-> Body(g, some)]
    BY <1>3
  <2> DEFINE h == [some \in Small(n + 1) |-> Body(g, some)]
  <2>2. ASSUME NEW some \in Small(n + 1), some # {}
        PROVE  h[some \ {Chosen(some)}] = g[some \ {Chosen(some)}]
    <3> DEFINE r == some \ {Chosen(some)}
    <3>1. r \in SUBSET S /\ Cardinality(r) \in Nat /\ Cardinality(r) + 1 = Cardinality(some)
      BY <2>2, ChosenIsThere, OneLess
    <3>2. Cardinality(some) \in Nat /\ Cardinality(some) <= n + 1
      BY <1>1
    <3>3. Cardinality(r) <= n /\ Cardinality(r) <= n + 1
      <4> HIDE DEF r
      <4>1. QED  BY <3>1, <3>2
    <3>4. r \in Small(n) /\ r \in Small(n + 1)
      BY <3>1, <3>3
    <3> HIDE DEF r, Small, Body
    <3>5. g[r] = Body(g, r) /\ h[r] = Body(g, r)
      BY <2>1, <3>4
    <3>6. QED  BY <3>5 DEF r
  <2>3. h = [some \in Small(n + 1) |-> Body(h, some)]
    <3>1. ASSUME NEW some \in Small(n + 1)  PROVE Body(g, some) = Body(h, some)
      <4> HIDE DEF h, Small
      <4>1. CASE some = {}
        BY <4>1
      <4>2. CASE some # {}
        BY <4>2, <2>2
      <4>3. QED  BY <4>1, <4>2
    <3> HIDE DEF Small, Body
    <3>2. QED  BY <3>1
  <2>4. n + 1 \in Nat
    OBVIOUS
  <2> HIDE DEF h, Small, Body
  <2>5. QED  BY <2>3, <2>4
<1>4. Cardinality(S) \in Nat
  BY FS_CardinalityType
<1>5. Cardinality(S) \in T
  <2> HIDE DEF T
  <2>1. QED  BY <1>2, <1>3, <1>4, Induction
<1>6. Small(Cardinality(S)) = SUBSET S
  BY <1>4, <1>1, FS_Subset
<1>7. QED  BY <1>5, <1>6 DEF Sums

LEMMA SumIsOne ==
  ASSUME NEW f, NEW S, DOMAIN f = S, IsFiniteSet(S)
  PROVE  \E g : Sums(f, g, S) /\ SumFunction(f) = g[S]
BY SumIsChosen, SumExists

\* A sum is a number,
LEMMA SumIsNumber ==
  ASSUME NEW f, NEW S, IsFiniteSet(S), \A y \in S : f[y] \in Int, NEW g, Sums(f, g, S)
  PROVE  \A some \in SUBSET S : g[some] \in Int
<1> DEFINE T == {n \in Nat : \A some \in SUBSET S : Cardinality(some) = n => g[some] \in Int}
<1>1. ASSUME NEW some \in SUBSET S
      PROVE  /\ IsFiniteSet(some) /\ Cardinality(some) \in Nat
             /\ g[some] = IF some = {} THEN 0 ELSE f[Chosen(some)] + g[some \ {Chosen(some)}]
  BY FS_Subset, FS_CardinalityType DEF Sums
<1>2. 0 \in T
  <2>1. ASSUME NEW some \in SUBSET S, Cardinality(some) = 0  PROVE g[some] \in Int
    <3>1. some = {}
      BY <1>1, <2>1, FS_EmptySet
    <3>2. QED  BY <1>1, <3>1
  <2>2. QED  BY <2>1
<1>3. ASSUME NEW n \in Nat, n \in T  PROVE n + 1 \in T
  <2> SUFFICES ASSUME NEW some \in SUBSET S, Cardinality(some) = n + 1  PROVE g[some] \in Int
    OBVIOUS
  <2>1. some # {}
    BY FS_EmptySet
  <2> DEFINE r == some \ {Chosen(some)}
  <2>2. /\ r \in SUBSET S /\ Cardinality(r) \in Nat /\ Cardinality(r) + 1 = n + 1
    BY <2>1, ChosenIsThere, OneLess
  <2> HIDE DEF r
  <2>3. g[r] \in Int
    BY <2>2, <1>3
  <2>4. f[Chosen(some)] \in Int
    BY <2>1, ChosenIsThere
  <2>5. QED  BY <2>1, <2>3, <2>4, <1>1 DEF r
<1> HIDE DEF T
<1>4. \A n \in Nat : n \in T
  BY <1>2, <1>3, Induction
<1>5. QED  BY <1>1, <1>4 DEF T

\* which any element may be taken from.
LEMMA SumWithout ==
  ASSUME NEW f, NEW S, IsFiniteSet(S), \A y \in S : f[y] \in Int, NEW g, Sums(f, g, S)
  PROVE  \A some \in SUBSET S : \A y \in some : g[some] = f[y] + g[some \ {y}]
<1> DEFINE T == {n \in Nat : \A some \in SUBSET S : \A y \in some :
                               Cardinality(some) = n => g[some] = f[y] + g[some \ {y}]}
<1>1. ASSUME NEW some \in SUBSET S, some # {}
      PROVE  g[some] = f[Chosen(some)] + g[some \ {Chosen(some)}]
  BY <1>1 DEF Sums
<1>2. 0 \in T
  <2>1. \A some \in SUBSET S : Cardinality(some) = 0 => some = {}
    BY FS_EmptySet, FS_Subset
  <2>2. QED  BY <2>1
<1>3. ASSUME NEW n \in Nat, n \in T  PROVE n + 1 \in T
  <2> SUFFICES ASSUME NEW some \in SUBSET S, NEW y \in some, Cardinality(some) = n + 1
               PROVE  g[some] = f[y] + g[some \ {y}]
    OBVIOUS
  <2> DEFINE d == Chosen(some)
  <2>1. d \in some /\ g[some] = f[d] + g[some \ {d}]
    BY ChosenIsThere, <1>1
  <2> HIDE DEF d
  <2>2. CASE y = d
    BY <2>1, <2>2
  <2>3. CASE y # d
    <3> DEFINE u == some \ {d}
               v == some \ {y}
               w == (some \ {d}) \ {y}
    <3>1. /\ u \in SUBSET S /\ Cardinality(u) = n /\ v \in SUBSET S /\ Cardinality(v) = n
      <4>1. Cardinality(u) + 1 = n + 1 /\ Cardinality(u) \in Nat
        BY <2>1, OneLess
      <4>2. Cardinality(v) + 1 = n + 1 /\ Cardinality(v) \in Nat
        BY OneLess
      <4> HIDE DEF u, v
      <4>3. QED  BY <4>1, <4>2 DEF u, v
    <3>2. y \in u /\ u \ {y} = w /\ d \in v /\ v \ {d} = w /\ w \in SUBSET S
      BY <2>1, <2>3
    <3> HIDE DEF u, v, w
    <3>3. g[u] = f[y] + g[w] /\ g[v] = f[d] + g[w]
      BY <3>1, <3>2, <1>3
    <3>4. g[w] \in Int /\ f[y] \in Int /\ f[d] \in Int
      BY <3>2, <2>1, SumIsNumber
    <3>5. g[some] = f[d] + g[u]
      BY <2>1 DEF u
    <3>6. g[some] = f[y] + g[v]
      BY <3>3, <3>4, <3>5
    <3>7. QED  BY <3>6 DEF v
  <2>4. QED  BY <2>2, <2>3
<1> HIDE DEF T
<1>4. \A n \in Nat : n \in T
  BY <1>2, <1>3, Induction
<1>5. ASSUME NEW some \in SUBSET S, NEW y \in some  PROVE Cardinality(some) \in T
  BY <1>4, OneLess
<1>6. QED  BY <1>5 DEF T

\* Functions that agree on a set have the same sum over it.
LEMMA SumAgrees ==
  ASSUME NEW f, NEW S, NEW g, Sums(f, g, S), NEW F, NEW R, NEW G, Sums(F, G, R),
         NEW D, IsFiniteSet(D), D \subseteq S, D \subseteq R, \A y \in D : f[y] = F[y]
  PROVE  g[D] = G[D]
<1> DEFINE T == {n \in Nat : \A some \in SUBSET D : Cardinality(some) = n => g[some] = G[some]}
<1>1. ASSUME NEW some \in SUBSET D
      PROVE  /\ IsFiniteSet(some) /\ Cardinality(some) \in Nat
             /\ g[some] = IF some = {} THEN 0 ELSE f[Chosen(some)] + g[some \ {Chosen(some)}]
             /\ G[some] = IF some = {} THEN 0 ELSE F[Chosen(some)] + G[some \ {Chosen(some)}]
  BY FS_Subset, FS_CardinalityType DEF Sums
<1>2. 0 \in T
  BY <1>1, FS_EmptySet
<1>3. ASSUME NEW n \in Nat, n \in T  PROVE n + 1 \in T
  <2> SUFFICES ASSUME NEW some \in SUBSET D, Cardinality(some) = n + 1  PROVE g[some] = G[some]
    OBVIOUS
  <2>1. some # {}
    BY FS_EmptySet
  <2> DEFINE r == some \ {Chosen(some)}
  <2>2. r \in SUBSET D /\ Cardinality(r) \in Nat /\ Cardinality(r) + 1 = n + 1
    BY <2>1, ChosenIsThere, OneLess
  <2> HIDE DEF r
  <2>3. g[r] = G[r]
    BY <2>2, <1>3
  <2>4. f[Chosen(some)] = F[Chosen(some)]
    BY <2>1, ChosenIsThere
  <2>5. QED  BY <2>1, <2>3, <2>4, <1>1 DEF r
<1> HIDE DEF T
<1>4. \A n \in Nat : n \in T
  BY <1>2, <1>3, Induction
<1>5. D \in SUBSET D
  OBVIOUS
<1>6. Cardinality(D) \in T
  BY <1>1, <1>4, <1>5
<1>7. QED  BY <1>5, <1>6 DEF T

LEMMA SumIsInt ==
  ASSUME NEW S, IsFiniteSet(S), NEW f \in [S -> Int]
  PROVE  SumFunction(f) \in Int
<1>1. PICK g : Sums(f, g, S) /\ SumFunction(f) = g[S]
  BY SumIsOne
<1>2. QED  BY <1>1, SumIsNumber

\* A sum in which one term changes, or is new.
\* F differs from f at r, which may be new.
DiffersAt(r, F, f, S) ==
    /\ IsFiniteSet(S) /\ f \in [S -> Int] /\ F \in [S \cup {r} -> Int]
    /\ \A y \in S \ {r} : F[y] = f[y]

LEMMA SumChanges ==
  ASSUME NEW S, NEW f, NEW r, NEW F, DiffersAt(r, F, f, S)
  PROVE  SumFunction(F) = SumFunction(f) + F[r] - (IF r \in S THEN f[r] ELSE 0)
<1> DEFINE R == S \cup {r}
           D == S \ {r}
<1> USE DEF DiffersAt
<1>1. IsFiniteSet(R) /\ IsFiniteSet(D)
  BY FS_AddElement, FS_Subset
<1>2. PICK g : Sums(f, g, S) /\ SumFunction(f) = g[S]
  BY SumIsOne
<1>3. PICK G : Sums(F, G, R) /\ SumFunction(F) = G[R]
  BY <1>1, SumIsOne
<1>4. g[D] = G[D]
  BY <1>1, <1>2, <1>3, SumAgrees
<1>5. G[R] = F[r] + G[D] /\ G[D] \in Int /\ F[r] \in Int
  <2>1. R \ {r} = D /\ R \in SUBSET R /\ r \in R /\ D \in SUBSET R
    OBVIOUS
  <2>2. \A y \in R : F[y] \in Int
    OBVIOUS
  <2> HIDE DEF R, D
  <2>3. G[R] = F[r] + G[R \ {r}]
    BY <1>1, <1>3, <2>1, <2>2, SumWithout
  <2>4. G[D] \in Int
    BY <1>1, <1>3, <2>1, <2>2, SumIsNumber
  <2>5. QED  BY <2>1, <2>2, <2>3, <2>4
<1>6. CASE r \in S
  <2>1. S \in SUBSET S /\ \A y \in S : f[y] \in Int
    OBVIOUS
  <2>2. g[S] = f[r] + g[D] /\ f[r] \in Int
    BY <1>2, <1>6, <2>1, SumWithout
  <2> HIDE DEF R, D
  <2>3. QED  BY <1>2, <1>3, <1>4, <1>5, <1>6, <2>2
<1>7. CASE r \notin S
  <2>1. D = S
    BY <1>7
  <2> HIDE DEF R, D
  <2>2. QED  BY <1>2, <1>3, <1>4, <1>5, <1>7, <2>1
<1>8. QED  BY <1>6, <1>7
-----------------------------------------------------------------------------
\* f[i] is what of the first i elements of s is in members.
Keeps(f, members, seq, n) ==
    f = [i \in 0 .. n |->
           IF i = 0 THEN <<>>
           ELSE IF seq[i] \in members THEN Append(f[i - 1], seq[i]) ELSE f[i - 1]]

LEMMA KeepsExists ==
  ASSUME NEW seq, NEW members
  PROVE  \A n \in Nat : \E f : Keeps(f, members, seq, n)
<1> DEFINE Body(f, i) == IF i = 0 THEN <<>>
                         ELSE IF seq[i] \in members THEN Append(f[i - 1], seq[i]) ELSE f[i - 1]
           T == {n \in Nat : \E f : f = [i \in 0 .. n |-> Body(f, i)]}
<1>1. 0 \in T
  <2> DEFINE f == [i \in 0 .. 0 |-> <<>>]
  <2>1. f = [i \in 0 .. 0 |-> Body(f, i)]
    OBVIOUS
  <2>2. QED  BY <2>1
<1>2. ASSUME NEW n \in Nat, n \in T  PROVE n + 1 \in T
  <2>1. PICK f : f = [i \in 0 .. n |-> Body(f, i)]
    BY <1>2
  <2> DEFINE g == [i \in 0 .. n + 1 |-> Body(f, i)]
  <2>2. ASSUME NEW i \in 0 .. n + 1  PROVE Body(f, i) = Body(g, i)
    <3>1. CASE i = 0
      BY <3>1
    <3>2. CASE i # 0
      <4>1. i - 1 \in 0 .. n /\ i - 1 \in 0 .. n + 1
        BY <3>2
      <4> HIDE DEF Body
      <4>2. f[i - 1] = Body(f, i - 1) /\ g[i - 1] = Body(f, i - 1)
        BY <4>1, <2>1
      <4>3. f[i - 1] = g[i - 1]
        BY <4>2
      <4> HIDE DEF g
      <4>4. QED  BY <4>3 DEF Body
    <3>3. QED  BY <3>1, <3>2
  <2> HIDE DEF Body
  <2>3. g = [i \in 0 .. n + 1 |-> Body(g, i)]
    BY <2>2
  <2> HIDE DEF g
  <2>4. QED  BY <2>3
<1> HIDE DEF T
<1>3. \A n \in Nat : n \in T
  BY <1>1, <1>2, Induction
<1>4. QED  BY <1>3 DEF T, Keeps

\* What Keeping makes of a sequence: the members that are in it, in their order.
InOrderOf(t, seq, n) ==
    \A i, k \in 1 .. Len(t) : i < k =>
      \E j, l \in 1 .. n : j < l /\ t[i] = seq[j] /\ t[k] = seq[l]

KeptOf(t, members, seq, n) ==
    /\ Len(t) <= n
    /\ \A i \in 1 .. Len(t) : t[i] \in members /\ \E j \in 1 .. n : t[i] = seq[j]
    /\ \A j \in 1 .. n : seq[j] \in members => \E i \in 1 .. Len(t) : t[i] = seq[j]
    /\ InOrderOf(t, seq, n)
    /\ (\A j \in 1 .. n : seq[j] \in members) => Len(t) = n /\ \A j \in 1 .. n : t[j] = seq[j]
    /\ (\E j \in 1 .. n : seq[j] \notin members) => Len(t) < n

LEMMA KeptOneMore ==
  ASSUME NEW S, NEW seq, NEW members, NEW n \in Nat, seq[n + 1] \in S,
         NEW t \in Seq(S), KeptOf(t, members, seq, n), seq[n + 1] \in members
  PROVE  KeptOf(Append(t, seq[n + 1]), members, seq, n + 1)
<1> DEFINE e == seq[n + 1]
           u == Append(t, e)
<1>1. /\ Len(t) \in Nat /\ Len(u) = Len(t) + 1 /\ u[Len(t) + 1] = e
      /\ \A i \in 1 .. Len(t) : u[i] = t[i]
  BY AppendProperties
<1>2. Len(t) <= n
  BY DEF KeptOf
<1> HIDE DEF u
<1>3. ASSUME NEW i \in 1 .. Len(u)
      PROVE  u[i] \in members /\ \E j \in 1 .. n + 1 : u[i] = seq[j]
  <2>1. CASE i = Len(u)
    BY <2>1, <1>1
  <2>2. CASE i # Len(u)
    <3>1. i \in 1 .. Len(t)
      BY <2>2, <1>1
    <3>2. PICK j \in 1 .. n : t[i] = seq[j]
      BY <3>1 DEF KeptOf
    <3>3. j \in 1 .. n + 1
      OBVIOUS
    <3>4. QED  BY <3>1, <3>2, <3>3, <1>1 DEF KeptOf
  <2>3. QED  BY <2>1, <2>2
<1>4. ASSUME NEW j \in 1 .. n + 1, seq[j] \in members
      PROVE  \E i \in 1 .. Len(u) : u[i] = seq[j]
  <2>1. CASE j = n + 1
    BY <2>1, <1>1
  <2>2. CASE j # n + 1
    <3>1. j \in 1 .. n
      BY <2>2
    <3>2. PICK i \in 1 .. Len(t) : t[i] = seq[j]
      BY <3>1, <1>4 DEF KeptOf
    <3>3. i \in 1 .. Len(u)
      BY <1>1
    <3>4. QED  BY <3>2, <3>3, <1>1
  <2>3. QED  BY <2>1, <2>2
<1>5. ASSUME NEW i \in 1 .. Len(u), NEW k \in 1 .. Len(u), i < k
      PROVE  \E j, l \in 1 .. n + 1 : j < l /\ u[i] = seq[j] /\ u[k] = seq[l]
  <2>1. i \in 1 .. Len(t)
    BY <1>5, <1>1
  <2>2. CASE k = Len(u)
    <3>1. PICK j \in 1 .. n : t[i] = seq[j]
      BY <2>1 DEF KeptOf
    <3>2. j \in 1 .. n + 1 /\ n + 1 \in 1 .. n + 1 /\ j < n + 1
      OBVIOUS
    <3>3. u[i] = seq[j] /\ u[k] = seq[n + 1]
      BY <1>1, <2>1, <2>2, <3>1
    <3>4. QED  BY <3>2, <3>3
  <2>3. CASE k # Len(u)
    <3>1. k \in 1 .. Len(t)
      BY <2>3, <1>1
    <3>2. PICK j \in 1 .. n, l \in 1 .. n : j < l /\ t[i] = seq[j] /\ t[k] = seq[l]
      BY <1>5, <2>1, <3>1 DEF KeptOf, InOrderOf
    <3>3. j \in 1 .. n + 1 /\ l \in 1 .. n + 1
      OBVIOUS
    <3>4. u[i] = t[i] /\ u[k] = t[k]
      BY <1>1, <2>1, <3>1
    <3>5. QED  BY <3>2, <3>3, <3>4
  <2>4. QED  BY <2>2, <2>3
<1>6. ASSUME \A j \in 1 .. n + 1 : seq[j] \in members
      PROVE  Len(u) = n + 1 /\ \A j \in 1 .. n + 1 : u[j] = seq[j]
  <2>1. Len(t) = n /\ \A j \in 1 .. n : t[j] = seq[j]
    <3>1. \A j \in 1 .. n : j \in 1 .. n + 1
      OBVIOUS
    <3>2. QED  BY <1>6, <3>1 DEF KeptOf
  <2>2. ASSUME NEW j \in 1 .. n + 1  PROVE u[j] = seq[j]
    <3>1. CASE j = n + 1
      BY <3>1, <2>1, <1>1
    <3>2. CASE j # n + 1
      <4>1. j \in 1 .. n
        BY <3>2
      <4>2. QED  BY <4>1, <2>1, <1>1
    <3>3. QED  BY <3>1, <3>2
  <2>3. QED  BY <2>1, <2>2, <1>1
<1>7. ASSUME NEW j \in 1 .. n + 1, seq[j] \notin members
      PROVE  Len(u) < n + 1
  <2>1. j \in 1 .. n
    BY <1>7
  <2>2. Len(t) < n
    BY <1>7, <2>1 DEF KeptOf
  <2>3. QED  BY <2>2, <1>1
<1>8. Len(u) <= n + 1
  BY <1>1, <1>2
<1>9. InOrderOf(u, seq, n + 1)
  BY <1>5 DEF InOrderOf
<1>10. QED  BY <1>3, <1>4, <1>6, <1>7, <1>8, <1>9 DEF KeptOf, u

LEMMA KeptNoMore ==
  ASSUME NEW S, NEW seq, NEW members, NEW n \in Nat,
         NEW t \in Seq(S), KeptOf(t, members, seq, n), seq[n + 1] \notin members
  PROVE  KeptOf(t, members, seq, n + 1)
<1>1. Len(t) <= n /\ Len(t) \in Nat
  BY DEF KeptOf
<1>2. ASSUME NEW i \in 1 .. Len(t)
      PROVE  t[i] \in members /\ \E j \in 1 .. n + 1 : t[i] = seq[j]
  <2>1. PICK j \in 1 .. n : t[i] = seq[j]
    BY DEF KeptOf
  <2>2. j \in 1 .. n + 1
    OBVIOUS
  <2>3. QED  BY <2>1, <2>2 DEF KeptOf
<1>3. ASSUME NEW j \in 1 .. n + 1, seq[j] \in members
      PROVE  \E i \in 1 .. Len(t) : t[i] = seq[j]
  <2>1. j \in 1 .. n
    BY <1>3
  <2>2. QED  BY <1>3, <2>1 DEF KeptOf
<1>4. ASSUME NEW i \in 1 .. Len(t), NEW k \in 1 .. Len(t), i < k
      PROVE  \E j, l \in 1 .. n + 1 : j < l /\ t[i] = seq[j] /\ t[k] = seq[l]
  <2>1. PICK j \in 1 .. n, l \in 1 .. n : j < l /\ t[i] = seq[j] /\ t[k] = seq[l]
    BY <1>4 DEF KeptOf, InOrderOf
  <2>2. j \in 1 .. n + 1 /\ l \in 1 .. n + 1
    OBVIOUS
  <2>3. QED  BY <2>1, <2>2
<1>5. n + 1 \in 1 .. n + 1
  OBVIOUS
<1>6. Len(t) <= n + 1 /\ Len(t) < n + 1
  BY <1>1
<1>7. InOrderOf(t, seq, n + 1)
  BY <1>4 DEF InOrderOf
<1>8. QED  BY <1>2, <1>3, <1>5, <1>6, <1>7 DEF KeptOf

\* Keeping keeps the members, in their order, and nothing else.
LEMMA Kept ==
  ASSUME NEW S, NEW seq \in Seq(S), NEW members
  PROVE  /\ Reporter!Keeping(members, seq) \in Seq(S)
         /\ KeptOf(Reporter!Keeping(members, seq), members, seq, Len(seq))
<1> DEFINE f == CHOOSE h : Keeps(h, members, seq, Len(seq))
           T == {n \in Nat : n <= Len(seq) => f[n] \in Seq(S) /\ KeptOf(f[n], members, seq, n)}
<1>1. Len(seq) \in Nat /\ \A i \in 1 .. Len(seq) : seq[i] \in S
  BY ElementOfSeq
<1>2. Keeps(f, members, seq, Len(seq))
  BY <1>1, KeepsExists
<1>3. Reporter!Keeping(members, seq) = f[Len(seq)]
  BY Zenon DEF Reporter!Keeping, Keeps
<1> HIDE DEF f
<1>4. 0 \in T
  <2>1. f[0] = <<>>
    BY <1>1, <1>2 DEF Keeps
  <2>2. <<>> \in Seq(S) /\ Len(<<>>) = 0
    OBVIOUS
  <2>3. KeptOf(<<>>, members, seq, 0)
    BY <2>2 DEF KeptOf, InOrderOf
  <2>4. QED  BY <2>1, <2>2, <2>3
<1>5. ASSUME NEW n \in Nat, n \in T  PROVE n + 1 \in T
  <2> SUFFICES ASSUME n + 1 <= Len(seq)
               PROVE  f[n + 1] \in Seq(S) /\ KeptOf(f[n + 1], members, seq, n + 1)
    OBVIOUS
  <2>1. f[n] \in Seq(S) /\ KeptOf(f[n], members, seq, n)
    <3>1. n <= Len(seq)
      BY <1>1
    <3>2. QED  BY <3>1, <1>5
  <2>2. seq[n + 1] \in S
    BY <1>1
  <2>3. f[n + 1] = IF seq[n + 1] \in members THEN Append(f[n], seq[n + 1]) ELSE f[n]
    <3>1. n + 1 \in 0 .. Len(seq) /\ n + 1 # 0 /\ (n + 1) - 1 = n
      BY <1>1
    <3>2. QED  BY <1>2, <3>1 DEF Keeps
  <2>4. CASE seq[n + 1] \in members
    <3>1. Append(f[n], seq[n + 1]) \in Seq(S)
      BY <2>1, <2>2, AppendProperties
    <3>2. QED  BY <2>1, <2>2, <2>3, <2>4, <3>1, KeptOneMore
  <2>5. CASE seq[n + 1] \notin members
    BY <2>1, <2>3, <2>5, KeptNoMore
  <2>6. QED  BY <2>4, <2>5
<1> HIDE DEF T
<1>6. Len(seq) \in T
  BY <1>1, <1>4, <1>5, Induction
<1>7. QED  BY <1>1, <1>3, <1>6 DEF T

-----------------------------------------------------------------------------
(***************************************************************************)
(* The receiver that reports.                                              *)
(***************************************************************************)
Counts == Seq(Int)

Report == [descriptions : Nat, states : Nat, unbound : Nat, first : Int \cup {Missing},
           last : Int \cup {Missing}, gaps : Int, counts : Counts]

ReportEntry == [latest : [Reporter!Kind -> Int], description : Nat \cup {Missing},
                report : Report]

\* What ReportAddsUp says of each run.
AddsUp(e) ==
    LET report == e.report
    IN  /\ report.states > 0 =>
             /\ report.first \in Nat /\ report.last \in Nat
             /\ report.states + report.gaps = report.last - report.first + 1
        /\ report.states = 0 => report.gaps = 0
        /\ (IF report.states > 0 THEN report.last ELSE -1) = e.latest["state"]
        /\ IF e.description = Missing
             THEN report.counts = <<>> /\ report.unbound = report.states
             ELSE /\ Len(report.counts) = e.description
                  /\ \A i \in DOMAIN report.counts :
                       report.counts[i] = report.states - report.unbound

Partial == [message : Reporter!Message, chunks : SUBSET Nat]

RunsAreKnown ==
    /\ recent \in Seq(Run) /\ Len(recent) <= MaxRuns /\ Reporter!IsInjective(recent)
    /\ DOMAIN known = Reporter!ToSet(recent)
    /\ \A r \in DOMAIN known : known[r] \in ReportEntry /\ AddsUp(known[r])

ReporterInv ==
    /\ RunsAreKnown
    /\ pending \in Seq(Partial) /\ Reporter!BufferIsBounded
    /\ Reporter!ReportAddsUp /\ state_frames \in Int /\ gaps \in Int

LEMMA ReporterNumbers ==
  /\ MaxPending \in Nat \ {0} /\ MaxRuns \in Nat \ {0} /\ MaxStates \in Nat \ {0}
  /\ Missing \notin Nat
BY OutputAssumptions DEF Reporter!ReceiverAssumption

LEMMA ReportedMessage ==
  ASSUME NEW m \in Reporter!Message
  PROVE  /\ m.run \in Run /\ m.kind \in Reporter!Kind /\ m.sequence \in Nat
         /\ MCParts[m.kind] \in Nat \ {0}
         /\ MCScalars[m] # Invalid => MCScalars[m] \in Nat
<1> DEFINE N == ("description" :> {0, 1}) @@ ("state" :> {0, 2})
<1>1. /\ N \in [Reporter!Kind -> SUBSET Nat]
      /\ MCParts \in [Reporter!Kind -> Nat \ {0}]
      /\ MCScalars \in [Reporter!Message -> Nat \cup {Invalid}]
  BY OutputAssumptions, Zenon DEF Reporter!ReceiverAssumption
<1>2. PICK k \in Reporter!Kind : m \in [run : Run, kind : {k}, sequence : N[k]]
  BY Zenon DEF Reporter!Message
<1> HIDE DEF N
<1>3. N[k] \subseteq Nat
  BY <1>1
<1>4. m.run \in Run /\ m.kind = k /\ m.sequence \in Nat
  BY <1>2, <1>3
<1>5. QED  BY <1>1, <1>4

LEMMA NewEntryAddsUp == Reporter!NewEntry \in ReportEntry /\ AddsUp(Reporter!NewEntry)
<1>1. Reporter!NewReport \in Report
  BY DEF Report, Counts, Reporter!NewReport
<1>2. Reporter!NewEntry \in ReportEntry
  BY <1>1 DEF ReportEntry, Reporter!NewEntry
<1>3. AddsUp(Reporter!NewEntry)
  BY DEF AddsUp, Reporter!NewEntry, Reporter!NewReport, Reporter!Kind
<1>4. QED  BY <1>2, <1>3

LEMMA EntryAddsUp ==
  ASSUME RunsAreKnown, NEW r
  PROVE  Reporter!Entry(r) \in ReportEntry /\ AddsUp(Reporter!Entry(r))
BY NewEntryAddsUp DEF RunsAreKnown, Reporter!Entry

\* The runs retained once r was heard of: r is the last, and the first gave way if
\* they were too many.
LEMMA RecentRuns ==
  ASSUME RunsAreKnown, NEW r \in Run
  PROVE  /\ Reporter!Recent(r) \in Seq(Run) /\ Reporter!IsInjective(Reporter!Recent(r))
         /\ Reporter!Recent(r) # <<>> /\ Reporter!Last(Reporter!Recent(r)) = r
         /\ Reporter!ToSet(Reporter!Recent(r)) = DOMAIN known \cup {r}
         /\ Len(Reporter!Recent(r)) > MaxRuns =>
              /\ r \notin DOMAIN known /\ Len(recent) = MaxRuns
              /\ Reporter!Recent(r) = Append(recent, r)
<1> DEFINE others == Reporter!ToSet(recent) \ {r}
           kept == Reporter!Keeping(others, recent)
           all == Append(kept, r)
<1>1. Len(recent) \in Nat /\ \A i \in 1 .. Len(recent) : recent[i] \in Reporter!ToSet(recent)
  BY DEF RunsAreKnown, Reporter!ToSet
<1>2. kept \in Seq(Run) /\ KeptOf(kept, others, recent, Len(recent))
  BY Kept DEF RunsAreKnown
<1>3. Reporter!Recent(r) = all
  BY Zenon DEF Reporter!Recent
<1>4. /\ Len(kept) \in Nat /\ all \in Seq(Run) /\ Len(all) = Len(kept) + 1
      /\ all[Len(kept) + 1] = r /\ \A i \in 1 .. Len(kept) : all[i] = kept[i]
  BY <1>2, AppendProperties
<1> HIDE DEF all, kept, others
<1>5. all # <<>> /\ Reporter!Last(all) = r
  BY <1>4 DEF Reporter!Last
<1>6. \A i \in 1 .. Len(kept) : kept[i] \in Reporter!ToSet(recent) /\ kept[i] # r
  BY <1>2 DEF KeptOf, others
<1>7. Reporter!IsInjective(all)
  <2>1. ASSUME NEW i \in 1 .. Len(kept), NEW k \in 1 .. Len(kept), i < k
        PROVE  kept[i] # kept[k]
    <3>1. PICK j \in 1 .. Len(recent), l \in 1 .. Len(recent) :
            j < l /\ kept[i] = recent[j] /\ kept[k] = recent[l]
      BY <1>2, <2>1 DEF KeptOf, InOrderOf
    <3>2. recent[j] # recent[l]
      BY <3>1, <1>1 DEF RunsAreKnown, Reporter!IsInjective
    <3>3. QED  BY <3>1, <3>2
  <2>2. ASSUME NEW i \in 1 .. Len(all), NEW k \in 1 .. Len(all), all[i] = all[k]
        PROVE  i = k
    <3>1. CASE i \in 1 .. Len(kept) /\ k \in 1 .. Len(kept)
      BY <3>1, <2>1, <2>2, <1>4
    <3>2. CASE i \notin 1 .. Len(kept) \/ k \notin 1 .. Len(kept)
      BY <3>2, <2>2, <1>4, <1>6
    <3>3. QED  BY <3>1, <3>2
  <2>3. DOMAIN all = 1 .. Len(all)
    BY <1>4
  <2>4. QED  BY <2>2, <2>3 DEF Reporter!IsInjective
<1>8. Reporter!ToSet(all) = DOMAIN known \cup {r}
  <2>1. ASSUME NEW y \in DOMAIN known, y # r  PROVE \E i \in 1 .. Len(kept) : kept[i] = y
    <3>1. PICK j \in 1 .. Len(recent) : recent[j] = y
      BY <1>1 DEF RunsAreKnown, Reporter!ToSet
    <3>2. y \in others
      BY <2>1 DEF others, RunsAreKnown
    <3>3. QED  BY <3>1, <3>2, <1>2 DEF KeptOf
  <2>2. DOMAIN all = 1 .. Len(kept) + 1
    BY <1>4
  <2>3. ASSUME NEW y \in DOMAIN known \cup {r}  PROVE y \in Reporter!ToSet(all)
    <3>1. CASE y = r
      BY <3>1, <2>2, <1>4 DEF Reporter!ToSet
    <3>2. CASE y # r
      <4>1. PICK i \in 1 .. Len(kept) : kept[i] = y
        BY <2>1, <3>2
      <4>2. i \in 1 .. Len(kept) + 1 /\ all[i] = y
        BY <4>1, <1>4
      <4>3. QED  BY <4>2, <2>2 DEF Reporter!ToSet
    <3>3. QED  BY <3>1, <3>2
  <2>4. ASSUME NEW y \in Reporter!ToSet(all)  PROVE y \in DOMAIN known \cup {r}
    <3>1. PICK i \in 1 .. Len(kept) + 1 : all[i] = y
      BY <2>2 DEF Reporter!ToSet
    <3>2. QED  BY <3>1, <1>4, <1>6 DEF RunsAreKnown
  <2>5. QED  BY <2>3, <2>4
<1>9. ASSUME Len(all) > MaxRuns
      PROVE  r \notin DOMAIN known /\ Len(recent) = MaxRuns /\ all = Append(recent, r)
  <2>1. Len(kept) <= Len(recent) /\ Len(recent) <= MaxRuns /\ MaxRuns \in Nat
    BY <1>2, ReporterNumbers DEF KeptOf, RunsAreKnown
  <2>2. Len(kept) = Len(recent) /\ Len(recent) = MaxRuns
    BY <1>9, <2>1, <1>1, <1>4
  <2>3. \A j \in 1 .. Len(recent) : recent[j] \in others
    <3>1. SUFFICES ASSUME NEW j \in 1 .. Len(recent), recent[j] \notin others  PROVE FALSE
      OBVIOUS
    <3>2. Len(kept) < Len(recent)
      BY <1>2, <3>1 DEF KeptOf
    <3>3. QED  BY <3>2, <2>2, <1>1
  <2>4. \A j \in 1 .. Len(recent) : kept[j] = recent[j]
    BY <1>2, <2>3 DEF KeptOf
  <2>5. kept = recent
    BY <1>2, <2>2, <2>4, SeqEqual DEF RunsAreKnown
  <2>6. r \notin Reporter!ToSet(recent)
    <3>1. SUFFICES ASSUME r \in Reporter!ToSet(recent)  PROVE FALSE
      OBVIOUS
    <3>2. PICK j \in 1 .. Len(recent) : recent[j] = r
      BY <1>1, <3>1 DEF RunsAreKnown, Reporter!ToSet
    <3>3. QED  BY <3>2, <2>3 DEF others
  <2>7. QED  BY <2>2, <2>5, <2>6 DEF all, RunsAreKnown
<1>10. QED  BY <1>3, <1>4, <1>5, <1>7, <1>8, <1>9

LEMMA RetainedRuns ==
  ASSUME RunsAreKnown, NEW r \in Run
  PROVE  /\ Reporter!Retained(r) \in Seq(Run) /\ Reporter!IsInjective(Reporter!Retained(r))
         /\ Len(Reporter!Retained(r)) <= MaxRuns
         /\ r \in Reporter!Kept(r) /\ Reporter!Kept(r) \subseteq DOMAIN known \cup {r}
         /\ ~ (Len(Reporter!Recent(r)) > MaxRuns) => Reporter!Kept(r) = DOMAIN known \cup {r}
         /\ Len(Reporter!Recent(r)) > MaxRuns =>
              /\ Reporter!Kept(r) = (DOMAIN known \ {Head(recent)}) \cup {r}
              /\ Reporter!Retained(r) = Append(Tail(recent), r)
<1> DEFINE all == Reporter!Recent(r)
<1>1. /\ all \in Seq(Run) /\ Reporter!IsInjective(all) /\ all # <<>>
      /\ Reporter!Last(all) = r /\ Reporter!ToSet(all) = DOMAIN known \cup {r}
      /\ Len(all) > MaxRuns => /\ r \notin DOMAIN known /\ Len(recent) = MaxRuns
                               /\ all = Append(recent, r)
  BY RecentRuns
<1>2. /\ Reporter!Retained(r) = IF Len(all) > MaxRuns THEN Tail(all) ELSE all
      /\ Reporter!Kept(r) = Reporter!ToSet(Reporter!Retained(r))
  BY Zenon DEF Reporter!Retained, Reporter!Kept
<1> HIDE DEF all
<1>3. MaxRuns \in Nat /\ MaxRuns > 0 /\ Len(all) \in Nat
  BY ReporterNumbers, <1>1
<1>4. r \in Reporter!ToSet(all)
  BY <1>1
<1>5. CASE ~ (Len(all) > MaxRuns)
  BY <1>1, <1>2, <1>3, <1>4, <1>5 DEF all
<1>6. CASE Len(all) > MaxRuns
  <2>1. all = Append(recent, r) /\ Len(recent) = MaxRuns /\ r \notin DOMAIN known
    BY <1>1, <1>6
  <2>2. /\ recent \in Seq(Run) /\ recent # <<>> /\ Len(recent) \in Nat
        /\ Reporter!IsInjective(recent) /\ DOMAIN recent = 1 .. MaxRuns
        /\ DOMAIN known = Reporter!ToSet(recent)
    BY <2>1, <1>3 DEF RunsAreKnown
  <2>3. /\ Tail(recent) \in Seq(Run) /\ Len(Tail(recent)) = MaxRuns - 1
        /\ \A i \in 1 .. MaxRuns - 1 : Tail(recent)[i] = recent[i + 1]
    BY <2>1, <2>2, <1>3, HeadTailProperties
  <2> DEFINE kept == Append(Tail(recent), r)
  <2>4. /\ kept \in Seq(Run) /\ Len(kept) = MaxRuns /\ kept[MaxRuns] = r
        /\ \A i \in 1 .. MaxRuns - 1 : kept[i] = recent[i + 1]
    <3>1. /\ kept \in Seq(Run) /\ Len(kept) = (MaxRuns - 1) + 1 /\ kept[(MaxRuns - 1) + 1] = r
          /\ \A i \in 1 .. MaxRuns - 1 : kept[i] = Tail(recent)[i]
      BY <2>3, AppendProperties
    <3> HIDE DEF kept
    <3>2. QED  BY <3>1, <2>3, <1>3
  <2>5. Tail(all) = kept
    <3>1. /\ all \in Seq(Run) /\ Len(all) = MaxRuns + 1 /\ all[MaxRuns + 1] = r
          /\ \A i \in 1 .. MaxRuns : all[i] = recent[i]
      BY <2>1, <2>2, AppendProperties
    <3>2. /\ Tail(all) \in Seq(Run) /\ Len(Tail(all)) = MaxRuns
          /\ \A i \in 1 .. MaxRuns : Tail(all)[i] = all[i + 1]
      BY <3>1, <1>1, <1>3, HeadTailProperties
    <3> HIDE DEF kept
    <3>3. \A i \in 1 .. MaxRuns : Tail(all)[i] = kept[i]
      BY <3>1, <3>2, <2>4, <1>3
    <3>4. QED  BY <3>2, <3>3, <2>4, SeqEqual
  <2> HIDE DEF kept
  <2>6. DOMAIN kept = 1 .. MaxRuns
    BY <2>4
  <2>7. \A i \in 1 .. MaxRuns : recent[i] # r
    BY <2>1, <2>2 DEF Reporter!ToSet
  <2>8. Reporter!IsInjective(kept)
    <3>1. ASSUME NEW i \in 1 .. MaxRuns, NEW k \in 1 .. MaxRuns, kept[i] = kept[k]
          PROVE  i = k
      <4>1. CASE i = MaxRuns \/ k = MaxRuns
        BY <4>1, <3>1, <2>4, <2>7, <1>3
      <4>2. CASE i # MaxRuns /\ k # MaxRuns
        <5>1. recent[i + 1] = recent[k + 1] /\ i + 1 \in 1 .. MaxRuns /\ k + 1 \in 1 .. MaxRuns
          BY <4>2, <3>1, <2>4, <1>3
        <5>2. i + 1 = k + 1
          BY <5>1, <2>2 DEF Reporter!IsInjective
        <5>3. QED  BY <5>2
      <4>3. QED  BY <4>1, <4>2
    <3>2. QED  BY <3>1, <2>6 DEF Reporter!IsInjective
  <2>9. Head(recent) = recent[1]
    BY <2>2
  <2>10. Reporter!ToSet(kept) = (DOMAIN known \ {Head(recent)}) \cup {r}
    <3>1. ASSUME NEW y \in Reporter!ToSet(kept)
          PROVE  y \in (DOMAIN known \ {Head(recent)}) \cup {r}
      <4>1. PICK i \in 1 .. MaxRuns : kept[i] = y
        BY <2>6 DEF Reporter!ToSet
      <4>2. CASE i = MaxRuns
        BY <4>1, <4>2, <2>4
      <4>3. CASE i # MaxRuns
        <5>1. y = recent[i + 1] /\ i + 1 \in 1 .. MaxRuns /\ i + 1 # 1 /\ 1 \in 1 .. MaxRuns
          BY <4>1, <4>3, <2>4, <1>3
        <5>2. recent[i + 1] # recent[1]
          BY <5>1, <2>2 DEF Reporter!IsInjective
        <5>3. recent[i + 1] \in DOMAIN known
          BY <5>1, <2>2 DEF Reporter!ToSet
        <5>4. QED  BY <5>1, <5>2, <5>3, <2>9
      <4>4. QED  BY <4>2, <4>3
    <3>2. ASSUME NEW y \in DOMAIN known, y # Head(recent)
          PROVE  y \in Reporter!ToSet(kept)
      <4>1. PICK i \in 1 .. MaxRuns : recent[i] = y
        BY <2>2 DEF Reporter!ToSet
      <4>2. i # 1
        BY <4>1, <3>2, <2>9
      <4>3. i - 1 \in 1 .. MaxRuns - 1 /\ (i - 1) + 1 = i
        BY <4>2, <1>3
      <4>4. kept[i - 1] = y /\ i - 1 \in 1 .. MaxRuns
        BY <4>1, <4>3, <2>4, <1>3
      <4>5. QED  BY <4>4, <2>6 DEF Reporter!ToSet
    <3>3. r \in Reporter!ToSet(kept)
      BY <2>4, <2>6, <1>3 DEF Reporter!ToSet
    <3>4. QED  BY <3>1, <3>2, <3>3
  <2>11. Reporter!Retained(r) = kept /\ Reporter!Kept(r) = Reporter!ToSet(kept)
    BY <1>2, <1>6, <2>5
  <2>12. QED  BY <2>4, <2>8, <2>10, <2>11, <1>6 DEF kept, all
<1>7. QED  BY <1>5, <1>6

(***************************************************************************)
(* What a message does to the entry of its run.                            *)
(***************************************************************************)
DescribedEntry(m) ==
    [Reporter!Entry(m.run) EXCEPT !.latest[m.kind] = m.sequence,
                                  !.description = MCScalars[m],
                                  !.report = Reporter!Described(@, m)]

CountedEntry(m) ==
    [Reporter!Entry(m.run) EXCEPT
       !.latest[m.kind] = m.sequence,
       !.report = Reporter!Counted(@, m, Reporter!Entry(m.run).description)]

\* The entry old becomes e, and what the run reports grows by these.
Grows(old, e, states, missed) ==
    /\ e \in ReportEntry /\ AddsUp(e)
    /\ e.report.states = old.report.states + states
    /\ e.report.gaps = old.report.gaps + missed

LEMMA DescriptionAddsUp ==
  ASSUME RunsAreKnown, NEW m \in Reporter!Message, m.kind = "description", Reporter!Agrees(m)
  PROVE  /\ Grows(Reporter!Entry(m.run), DescribedEntry(m), 0, 0)
         /\ DescribedEntry(m).latest = [Reporter!Entry(m.run).latest EXCEPT
                                          !["description"] = m.sequence]
<1> DEFINE old == Reporter!Entry(m.run)
           new == Reporter!Described(old.report, m)
           e == DescribedEntry(m)
           scalars == MCScalars[m]
<1>1. old \in ReportEntry /\ AddsUp(old)
  BY EntryAddsUp
<1>2. scalars \in Nat /\ old.description \in {Missing, scalars} /\ m.sequence \in Nat
  BY ReportedMessage DEF Reporter!Agrees
<1>3. Missing \notin Nat
  BY ReporterNumbers
<1> HIDE DEF old, scalars
<1>4. /\ old.report \in Report /\ old.latest \in [Reporter!Kind -> Int]
      /\ "state" \in Reporter!Kind /\ "description" \in Reporter!Kind
  BY <1>1 DEF ReportEntry, Reporter!Kind
<1> DEFINE counts == IF old.report.counts = <<>> THEN [i \in 1 .. scalars |-> 0]
                     ELSE old.report.counts
<1>5. new = [old.report EXCEPT !.descriptions = @ + 1, !.counts = counts]
  BY DEF Reporter!Described, scalars
<1>6. counts \in Counts
  BY <1>2, <1>4 DEF Report, Counts
<1> HIDE DEF counts, new
<1>7. /\ new \in Report /\ new.states = old.report.states /\ new.unbound = old.report.unbound
      /\ new.first = old.report.first /\ new.last = old.report.last
      /\ new.gaps = old.report.gaps /\ new.counts = counts
  <2>1. new = [descriptions |-> old.report.descriptions + 1, states |-> old.report.states,
               unbound |-> old.report.unbound, first |-> old.report.first,
               last |-> old.report.last, gaps |-> old.report.gaps, counts |-> counts]
    BY <1>4, <1>5 DEF Report
  <2>2. /\ old.report.descriptions + 1 \in Nat /\ old.report.states \in Nat
        /\ old.report.unbound \in Nat /\ old.report.first \in Int \cup {Missing}
        /\ old.report.last \in Int \cup {Missing} /\ old.report.gaps \in Int
    BY <1>4 DEF Report
  <2>3. QED  BY <2>1, <2>2, <1>6 DEF Report
<1>8. e = [old EXCEPT !.latest["description"] = m.sequence, !.description = scalars,
                      !.report = new]
  BY Zenon DEF DescribedEntry, old, scalars, new
<1>9. /\ e \in ReportEntry /\ e.report = new /\ e.description = scalars
      /\ e.latest = [old.latest EXCEPT !["description"] = m.sequence]
  <2>1. e = [latest |-> [old.latest EXCEPT !["description"] = m.sequence],
             description |-> scalars, report |-> new]
    BY <1>1, <1>8 DEF ReportEntry
  <2>2. [old.latest EXCEPT !["description"] = m.sequence] \in [Reporter!Kind -> Int]
    BY <1>2, <1>4
  <2>3. QED  BY <2>1, <2>2, <1>2, <1>7 DEF ReportEntry
<1> HIDE DEF e
<1>10. e.latest["state"] = old.latest["state"]
  BY <1>4, <1>9
<1>11. Len(counts) = scalars /\ \A i \in DOMAIN counts : counts[i] = new.states - new.unbound
  <2>1. CASE old.description = Missing
    <3>1. old.report.counts = <<>> /\ old.report.unbound = old.report.states
      BY <1>1, <2>1 DEF AddsUp
    <3>2. counts = [i \in 1 .. scalars |-> 0] /\ old.report.states \in Nat
      BY <3>1, <1>4 DEF counts, Report
    <3>3. QED  BY <3>1, <3>2, <1>2, <1>7
  <2>2. CASE old.description # Missing
    <3>1. /\ Len(old.report.counts) = scalars /\ old.report.counts \in Counts
          /\ \A i \in DOMAIN old.report.counts :
               old.report.counts[i] = old.report.states - old.report.unbound
      BY <1>1, <1>2, <1>4, <2>2 DEF AddsUp, Report, Counts
    <3>2. CASE old.report.counts = <<>>
      <4>1. scalars = 0
        BY <3>1, <3>2
      <4>2. counts = [i \in 1 .. 0 |-> 0]
        BY <3>2, <4>1 DEF counts
      <4>3. QED  BY <4>1, <4>2
    <3>3. CASE old.report.counts # <<>>
      <4>1. counts = old.report.counts
        BY <3>3 DEF counts
      <4>2. QED  BY <4>1, <3>1, <1>7
    <3>4. QED  BY <3>2, <3>3
  <2>3. QED  BY <2>1, <2>2
<1>12. AddsUp(e)
  BY <1>1, <1>2, <1>3, <1>7, <1>9, <1>10, <1>11 DEF AddsUp
<1>13. old.report.states \in Nat /\ old.report.gaps \in Int
  BY <1>4 DEF Report
<1>14. Grows(old, e, 0, 0)
  BY <1>7, <1>9, <1>12, <1>13 DEF Grows
<1>15. QED  BY <1>9, <1>14 DEF old, e

\* What a state adds to the gaps of its run, and to those of the stream.
Missed(m) ==
    IF Reporter!Entry(m.run).latest[m.kind] = -1 THEN 0
    ELSE m.sequence - Reporter!Entry(m.run).latest[m.kind] - 1

LEMMA StateAddsUp ==
  ASSUME RunsAreKnown, NEW m \in Reporter!Message, m.kind = "state", Reporter!Agrees(m),
         ~ Reporter!IsOld(m)
  PROVE  /\ Grows(Reporter!Entry(m.run), CountedEntry(m), 1, Missed(m))
         /\ CountedEntry(m).latest = [Reporter!Entry(m.run).latest EXCEPT
                                        !["state"] = m.sequence]
<1> DEFINE old == Reporter!Entry(m.run)
           report == old.report
           new == Reporter!Counted(report, m, old.description)
           e == CountedEntry(m)
<1>1. old \in ReportEntry /\ AddsUp(old)
  BY EntryAddsUp
<1>2. m.sequence \in Nat
  BY ReportedMessage
<1> HIDE DEF old
<1>3. /\ report \in Report /\ old.latest \in [Reporter!Kind -> Int]
      /\ "state" \in Reporter!Kind /\ old.description \in Nat \cup {Missing}
  BY <1>1 DEF ReportEntry, Reporter!Kind
<1>4. /\ report.states \in Nat /\ report.unbound \in Nat /\ report.gaps \in Int
      /\ report.counts \in Seq(Int)
  BY <1>3 DEF Report, Counts
<1>5. /\ report.states > 0 => /\ report.first \in Nat /\ report.last \in Nat
                              /\ report.states + report.gaps = report.last - report.first + 1
      /\ (IF report.states > 0 THEN report.last ELSE -1) = old.latest["state"]
  BY <1>1 DEF AddsUp
<1> DEFINE gap == IF report.states > 0 THEN report.gaps + m.sequence - report.last - 1
                  ELSE report.gaps
           start == IF report.states > 0 THEN report.first ELSE m.sequence
           unbound == IF old.description = Missing THEN report.unbound + 1 ELSE report.unbound
           counts == IF old.description = Missing THEN report.counts
                     ELSE [i \in 1 .. Len(report.counts) |-> report.counts[i] + 1]
<1>6. new = [report EXCEPT !.gaps = gap, !.first = start, !.last = m.sequence,
                           !.states = @ + 1, !.unbound = unbound, !.counts = counts]
  BY DEF Reporter!Counted
<1>7. gap \in Int /\ start \in Nat /\ unbound \in Nat /\ counts \in Counts
  <2>1. counts \in Counts
    <3>1. /\ Len(report.counts) \in Nat
          /\ \A i \in 1 .. Len(report.counts) : report.counts[i] + 1 \in Int
      BY <1>4
    <3>2. [i \in 1 .. Len(report.counts) |-> report.counts[i] + 1] \in Seq(Int)
      BY <3>1
    <3>3. QED  BY <3>2, <1>4 DEF Counts
  <2>2. QED  BY <2>1, <1>2, <1>4, <1>5
<1>8. gap = report.gaps + Missed(m)
  <2>1. Missed(m) = IF old.latest["state"] = -1 THEN 0
                    ELSE m.sequence - old.latest["state"] - 1
    BY DEF Missed, old
  <2>2. QED  BY <2>1, <1>2, <1>4, <1>5
<1> HIDE DEF gap, start, unbound, counts, new
<1>9. /\ new \in Report /\ new.states = report.states + 1 /\ new.unbound = unbound
      /\ new.first = start /\ new.last = m.sequence /\ new.gaps = gap /\ new.counts = counts
  <2>1. new = [descriptions |-> report.descriptions, states |-> report.states + 1,
               unbound |-> unbound, first |-> start, last |-> m.sequence, gaps |-> gap,
               counts |-> counts]
    BY <1>3, <1>6 DEF Report
  <2>2. report.descriptions \in Nat /\ report.states + 1 \in Nat
    BY <1>3 DEF Report
  <2>3. QED  BY <2>1, <2>2, <1>2, <1>7 DEF Report
<1>10. e = [old EXCEPT !.latest["state"] = m.sequence, !.report = new]
  BY Zenon DEF CountedEntry, old, new
<1>11. /\ e \in ReportEntry /\ e.report = new /\ e.description = old.description
       /\ e.latest = [old.latest EXCEPT !["state"] = m.sequence]
  <2>1. e = [latest |-> [old.latest EXCEPT !["state"] = m.sequence],
             description |-> old.description, report |-> new]
    BY <1>1, <1>10 DEF ReportEntry
  <2>2. [old.latest EXCEPT !["state"] = m.sequence] \in [Reporter!Kind -> Int]
    BY <1>2, <1>3
  <2>3. QED  BY <2>1, <2>2, <1>3, <1>9 DEF ReportEntry
<1> HIDE DEF e
<1>12. e.latest["state"] = m.sequence
  BY <1>3, <1>11
<1>13. new.states + new.gaps = new.last - new.first + 1 /\ new.states > 0
  <2>1. CASE report.states > 0
    <3>1. gap = report.gaps + m.sequence - report.last - 1 /\ start = report.first
      BY <2>1 DEF gap, start
    <3>2. /\ report.first \in Int /\ report.last \in Int
          /\ report.states + report.gaps = report.last - report.first + 1
      BY <2>1, <1>5
    <3>3. /\ new.states = report.states + 1 /\ new.first = report.first
          /\ new.last = m.sequence /\ new.gaps = report.gaps + m.sequence - report.last - 1
      BY <3>1, <1>9
    <3>4. (report.states + 1) + (report.gaps + m.sequence - report.last - 1)
            = m.sequence - report.first + 1
      <4> DEFINE i == report.states
                 j == report.gaps
                 k == report.last
                 l == report.first
                 n == m.sequence
      <4>1. i \in Nat /\ j \in Int /\ k \in Int /\ l \in Int /\ n \in Nat /\ i + j = k - l + 1
        BY <3>2, <1>2, <1>4
      <4> HIDE DEF i, j, k, l, n
      <4>2. (i + 1) + (j + n - k - 1) = n - l + 1
        BY <4>1
      <4>3. QED  BY <4>2 DEF i, j, k, l, n
    <3>5. new.states > 0
      BY <3>3, <1>4
    <3>6. QED  BY <3>3, <3>4, <3>5
  <2>2. CASE ~ (report.states > 0)
    <3>1. gap = report.gaps /\ start = m.sequence /\ report.states = 0
      BY <2>2, <1>4 DEF gap, start
    <3>2. report.gaps = 0
      BY <3>1, <1>1 DEF AddsUp
    <3>3. QED  BY <3>1, <3>2, <1>2, <1>4, <1>9
  <2>3. QED  BY <2>1, <2>2
<1>14. IF old.description = Missing THEN counts = <<>> /\ unbound = new.states
       ELSE /\ Len(counts) = old.description
            /\ \A i \in DOMAIN counts : counts[i] = new.states - unbound
  <2>1. CASE old.description = Missing
    <3>1. report.counts = <<>> /\ report.unbound = report.states
      BY <1>1, <2>1 DEF AddsUp
    <3>2. QED  BY <2>1, <3>1, <1>9 DEF counts, unbound
  <2>2. CASE old.description # Missing
    <3>1. /\ Len(report.counts) = old.description
          /\ \A i \in DOMAIN report.counts :
               report.counts[i] = report.states - report.unbound
      BY <1>1, <2>2 DEF AddsUp
    <3>2. counts = [i \in 1 .. Len(report.counts) |-> report.counts[i] + 1]
          /\ unbound = report.unbound
      BY <2>2 DEF counts, unbound
    <3>3. Len(counts) = Len(report.counts) /\ DOMAIN counts = 1 .. Len(report.counts)
      BY <3>2, <1>4
    <3>4. ASSUME NEW i \in DOMAIN counts  PROVE counts[i] = new.states - unbound
      <4>1. i \in DOMAIN report.counts /\ counts[i] = report.counts[i] + 1
        BY <3>2, <3>3, <1>4
      <4>2. report.counts[i] = report.states - report.unbound
        BY <3>1, <4>1
      <4>3. QED  BY <4>1, <4>2, <3>2, <1>4, <1>9
    <3>5. QED  BY <2>2, <3>1, <3>3, <3>4
  <2>3. QED  BY <2>1, <2>2
<1>15. AddsUp(e)
  BY <1>2, <1>7, <1>9, <1>11, <1>12, <1>13, <1>14 DEF AddsUp
<1>16. Grows(old, e, 1, Missed(m))
  BY <1>8, <1>9, <1>11, <1>15 DEF Grows
<1>17. QED  BY <1>11, <1>16 DEF old, e

LEMMA TouchedRuns ==
  ASSUME RunsAreKnown, NEW m \in Reporter!Message, NEW e \in ReportEntry, AddsUp(e),
         Reporter!Touch(m, e)
  PROVE  /\ RunsAreKnown' /\ DOMAIN known' = Reporter!Kept(m.run)
         /\ \A r \in DOMAIN known' : known'[r] = IF r = m.run THEN e ELSE Reporter!Entry(r)
         /\ m.run \in DOMAIN known' /\ DOMAIN known' \subseteq DOMAIN known \cup {m.run}
         /\ ~ evicted' => ~ evicted /\ DOMAIN known' = DOMAIN known \cup {m.run}
         /\ \A r \in DOMAIN known \ DOMAIN known' :
              r = Head(recent) /\ recent' = Append(Tail(recent), Reporter!Last(recent)')
<1> DEFINE kept == Reporter!Retained(m.run)
           all == Reporter!Recent(m.run)
<1>1. /\ recent' = kept
      /\ known' = [r \in Reporter!Kept(m.run) |-> IF r = m.run THEN e ELSE Reporter!Entry(r)]
      /\ evicted' = (evicted \/ Len(all) > MaxRuns)
      /\ Reporter!Kept(m.run) = Reporter!ToSet(kept)
  BY Zenon DEF Reporter!Touch, Reporter!Kept
<1>2. m.run \in Run
  BY ReportedMessage
<1>3. /\ kept \in Seq(Run) /\ Reporter!IsInjective(kept) /\ Len(kept) <= MaxRuns
      /\ m.run \in Reporter!Kept(m.run)
      /\ Reporter!Kept(m.run) \subseteq DOMAIN known \cup {m.run}
      /\ ~ (Len(all) > MaxRuns) => Reporter!Kept(m.run) = DOMAIN known \cup {m.run}
      /\ Len(all) > MaxRuns =>
           /\ Reporter!Kept(m.run) = (DOMAIN known \ {Head(recent)}) \cup {m.run}
           /\ kept = Append(Tail(recent), m.run)
  BY <1>2, RetainedRuns
<1>4. recent \in Seq(Run) /\ Len(recent) \in Nat
  BY DEF RunsAreKnown
<1>5. Len(all) > MaxRuns => Len(recent) = MaxRuns /\ recent # <<>>
  BY <1>2, <1>4, RecentRuns, ReporterNumbers
<1> HIDE DEF kept, all
<1>6. /\ DOMAIN known' = Reporter!Kept(m.run)
      /\ \A r \in DOMAIN known' : known'[r] = IF r = m.run THEN e ELSE Reporter!Entry(r)
  BY <1>1
<1>7. RunsAreKnown'
  <2>1. recent' \in Seq(Run) /\ Len(recent') <= MaxRuns /\ Reporter!IsInjective(recent')
    BY <1>1, <1>3
  <2>2. DOMAIN known' = Reporter!ToSet(recent')
    BY <1>1, <1>6
  <2>3. \A r \in DOMAIN known' : known'[r] \in ReportEntry /\ AddsUp(known'[r])
    BY <1>6, EntryAddsUp
  <2>4. QED  BY <2>1, <2>2, <2>3 DEF RunsAreKnown, Reporter!IsInjective, Reporter!ToSet, AddsUp
<1>8. ASSUME NEW r \in DOMAIN known \ DOMAIN known'
      PROVE  r = Head(recent) /\ recent' = Append(Tail(recent), Reporter!Last(recent'))
  <2>1. Len(all) > MaxRuns
    BY <1>3, <1>6, <1>8
  <2>2. r = Head(recent)
    BY <2>1, <1>3, <1>6, <1>8
  <2>3. Tail(recent) \in Seq(Run) /\ Len(Tail(recent)) \in Nat
    BY <2>1, <1>4, <1>5, HeadTailProperties
  <2>4. Reporter!Last(kept) = m.run
    <3>1. /\ Len(kept) = Len(Tail(recent)) + 1 /\ kept[Len(Tail(recent)) + 1] = m.run
      BY <2>1, <2>3, <1>2, <1>3, AppendProperties
    <3>2. QED  BY <3>1 DEF Reporter!Last
  <2>5. QED  BY <2>1, <2>2, <2>4, <1>1, <1>3
<1>9. Reporter!Last(recent)' = Reporter!Last(recent')
  BY DEF Reporter!Last
<1>10. QED  BY <1>1, <1>3, <1>6, <1>7, <1>8, <1>9

LEMMA SameSum == \A f : Reporter!SumFunction(f) = SumFunction(f)
BY Zenon DEF Reporter!SumFunction, Reporter!SumFunctionOnSet, Reporter!FoldFunctionOnSet,
         Reporter!MapThenFoldSet, SumFunction, SumFunctionOnSet, FoldFunctionOnSet, MapThenFoldSet

LEMMA KnownIsFinite ==
  ASSUME RunsAreKnown
  PROVE  IsFiniteSet(DOMAIN known)
<1>1. Len(recent) \in Nat /\ DOMAIN recent = 1 .. Len(recent)
  BY DEF RunsAreKnown
<1>2. IsFiniteSet(1 .. Len(recent))
  BY <1>1, FS_Interval
<1>3. recent \in Surjection(1 .. Len(recent), DOMAIN known)
  BY <1>1 DEF RunsAreKnown, Reporter!ToSet, Surjection
<1>4. QED  BY <1>2, <1>3, FS_Surjection

\* The sums over the runs, before and after a message.
LEMMA SumsGrow ==
  ASSUME RunsAreKnown, NEW m \in Reporter!Message, NEW e \in ReportEntry, AddsUp(e),
         Reporter!Touch(m, e), ~ evicted', NEW i \in Int, NEW j \in Int,
         Grows(Reporter!Entry(m.run), e, i, j)
  PROVE  /\ SumFunction([r \in DOMAIN known |-> known[r].report.states]) \in Int
         /\ SumFunction([r \in DOMAIN known |-> known[r].report.gaps]) \in Int
         /\ SumFunction([r \in DOMAIN known' |-> known'[r].report.states]) =
              SumFunction([r \in DOMAIN known |-> known[r].report.states]) + i
         /\ SumFunction([r \in DOMAIN known' |-> known'[r].report.gaps]) =
              SumFunction([r \in DOMAIN known |-> known[r].report.gaps]) + j
<1> DEFINE q == m.run
           before == Reporter!Entry(q)
           states == [r \in DOMAIN known |-> known[r].report.states]
           missed == [r \in DOMAIN known |-> known[r].report.gaps]
           newStates == [r \in DOMAIN known' |-> known'[r].report.states]
           newMissed == [r \in DOMAIN known' |-> known'[r].report.gaps]
<1>1. /\ DOMAIN known' = DOMAIN known \cup {q} /\ RunsAreKnown'
      /\ \A r \in DOMAIN known' : known'[r] = IF r = q THEN e ELSE Reporter!Entry(r)
  BY TouchedRuns
<1>2. IsFiniteSet(DOMAIN known)
  BY KnownIsFinite
<1>3. \A r \in DOMAIN known : /\ known[r].report.states \in Int /\ known[r].report.gaps \in Int
                              /\ Reporter!Entry(r) = known[r]
  BY DEF RunsAreKnown, ReportEntry, Report, Reporter!Entry
<1>4. \A r \in DOMAIN known' : known'[r].report.states \in Int /\ known'[r].report.gaps \in Int
  BY <1>1 DEF RunsAreKnown, ReportEntry, Report
<1>5. states \in [DOMAIN known -> Int] /\ missed \in [DOMAIN known -> Int]
  BY <1>3
<1>6. newStates \in [DOMAIN known \cup {q} -> Int] /\ newMissed \in [DOMAIN known \cup {q} -> Int]
  BY <1>1, <1>4
<1>7. \A r \in DOMAIN known \ {q} : newStates[r] = states[r] /\ newMissed[r] = missed[r]
  BY <1>1, <1>3
<1>8. /\ newStates[q] = before.report.states + i
      /\ newMissed[q] = before.report.gaps + j
  BY <1>1 DEF Grows
<1>9. IF q \in DOMAIN known
      THEN before.report.states = states[q] /\ before.report.gaps = missed[q]
      ELSE before.report.states = 0 /\ before.report.gaps = 0
  BY <1>3 DEF Reporter!Entry, Reporter!NewEntry, Reporter!NewReport
<1> HIDE DEF states, missed, newStates, newMissed, before, q
<1>10. SumFunction(states) \in Int /\ SumFunction(missed) \in Int
  BY <1>2, <1>5, SumIsInt
<1>11. /\ SumFunction(newStates) =
            SumFunction(states) + newStates[q] - (IF q \in DOMAIN known THEN states[q] ELSE 0)
       /\ SumFunction(newMissed) =
            SumFunction(missed) + newMissed[q] - (IF q \in DOMAIN known THEN missed[q] ELSE 0)
  <2> DEFINE K == DOMAIN known
  <2>1. DiffersAt(q, newStates, states, K)
    BY <1>2, <1>5, <1>6, <1>7 DEF DiffersAt
  <2>2. DiffersAt(q, newMissed, missed, K)
    BY <1>2, <1>5, <1>6, <1>7 DEF DiffersAt
  <2> HIDE DEF K
  <2>3. SumFunction(newStates) =
          SumFunction(states) + newStates[q] - (IF q \in K THEN states[q] ELSE 0)
    BY <2>1, SumChanges
  <2>4. SumFunction(newMissed) =
          SumFunction(missed) + newMissed[q] - (IF q \in K THEN missed[q] ELSE 0)
    BY <2>2, SumChanges
  <2>5. QED  BY <2>3, <2>4 DEF K
<1>12. /\ SumFunction(newStates) = SumFunction(states) + i
       /\ SumFunction(newMissed) = SumFunction(missed) + j
  <2>1. CASE q \in DOMAIN known
    <3>1. states[q] \in Int /\ missed[q] \in Int
      BY <2>1, <1>5
    <3>2. QED  BY <2>1, <3>1, <1>8, <1>9, <1>10, <1>11
  <2>2. CASE q \notin DOMAIN known
    BY <2>2, <1>8, <1>9, <1>10, <1>11
  <2>3. QED  BY <2>1, <2>2
<1>13. QED  BY <1>10, <1>12 DEF states, missed, newStates, newMissed

LEMMA ReportGrows ==
  ASSUME RunsAreKnown, Reporter!ReportAddsUp, NEW m \in Reporter!Message, NEW e,
         Reporter!Touch(m, e), NEW i \in Int, NEW j \in Int,
         Grows(Reporter!Entry(m.run), e, i, j),
         state_frames' = state_frames + i, gaps' = gaps + j
  PROVE  RunsAreKnown' /\ Reporter!ReportAddsUp'
<1>1. e \in ReportEntry /\ AddsUp(e)
  BY DEF Grows
<1>2. /\ RunsAreKnown'
      /\ ~ evicted' => ~ evicted
  BY <1>1, TouchedRuns
<1>3. ASSUME ~ evicted'
      PROVE  /\ state_frames' = SumFunction([r \in DOMAIN known' |-> known'[r].report.states])
             /\ gaps' = SumFunction([r \in DOMAIN known' |-> known'[r].report.gaps])
  <2>1. /\ state_frames = SumFunction([r \in DOMAIN known |-> known[r].report.states])
        /\ gaps = SumFunction([r \in DOMAIN known |-> known[r].report.gaps])
    BY <1>2, <1>3, SameSum DEF Reporter!ReportAddsUp
  <2>2. QED  BY <1>1, <1>3, <2>1, SumsGrow
<1>4. \A r \in DOMAIN known' : AddsUp(known'[r])
  BY <1>2 DEF RunsAreKnown, AddsUp
<1>5. Reporter!ReportAddsUp'
  <2>1. \A r \in DOMAIN known' :
          LET new == known'[r]
              report == new.report
          IN  /\ report.states > 0 =>
                   report.states + report.gaps = report.last - report.first + 1
              /\ (IF report.states > 0 THEN report.last ELSE -1) = new.latest["state"]
              /\ IF new.description = Missing
                   THEN report.counts = <<>> /\ report.unbound = report.states
                   ELSE /\ Len(report.counts) = new.description
                        /\ \A k \in DOMAIN report.counts :
                             report.counts[k] = report.states - report.unbound
    BY <1>4, Zenon DEF AddsUp
  <2>2. QED  BY <1>3, <2>1, SameSum, Zenon DEF Reporter!ReportAddsUp
<1>6. QED  BY <1>2, <1>5

(***************************************************************************)
(* The messages in reassembly.                                             *)
(***************************************************************************)
Distinct(p) ==
    \A i, j \in 1 .. Len(p) : p[i].message = p[j].message => i = j

LEMMA KeptDistinct ==
  ASSUME NEW p \in Seq(Partial), Distinct(p), NEW members
  PROVE  LET q == Reporter!Keeping(members, p)
         IN  /\ q \in Seq(Partial) /\ Distinct(q) /\ Len(q) <= Len(p)
             /\ \A i \in 1 .. Len(q) : q[i] \in members /\ \E j \in 1 .. Len(p) : q[i] = p[j]
<1> DEFINE q == Reporter!Keeping(members, p)
<1>1. q \in Seq(Partial) /\ KeptOf(q, members, p, Len(p))
  BY Kept
<1> HIDE DEF q
<1>2. Len(q) \in Nat /\ Len(p) \in Nat
  BY <1>1
<1>3. ASSUME NEW i \in 1 .. Len(q), NEW k \in 1 .. Len(q), i < k
      PROVE  q[i].message # q[k].message
  <2>1. PICK j \in 1 .. Len(p), l \in 1 .. Len(p) : j < l /\ q[i] = p[j] /\ q[k] = p[l]
    BY <1>1, <1>3 DEF KeptOf, InOrderOf
  <2>2. p[j].message # p[l].message
    BY <2>1, <1>2 DEF Distinct
  <2>3. QED  BY <2>1, <2>2
<1>4. Distinct(q)
  <2>1. SUFFICES ASSUME NEW i \in 1 .. Len(q), NEW k \in 1 .. Len(q),
                        q[i].message = q[k].message, i # k
                 PROVE  FALSE
    BY DEF Distinct
  <2>2. i < k \/ k < i
    BY <2>1, <1>2
  <2>3. QED  BY <2>1, <2>2, <1>3
<1>5. /\ Len(q) <= Len(p)
      /\ \A i \in 1 .. Len(q) : q[i] \in members /\ \E j \in 1 .. Len(p) : q[i] = p[j]
  BY <1>1 DEF KeptOf
<1>6. QED  BY <1>1, <1>4, <1>5 DEF q

\* Worth keeping: a message whose run is kept, which its lane has not passed, and
\* which lacks something but not everything.
Worth(p, r) ==
    /\ p.message.run \in Reporter!Kept(r) /\ ~ Reporter!IsOld(p.message)
    /\ p.chunks \notin {{}, 1 .. MCParts[p.message.kind]}

LEMMA PendingIs ==
  ASSUME ReporterInv
  PROVE  /\ pending \in Seq(Partial) /\ Distinct(pending) /\ Len(pending) <= MaxPending
         /\ \A i \in 1 .. Len(pending) :
              /\ pending[i] \in Partial /\ ~ Reporter!IsOld(pending[i].message)
              /\ pending[i].chunks \notin {{}, 1 .. MCParts[pending[i].message.kind]}
<1>1. pending \in Seq(Partial) /\ \A i \in 1 .. Len(pending) : pending[i] \in Partial
  BY DEF ReporterInv
<1>2. Distinct(pending)
  BY DEF ReporterInv, Reporter!BufferIsBounded, Distinct
<1>3. QED  BY <1>1, <1>2 DEF ReporterInv, Reporter!BufferIsBounded

LEMMA SurvivingIs ==
  ASSUME ReporterInv, NEW r
  PROVE  /\ Reporter!Surviving(r) \in Seq(Partial) /\ Distinct(Reporter!Surviving(r))
         /\ Len(Reporter!Surviving(r)) <= MaxPending
         /\ \A i \in 1 .. Len(Reporter!Surviving(r)) : Worth(Reporter!Surviving(r)[i], r)
<1> DEFINE members == {p \in Reporter!ToSet(pending) : p.message.run \in Reporter!Kept(r)}
           left == Reporter!Keeping(members, pending)
<1>1. /\ pending \in Seq(Partial) /\ Distinct(pending) /\ Len(pending) <= MaxPending
      /\ \A i \in 1 .. Len(pending) :
           /\ pending[i] \in Partial /\ ~ Reporter!IsOld(pending[i].message)
           /\ pending[i].chunks \notin {{}, 1 .. MCParts[pending[i].message.kind]}
  BY PendingIs
<1>2. Reporter!Surviving(r) = left
  BY Zenon DEF Reporter!Surviving
<1> HIDE DEF members
<1>3. /\ left \in Seq(Partial) /\ Distinct(left) /\ Len(left) <= Len(pending)
      /\ \A i \in 1 .. Len(left) : left[i] \in members
                                   /\ \E j \in 1 .. Len(pending) : left[i] = pending[j]
  BY <1>1, KeptDistinct
<1> HIDE DEF left
<1>4. Len(left) <= MaxPending
  BY <1>1, <1>3, ReporterNumbers
<1>5. ASSUME NEW i \in 1 .. Len(left)  PROVE Worth(left[i], r)
  <2>1. PICK j \in 1 .. Len(pending) : left[i] = pending[j]
    BY <1>3
  <2>2. left[i].message.run \in Reporter!Kept(r)
    BY <1>3 DEF members
  <2>3. QED  BY <2>1, <2>2, <1>1 DEF Worth
<1>6. QED  BY <1>2, <1>3, <1>4, <1>5

\* Once a message is open it is there, and everything else is worth keeping.
LEMMA OpenedIs ==
  ASSUME ReporterInv, NEW m \in Reporter!Message
  PROVE  /\ Reporter!Opened(m) \in Seq(Partial) /\ Distinct(Reporter!Opened(m))
         /\ Len(Reporter!Opened(m)) <= MaxPending
         /\ \A i \in 1 .. Len(Reporter!Opened(m)) :
              Reporter!Opened(m)[i].message # m => Worth(Reporter!Opened(m)[i], m.run)
         /\ \E i \in 1 .. Len(Reporter!Opened(m)) : Reporter!Opened(m)[i].message = m
<1> DEFINE left == Reporter!Surviving(m.run)
           new == [message |-> m, chunks |-> {}]
           all == Append(left, new)
<1>1. /\ left \in Seq(Partial) /\ Distinct(left) /\ Len(left) <= MaxPending
      /\ \A i \in 1 .. Len(left) : Worth(left[i], m.run)
  BY SurvivingIs
<1>2. Reporter!Opened(m) =
        IF \E i \in 1 .. Len(left) : left[i].message = m THEN left
        ELSE IF Len(all) > MaxPending THEN Tail(all) ELSE all
  BY Zenon DEF Reporter!Opened
<1> HIDE DEF left
<1>3. CASE \E i \in 1 .. Len(left) : left[i].message = m
  BY <1>1, <1>2, <1>3
<1>4. CASE ~ \E i \in 1 .. Len(left) : left[i].message = m
  <2>1. new \in Partial /\ new.message = m
    BY DEF Partial
  <2> DEFINE n == Len(left)
  <2>2. /\ n \in Nat /\ all \in Seq(Partial) /\ Len(all) = n + 1 /\ all[n + 1] = new
        /\ \A i \in 1 .. n : all[i] = left[i]
    BY <1>1, <2>1, AppendProperties
  <2> HIDE DEF all, n, new
  <2>3. MaxPending \in Nat /\ MaxPending > 0 /\ n <= MaxPending
    BY <1>1, ReporterNumbers DEF n
  <2>4. \A i \in 1 .. n : left[i].message # m /\ Worth(left[i], m.run)
    BY <1>1, <1>4 DEF n
  <2>5. \A i, j \in 1 .. n : left[i].message = left[j].message => i = j
    BY <1>1 DEF Distinct, n
  <2>6. Distinct(all)
    <3>1. ASSUME NEW i \in 1 .. n + 1, NEW j \in 1 .. n + 1, all[i].message = all[j].message
          PROVE  i = j
      <4>1. CASE i = n + 1 /\ j = n + 1
        BY <4>1
      <4>2. CASE i = n + 1 /\ j # n + 1
        BY <4>2, <3>1, <2>1, <2>2, <2>4
      <4>3. CASE i # n + 1 /\ j = n + 1
        BY <4>3, <3>1, <2>1, <2>2, <2>4
      <4>4. CASE i # n + 1 /\ j # n + 1
        <5>1. i \in 1 .. n /\ j \in 1 .. n
          BY <4>4, <2>2
        <5>2. QED  BY <5>1, <3>1, <2>2, <2>5
      <4>5. QED  BY <4>1, <4>2, <4>3, <4>4
    <3>2. QED  BY <3>1, <2>2 DEF Distinct
  <2>7. \A i \in 1 .. n + 1 : all[i].message # m => Worth(all[i], m.run)
    BY <2>1, <2>2, <2>4
  <2>8. CASE ~ (Len(all) > MaxPending)
    <3>1. Reporter!Opened(m) = all /\ Len(all) <= MaxPending
      BY <1>2, <1>4, <2>2, <2>3, <2>8
    <3>2. all[n + 1].message = m /\ n + 1 \in 1 .. Len(all)
      BY <2>1, <2>2
    <3>3. QED  BY <3>1, <3>2, <2>2, <2>6, <2>7
  <2>9. CASE Len(all) > MaxPending
    <3> DEFINE rest == Tail(all)
    <3>1. Reporter!Opened(m) = rest /\ n > 0 /\ n = MaxPending
      BY <1>2, <1>4, <2>2, <2>3, <2>9
    <3>2. /\ rest \in Seq(Partial) /\ Len(rest) = n
          /\ \A i \in 1 .. n : rest[i] = all[i + 1]
      <4>1. all # <<>>
        BY <2>2
      <4>2. /\ rest \in Seq(Partial) /\ Len(rest) = Len(all) - 1
            /\ \A i \in 1 .. Len(rest) : rest[i] = all[i + 1]
        BY <4>1, <2>2, HeadTailProperties
      <4>3. Len(rest) = n
        BY <4>2, <2>2
      <4>4. QED  BY <4>2, <4>3
    <3> HIDE DEF rest
    <3>3. Distinct(rest)
      <4>1. ASSUME NEW i \in 1 .. n, NEW j \in 1 .. n, rest[i].message = rest[j].message
            PROVE  i = j
        <5>1. i + 1 \in 1 .. n + 1 /\ j + 1 \in 1 .. n + 1
          BY <2>2
        <5>2. all[i + 1].message = all[j + 1].message
          BY <4>1, <3>2
        <5>3. i + 1 = j + 1
          BY <5>1, <5>2, <2>2, <2>6 DEF Distinct
        <5>4. QED  BY <5>3, <2>2
      <4>2. QED  BY <4>1, <3>2 DEF Distinct
    <3>4. \A i \in 1 .. n : rest[i].message # m => Worth(rest[i], m.run)
      <4>1. \A i \in 1 .. n : i + 1 \in 1 .. n + 1
        BY <2>2
      <4>2. QED  BY <4>1, <3>2, <2>7
    <3>5. rest[n].message = m /\ n \in 1 .. n
      BY <3>1, <3>2, <2>1, <2>2
    <3>6. n <= MaxPending
      BY <2>3
    <3>7. QED  BY <3>1, <3>2, <3>3, <3>4, <3>5, <3>6
  <2>10. QED  BY <2>8, <2>9
<1>5. QED  BY <1>3, <1>4

\* What a step leaves in the buffer is bounded and worth keeping.
Buffers(m, e, q) ==
    /\ q \in Seq(Partial) /\ Distinct(q) /\ Len(q) <= MaxPending
    /\ \A i \in 1 .. Len(q) :
         /\ q[i].message.run \in Reporter!Kept(m.run)
         /\ q[i].chunks \notin {{}, 1 .. MCParts[q[i].message.kind]}
         /\ IF q[i].message.run = m.run
              THEN q[i].message.sequence > e.latest[q[i].message.kind]
              ELSE ~ Reporter!IsOld(q[i].message)

LEMMA BufferStays ==
  ASSUME ReporterInv, NEW m \in Reporter!Message, NEW e \in ReportEntry, AddsUp(e),
         Reporter!Touch(m, e), Buffers(m, e, pending')
  PROVE  pending' \in Seq(Partial) /\ Reporter!BufferIsBounded'
<1>1. /\ RunsAreKnown' /\ DOMAIN known' = Reporter!Kept(m.run)
      /\ \A r \in DOMAIN known' : known'[r] = IF r = m.run THEN e ELSE Reporter!Entry(r)
  BY TouchedRuns DEF ReporterInv
<1>2. ASSUME NEW i \in 1 .. Len(pending')
      PROVE  ~ (Reporter!IsOld(pending[i].message))'
  <2> DEFINE p == pending'[i].message
             latest == e.latest[p.kind]
             older == Reporter!Entry(p.run).latest[p.kind]
  <2>1. p \in Reporter!Message /\ p.run \in DOMAIN known'
    <3>1. pending'[i] \in Partial
      BY DEF Buffers
    <3>2. QED  BY <3>1, <1>1 DEF Buffers, Partial
  <2>2. p.sequence \in Nat /\ p.kind \in Reporter!Kind
    BY <2>1, ReportedMessage
  <2>3. latest \in Int
    BY <2>2 DEF ReportEntry
  <2>4. (Reporter!IsOld(pending[i].message))' <=>
          p.sequence <= known'[p.run].latest[p.kind]
    BY <2>1, Zenon DEF Reporter!IsOld, Reporter!Entry
  <2>5. CASE p.run = m.run
    <3>1. p.sequence > latest /\ known'[p.run] = e
      BY <1>1, <2>1, <2>5 DEF Buffers
    <3>2. ~ (p.sequence <= latest)
      <4> HIDE DEF p, latest
      <4>1. QED  BY <3>1, <2>2, <2>3
    <3>3. QED  BY <3>1, <3>2, <2>4
  <2>6. CASE p.run # m.run
    <3>1. ~ Reporter!IsOld(p) /\ known'[p.run] = Reporter!Entry(p.run)
      BY <1>1, <2>1, <2>6 DEF Buffers
    <3>2. ~ (p.sequence <= older)
      BY <3>1 DEF Reporter!IsOld
    <3> HIDE DEF p
    <3>3. QED  BY <3>1, <3>2, <2>4
  <2>7. QED  BY <2>5, <2>6
<1>3. \A i, j \in 1 .. Len(pending') : pending'[i].message = pending'[j].message => i = j
  BY DEF Buffers, Distinct
<1>4. /\ Len(recent') <= MaxRuns /\ Reporter!IsInjective(recent)'
      /\ DOMAIN known' = Reporter!ToSet(recent)'
  BY <1>1 DEF RunsAreKnown
<1>5. \A i \in 1 .. Len(pending') :
        /\ pending'[i].message.run \in DOMAIN known'
        /\ pending'[i].chunks \notin {{}, 1 .. MCParts[pending'[i].message.kind]}
        /\ \A j \in 1 .. Len(pending') : pending'[j].message = pending'[i].message => i = j
  BY <1>1, <1>3 DEF Buffers
<1>6. Len(pending') <= MaxPending /\ pending' \in Seq(Partial)
  BY DEF Buffers
<1>7. \A i \in 1 .. Len(pending') :
        LET p == pending'[i]
        IN  /\ p.message.run \in DOMAIN known' /\ ~ (Reporter!IsOld(pending[i].message))'
            /\ p.chunks \notin {{}, 1 .. MCParts[p.message.kind]}
            /\ \A j \in 1 .. Len(pending') : pending'[j].message = p.message => i = j
  BY <1>2, <1>5
<1>8. QED  BY <1>4, <1>6, <1>7, Zenon DEF Reporter!BufferIsBounded

LEMMA WorthBuffers ==
  ASSUME NEW m \in Reporter!Message, NEW q \in Seq(Partial), Distinct(q),
         Len(q) <= MaxPending, \A i \in 1 .. Len(q) : Worth(q[i], m.run), RunsAreKnown
  PROVE  Buffers(m, Reporter!Entry(m.run), q)
<1>1. ASSUME NEW i \in 1 .. Len(q), q[i].message.run = m.run
      PROVE  q[i].message.sequence > Reporter!Entry(m.run).latest[q[i].message.kind]
  <2> DEFINE p == q[i].message
             latest == Reporter!Entry(m.run).latest[p.kind]
  <2>1. q[i] \in Partial
    OBVIOUS
  <2>2. p \in Reporter!Message
    BY <2>1 DEF Partial
  <2>3. p.sequence \in Nat /\ p.kind \in Reporter!Kind
    BY <2>2, ReportedMessage
  <2>4. latest \in Int
    BY <2>3, EntryAddsUp DEF ReportEntry
  <2>5. ~ (p.sequence <= latest)
    BY <1>1 DEF Worth, Reporter!IsOld
  <2> HIDE DEF latest, p
  <2>6. p.sequence > latest
    BY <2>3, <2>4, <2>5
  <2>7. QED  BY <2>6 DEF latest, p
<1>2. QED  BY <1>1 DEF Buffers, Worth

LEMMA WithoutIs ==
  ASSUME ReporterInv, NEW m \in Reporter!Message
  PROVE  /\ Reporter!Without(m) \in Seq(Partial) /\ Distinct(Reporter!Without(m))
         /\ Len(Reporter!Without(m)) <= MaxPending
         /\ \A i \in 1 .. Len(Reporter!Without(m)) : Worth(Reporter!Without(m)[i], m.run)
<1> DEFINE o == Reporter!Opened(m)
           members == {p \in Reporter!ToSet(o) : p.message # m}
           q == Reporter!Keeping(members, o)
<1>1. /\ o \in Seq(Partial) /\ Distinct(o) /\ Len(o) <= MaxPending
      /\ \A i \in 1 .. Len(o) : o[i].message # m => Worth(o[i], m.run)
  BY OpenedIs
<1>2. Reporter!Without(m) = q
  BY Zenon DEF Reporter!Without
<1> HIDE DEF members, o
<1>3. /\ q \in Seq(Partial) /\ Distinct(q) /\ Len(q) <= Len(o)
      /\ \A i \in 1 .. Len(q) : q[i] \in members /\ \E j \in 1 .. Len(o) : q[i] = o[j]
  BY <1>1, KeptDistinct
<1> HIDE DEF q
<1>4. Len(q) <= MaxPending
  BY <1>1, <1>3, ReporterNumbers
<1>5. ASSUME NEW i \in 1 .. Len(q)  PROVE Worth(q[i], m.run)
  <2>1. PICK j \in 1 .. Len(o) : q[i] = o[j]
    BY <1>3
  <2>2. q[i].message # m
    BY <1>3 DEF members
  <2>3. QED  BY <2>1, <2>2, <1>1
<1>6. QED  BY <1>2, <1>3, <1>4, <1>5

LEMMA NewerIs ==
  ASSUME ReporterInv, NEW m \in Reporter!Message, NEW e,
         e.latest = [Reporter!Entry(m.run).latest EXCEPT ![m.kind] = m.sequence]
  PROVE  Buffers(m, e, Reporter!Newer(m))
<1> DEFINE all == Reporter!Without(m)
           members == {p \in Reporter!ToSet(all) : \/ p.message.run # m.run
                                                   \/ p.message.kind # m.kind
                                                   \/ p.message.sequence > m.sequence}
           q == Reporter!Keeping(members, all)
           old == Reporter!Entry(m.run)
<1>1. /\ all \in Seq(Partial) /\ Distinct(all) /\ Len(all) <= MaxPending
      /\ \A i \in 1 .. Len(all) : Worth(all[i], m.run)
  BY WithoutIs
<1>2. Reporter!Newer(m) = q
  BY Zenon DEF Reporter!Newer
<1>3. old \in ReportEntry /\ RunsAreKnown
  BY EntryAddsUp DEF ReporterInv
<1>4. Buffers(m, old, all)
  BY <1>1, <1>3, WorthBuffers
<1> HIDE DEF members, all, old
<1>5. /\ q \in Seq(Partial) /\ Distinct(q) /\ Len(q) <= Len(all)
      /\ \A i \in 1 .. Len(q) : q[i] \in members /\ \E j \in 1 .. Len(all) : q[i] = all[j]
  BY <1>1, KeptDistinct
<1> HIDE DEF q
<1>6. Len(q) <= MaxPending
  BY <1>1, <1>5, ReporterNumbers
<1>7. ASSUME NEW i \in 1 .. Len(q)
      PROVE  /\ q[i].message.run \in Reporter!Kept(m.run)
             /\ q[i].chunks \notin {{}, 1 .. MCParts[q[i].message.kind]}
             /\ IF q[i].message.run = m.run
                  THEN q[i].message.sequence > e.latest[q[i].message.kind]
                  ELSE ~ Reporter!IsOld(q[i].message)
  <2> DEFINE p == q[i].message
  <2>1. PICK j \in 1 .. Len(all) : q[i] = all[j]
    BY <1>5
  <2>2. /\ p.run \in Reporter!Kept(m.run)
        /\ q[i].chunks \notin {{}, 1 .. MCParts[p.kind]}
        /\ IF p.run = m.run THEN p.sequence > old.latest[p.kind] ELSE ~ Reporter!IsOld(p)
    BY <2>1, <1>4 DEF Buffers
  <2>3. p.kind \in Reporter!Kind
    <3>1. q[i] \in Partial
      BY <1>5
    <3>2. p \in Reporter!Message
      BY <3>1 DEF Partial
    <3>3. QED  BY <3>2, ReportedMessage
  <2>4. e.latest[p.kind] = IF p.kind = m.kind THEN m.sequence ELSE old.latest[p.kind]
    BY <2>3, <1>3 DEF ReportEntry, old
  <2>5. p.run # m.run \/ p.kind # m.kind \/ p.sequence > m.sequence
    BY <1>5 DEF members
  <2> HIDE DEF p
  <2>6. p.run = m.run => p.sequence > e.latest[p.kind]
    BY <2>2, <2>4, <2>5
  <2>7. QED  BY <2>2, <2>6 DEF p
<1>8. QED  BY <1>2, <1>5, <1>6, <1>7 DEF Buffers

LEMMA CollectedIs ==
  ASSUME ReporterInv, NEW m \in Reporter!Message, NEW n \in 1 .. MCParts[m.kind],
         Reporter!Collect(m, n)
  PROVE  Buffers(m, Reporter!Entry(m.run), pending')
<1> DEFINE o == Reporter!Opened(m)
           chunks == Reporter!Chunks(m) \cup {n}
           new == [message |-> m, chunks |-> chunks]
           q == [i \in 1 .. Len(o) |-> IF o[i].message = m THEN new ELSE o[i]]
<1>1. /\ o \in Seq(Partial) /\ Distinct(o) /\ Len(o) <= MaxPending
      /\ \A i \in 1 .. Len(o) : o[i].message # m => Worth(o[i], m.run)
      /\ \E i \in 1 .. Len(o) : o[i].message = m
  BY OpenedIs
<1>2. /\ ~ Reporter!IsOld(m) /\ chunks # 1 .. MCParts[m.kind]
      /\ Reporter!Touch(m, Reporter!Entry(m.run)) /\ pending' = q
  BY Zenon DEF Reporter!Collect
<1>3. Reporter!Chunks(m) = o[CHOOSE i \in 1 .. Len(o) : o[i].message = m].chunks
  BY Zenon DEF Reporter!Chunks
<1> HIDE DEF o
<1>4. Reporter!Chunks(m) \subseteq Nat
  <2>1. PICK i \in 1 .. Len(o) : Reporter!Chunks(m) = o[i].chunks
    BY <1>1, <1>3
  <2>2. o[i] \in Partial
    BY <1>1
  <2>3. QED  BY <2>1, <2>2 DEF Partial
<1>5. MCParts[m.kind] \in Nat /\ n \in Nat
  BY ReportedMessage
<1>6. new \in Partial /\ new.message = m /\ new.chunks = chunks /\ n \in chunks
  BY <1>4, <1>5 DEF Partial
<1>7. RunsAreKnown /\ m.run \in Reporter!Kept(m.run)
  BY <1>2, EntryAddsUp, TouchedRuns DEF ReporterInv
<1>8. Worth(new, m.run)
  BY <1>2, <1>6, <1>7 DEF Worth
<1> HIDE DEF new, chunks
<1>9. Len(o) \in Nat /\ \A i \in 1 .. Len(o) : o[i] \in Partial
  BY <1>1
<1>10. \A i \in 1 .. Len(o) : q[i] \in Partial /\ q[i].message = o[i].message
                              /\ Worth(q[i], m.run)
  BY <1>1, <1>6, <1>8, <1>9
<1>11. q \in Seq(Partial) /\ Len(q) = Len(o)
  BY <1>9, <1>10
<1> HIDE DEF q
<1>12. Distinct(q)
  BY <1>1, <1>10, <1>11 DEF Distinct
<1>13. Buffers(m, Reporter!Entry(m.run), q)
  BY <1>1, <1>7, <1>10, <1>11, <1>12, WorthBuffers
<1>14. QED  BY <1>2, <1>13

\* What LanesMoveForward says of a step.
LanesMove ==
    \A r \in DOMAIN known :
      IF r \in DOMAIN known'
      THEN \A k \in Reporter!Kind : known'[r].latest[k] >= known[r].latest[k]
      ELSE r = Head(recent) /\ recent' = Append(Tail(recent), Reporter!Last(recent)')

\* A message whose run's entry becomes e, and which leaves the buffer as it should.
LEMMA MessageStep ==
  ASSUME ReporterInv, NEW m \in Reporter!Message, NEW e, NEW i \in Int, NEW j \in Int,
         Grows(Reporter!Entry(m.run), e, i, j), Reporter!Touch(m, e),
         Buffers(m, e, pending'),
         \A k \in Reporter!Kind : e.latest[k] >= Reporter!Entry(m.run).latest[k],
         state_frames' = state_frames + i, gaps' = gaps + j
  PROVE  ReporterInv' /\ LanesMove
<1>1. e \in ReportEntry /\ AddsUp(e) /\ RunsAreKnown /\ Reporter!ReportAddsUp
  BY DEF Grows, ReporterInv
<1>2. pending' \in Seq(Partial) /\ Reporter!BufferIsBounded'
  BY <1>1, BufferStays
<1>3. RunsAreKnown' /\ Reporter!ReportAddsUp'
  BY <1>1, ReportGrows
<1>4. LanesMove
  <2>1. /\ \A r \in DOMAIN known' : known'[r] = IF r = m.run THEN e ELSE Reporter!Entry(r)
        /\ \A r \in DOMAIN known \ DOMAIN known' :
             r = Head(recent) /\ recent' = Append(Tail(recent), Reporter!Last(recent)')
    BY <1>1, TouchedRuns
  <2>2. ASSUME NEW r \in DOMAIN known, r \in DOMAIN known', NEW k \in Reporter!Kind
        PROVE  known'[r].latest[k] >= known[r].latest[k]
    <3>1. Reporter!Entry(r) = known[r]
      BY DEF Reporter!Entry
    <3>2. known[r].latest[k] \in Int
      BY <1>1 DEF RunsAreKnown, ReportEntry
    <3>3. CASE r = m.run
      BY <3>1, <3>3, <2>1, <2>2
    <3>4. CASE r # m.run
      <4>1. known'[r] = known[r]
        BY <3>1, <3>4, <2>1, <2>2
      <4>2. QED  BY <4>1, <3>2
    <3>5. QED  BY <3>3, <3>4
  <2>3. QED  BY <2>1, <2>2 DEF LanesMove
<1>5. state_frames' \in Int /\ gaps' \in Int
  BY DEF ReporterInv
<1>6. QED  BY <1>2, <1>3, <1>4, <1>5 DEF ReporterInv

LEMMA ReporterInit == Reporter!Init => ReporterInv
<1> SUFFICES ASSUME Reporter!Init  PROVE ReporterInv
  OBVIOUS
<1>1. /\ recent = <<>> /\ pending = <<>> /\ DOMAIN known = {} /\ state_frames = 0 /\ gaps = 0
  BY DEF Reporter!Init
<1>2. RunsAreKnown
  BY <1>1, ReporterNumbers DEF RunsAreKnown, Reporter!IsInjective, Reporter!ToSet
<1>3. pending \in Seq(Partial) /\ Reporter!BufferIsBounded
  <2>1. Len(<<>>) = 0 /\ 1 .. 0 = {}
    OBVIOUS
  <2>2. QED  BY <1>1, <1>2, <2>1, ReporterNumbers DEF RunsAreKnown, Reporter!BufferIsBounded
<1>4. \A f : f = [r \in {} |-> 0] => SumFunction(f) = 0
  <2> SUFFICES ASSUME NEW f, f = [r \in {} |-> 0]  PROVE SumFunction(f) = 0
    OBVIOUS
  <2>1. IsFiniteSet({}) /\ DOMAIN f = {}
    BY FS_EmptySet
  <2>2. PICK g : Sums(f, g, {}) /\ SumFunction(f) = g[{}]
    BY <2>1, SumIsOne
  <2>3. QED  BY <2>2 DEF Sums
<1>5. Reporter!ReportAddsUp
  <2>1. /\ [r \in DOMAIN known |-> known[r].report.states] = [r \in {} |-> 0]
        /\ [r \in DOMAIN known |-> known[r].report.gaps] = [r \in {} |-> 0]
    BY <1>1
  <2>2. /\ Reporter!SumFunction([r \in DOMAIN known |-> known[r].report.states]) = 0
        /\ Reporter!SumFunction([r \in DOMAIN known |-> known[r].report.gaps]) = 0
    BY <2>1, <1>4, SameSum
  <2>3. QED  BY <1>1, <2>2 DEF Reporter!ReportAddsUp
<1>6. QED  BY <1>1, <1>2, <1>3, <1>5 DEF ReporterInv

\* A message that changes no entry.
LEMMA QuietStep ==
  ASSUME ReporterInv, NEW m \in Reporter!Message, Reporter!Touch(m, Reporter!Entry(m.run)),
         Buffers(m, Reporter!Entry(m.run), pending'), UNCHANGED <<state_frames, gaps>>
  PROVE  ReporterInv' /\ LanesMove
<1> DEFINE e == Reporter!Entry(m.run)
<1>1. e \in ReportEntry /\ AddsUp(e) /\ Reporter!ReportAddsUp
  BY EntryAddsUp DEF ReporterInv
<1> HIDE DEF e
<1>2. /\ e.report.states \in Nat /\ e.report.gaps \in Int
      /\ \A k \in Reporter!Kind : e.latest[k] \in Int
  BY <1>1 DEF ReportEntry, Report
<1>3. Grows(e, e, 0, 0)
  BY <1>1, <1>2 DEF Grows
<1>4. \A k \in Reporter!Kind : e.latest[k] >= e.latest[k]
  BY <1>2
<1>5. state_frames' = state_frames + 0 /\ gaps' = gaps + 0
  BY DEF ReporterInv
<1>6. QED  BY <1>3, <1>4, <1>5, MessageStep DEF e

LEMMA DescriptionStep ==
  ASSUME ReporterInv, NEW m \in Reporter!Message, NEW n \in 1 .. MCParts[m.kind],
         Reporter!DeliverDescription(m, n)
  PROVE  ReporterInv' /\ LanesMove
<1> DEFINE old == Reporter!Entry(m.run)
           e == DescribedEntry(m)
<1>1. /\ m.kind = "description" /\ ~ Reporter!IsOld(m) /\ Reporter!Agrees(m)
      /\ Reporter!Touch(m, e) /\ pending' = Reporter!Newer(m)
      /\ UNCHANGED <<state_frames, gaps>>
  BY Zenon DEF Reporter!DeliverDescription, Reporter!Completes, Reporter!Untold, DescribedEntry
<1>2. Grows(old, e, 0, 0) /\ e.latest = [old.latest EXCEPT !["description"] = m.sequence]
  BY <1>1, DescriptionAddsUp DEF ReporterInv
<1>3. e.latest = [old.latest EXCEPT ![m.kind] = m.sequence]
  BY <1>1, <1>2
<1>4. Buffers(m, e, pending')
  BY <1>1, <1>3, NewerIs
<1>5. \A k \in Reporter!Kind : e.latest[k] >= old.latest[k]
  <2>1. old.latest \in [Reporter!Kind -> Int] /\ m.sequence \in Nat
    BY EntryAddsUp, ReportedMessage DEF ReporterInv, ReportEntry
  <2>2. ~ (m.sequence <= old.latest[m.kind])
    BY <1>1 DEF Reporter!IsOld
  <2> HIDE DEF old, e
  <2>3. QED  BY <2>1, <2>2, <1>3
<1>6. state_frames' = state_frames + 0 /\ gaps' = gaps + 0
  BY <1>1 DEF ReporterInv
<1> HIDE DEF e
<1>7. 0 \in Int
  OBVIOUS
<1>8. QED  BY <1>1, <1>2, <1>4, <1>5, <1>6, <1>7, MessageStep, Zenon

LEMMA StateStep ==
  ASSUME ReporterInv, NEW m \in Reporter!Message, NEW n \in 1 .. MCParts[m.kind],
         Reporter!DeliverState(m, n)
  PROVE  ReporterInv' /\ LanesMove
<1> DEFINE old == Reporter!Entry(m.run)
           e == CountedEntry(m)
<1>1. /\ m.kind = "state" /\ ~ Reporter!IsOld(m) /\ Reporter!Agrees(m)
      /\ Reporter!Touch(m, e) /\ pending' = Reporter!Newer(m)
      /\ state_frames' = state_frames + 1 /\ gaps' = gaps + Missed(m)
  BY Zenon DEF Reporter!DeliverState, Reporter!Completes, CountedEntry, Missed
<1>2. Grows(old, e, 1, Missed(m)) /\ e.latest = [old.latest EXCEPT !["state"] = m.sequence]
  BY <1>1, StateAddsUp DEF ReporterInv
<1>3. e.latest = [old.latest EXCEPT ![m.kind] = m.sequence]
  BY <1>1, <1>2
<1>4. Buffers(m, e, pending')
  BY <1>1, <1>3, NewerIs
<1>5. old.latest \in [Reporter!Kind -> Int] /\ m.sequence \in Nat
  BY EntryAddsUp, ReportedMessage DEF ReporterInv, ReportEntry
<1>6. m.kind \in Reporter!Kind
  BY ReportedMessage
<1>7. \A k \in Reporter!Kind : e.latest[k] >= old.latest[k]
  <2>1. ~ (m.sequence <= old.latest[m.kind])
    BY <1>1 DEF Reporter!IsOld
  <2> HIDE DEF old, e
  <2>2. QED  BY <2>1, <1>3, <1>5
<1>8. Missed(m) \in Int
  BY <1>5, <1>6 DEF Missed
<1> HIDE DEF e
<1>9. 1 \in Int
  OBVIOUS
<1>10. QED  BY <1>1, <1>2, <1>4, <1>7, <1>8, <1>9, MessageStep, Zenon

LEMMA ReporterStands ==
  ASSUME ReporterInv, UNCHANGED <<recent, known, pending, evicted, state_frames, gaps>>
  PROVE  ReporterInv' /\ LanesMove
<1>1. RunsAreKnown'
  BY DEF ReporterInv, RunsAreKnown, AddsUp, Reporter!ToSet, Reporter!IsInjective
<1>2. Reporter!BufferIsBounded'
  BY DEF ReporterInv, Reporter!BufferIsBounded, Reporter!IsOld, Reporter!Entry,
         Reporter!ToSet, Reporter!IsInjective
<1>3. Reporter!ReportAddsUp'
  BY SameSum, Zenon DEF ReporterInv, Reporter!ReportAddsUp
<1>4. LanesMove
  BY DEF LanesMove, ReporterInv, RunsAreKnown, ReportEntry
<1>5. QED  BY <1>1, <1>2, <1>3, <1>4 DEF ReporterInv

LEMMA ReporterSteps ==
  ASSUME ReporterInv, Reporter!Next
  PROVE  ReporterInv' /\ LanesMove
<1>1. RunsAreKnown
  BY DEF ReporterInv
<1>2. CASE Reporter!Stop
  <2>1. UNCHANGED <<recent, known, pending, evicted, state_frames, gaps>>
    BY <1>2 DEF Reporter!Stop
  <2>2. QED  BY <2>1, ReporterStands
<1>3. ASSUME NEW m \in Reporter!Message, Reporter!Ignore(m)
      PROVE  ReporterInv' /\ LanesMove
  <2>1. /\ Reporter!Touch(m, Reporter!Entry(m.run)) /\ pending' = Reporter!Surviving(m.run)
        /\ UNCHANGED <<state_frames, gaps>>
    BY <1>3, Zenon DEF Reporter!Ignore, Reporter!Untold
  <2>2. Buffers(m, Reporter!Entry(m.run), pending')
    BY <1>1, <2>1, SurvivingIs, WorthBuffers
  <2>3. QED  BY <2>1, <2>2, QuietStep
<1>4. ASSUME NEW m \in Reporter!Message, Reporter!Touch(m, Reporter!Entry(m.run)),
             pending' = Reporter!Without(m), UNCHANGED <<state_frames, gaps>>
      PROVE  ReporterInv' /\ LanesMove
  <2>1. Buffers(m, Reporter!Entry(m.run), pending')
    BY <1>1, <1>4, WithoutIs, WorthBuffers
  <2>2. QED  BY <1>4, <2>1, QuietStep
<1>5. ASSUME NEW m \in Reporter!Message, Reporter!Contradict(m)
      PROVE  ReporterInv' /\ LanesMove
  BY <1>4, <1>5 DEF Reporter!Contradict, Reporter!Untold
<1>6. ASSUME NEW m \in Reporter!Message, NEW n \in 1 .. MCParts[m.kind],
             Reporter!Collect(m, n)
      PROVE  ReporterInv' /\ LanesMove
  <2>1. Reporter!Touch(m, Reporter!Entry(m.run)) /\ UNCHANGED <<state_frames, gaps>>
    BY <1>6, Zenon DEF Reporter!Collect, Reporter!Untold
  <2>2. Buffers(m, Reporter!Entry(m.run), pending')
    BY <1>6, CollectedIs
  <2>3. QED  BY <2>1, <2>2, QuietStep
<1>7. ASSUME NEW m \in Reporter!Message, NEW n \in 1 .. MCParts[m.kind],
             Reporter!Refuse(m, n)
      PROVE  ReporterInv' /\ LanesMove
  BY <1>4, <1>7 DEF Reporter!Refuse, Reporter!Untold
<1>8. QED
  BY <1>2, <1>3, <1>5, <1>6, <1>7, DescriptionStep, StateStep DEF Reporter!Next

LEMMA ReporterStep == ReporterInv /\ [Reporter!Next]_reporterVars => ReporterInv' /\ LanesMove
<1>1. ASSUME UNCHANGED reporterVars
      PROVE  UNCHANGED <<recent, known, pending, evicted, state_frames, gaps>>
  BY <1>1 DEF reporterVars
<1>2. QED  BY <1>1, ReporterStands, ReporterSteps

LEMMA ReporterIsOnItsOwn ==
  MCSpec => Reporter!Init /\ [][Reporter!Next]_reporterVars
<1>1. MCInit => Reporter!Init
  BY DEF MCInit
<1>2. [MCNext]_<<atWork, vars, recordVars, senderVars, receiverVars, reporterVars, displayVars>>
        => [Reporter!Next]_reporterVars
  BY DEF MCNext
<1>3. QED  BY <1>1, <1>2, PTL DEF MCSpec

\* What the report says of a run, of the whole stream and of what is still collected
\* hangs together after every datagram.
THEOREM ReporterInvariance == MCSpec => []ReporterInv
BY ReporterIsOnItsOwn, ReporterInit, ReporterStep, PTL

\* The report adds up however messages were lost, repeated and reordered.
THEOREM ReportAlwaysAddsUp == MCSpec => []ReportAddsUp
<1>1. ReporterInv => ReportAddsUp
  BY Zenon DEF ReporterInv, ReportAddsUp
<1>2. QED  BY <1>1, ReporterInvariance, PTL

LEMMA LanesAlwaysMove == MCSpec => Reporter!LanesMoveForward
<1>1. ReporterInv /\ [Reporter!Next]_reporterVars =>
        [\A r \in DOMAIN known :
           IF r \in DOMAIN known'
           THEN \A k \in Reporter!Kind : known'[r].latest[k] >= known[r].latest[k]
           ELSE r = Head(recent)
                /\ recent' = Append(Tail(recent), Reporter!Last(recent'))]_(Reporter!vars)
  <2>1. Reporter!Last(recent)' = Reporter!Last(recent')
    BY DEF Reporter!Last
  <2>2. QED  BY <2>1, ReporterStep, Zenon DEF LanesMove
<1>2. QED  BY <1>1, ReporterIsOnItsOwn, ReporterInvariance, PTL DEF Reporter!LanesMoveForward

\* An entry holds messages of its run, and no message is collected that its lane
\* could not accept any more.
THEOREM MemoryInvariance == MCSpec => []MemoryInv
<1>1. MCInit => Receiver!Init
  BY DEF MCInit
<1>2. [MCNext]_<<atWork, vars, recordVars, senderVars, receiverVars, reporterVars, displayVars>>
        => [Receiver!Next]_receiverVars
  BY DEF MCNext
<1>3. QED  BY <1>1, <1>2, MemoryInit, MemoryStep, PTL DEF MCSpec

\* Neither receiver is filled by runs or by messages, and what they keep is of use.
THEOREM MemoryIsAlwaysBounded == MCSpec => []MemoryIsBounded
<1>1. MemoryInv => Receiver!MemoryIsBounded
  <2>1. SUFFICES ASSUME MemoryInv
                 PROVE  Receiver!MemoryIsBounded
    OBVIOUS
  <2>2. Cardinality(DOMAIN partials) <= MaxPartials /\ Cardinality(DOMAIN runs) <= MaxRuns
    BY <2>1 DEF MemoryInv, EntriesAreOwn, PartialsAreOfUse
  <2>3. /\ Receiver!Cardinality(DOMAIN partials) <= MaxPartials
        /\ Receiver!Cardinality(DOMAIN runs) <= MaxRuns
    BY <2>2, Zenon DEF Receiver!Cardinality, Cardinality
  <2>4. QED  BY <2>1, <2>3 DEF Receiver!MemoryIsBounded, MemoryInv, PartialsAreOfUse
<1>2. ReporterInv => Reporter!BufferIsBounded
  BY Zenon DEF ReporterInv
<1>3. QED  BY <1>1, <1>2, MemoryInvariance, ReporterInvariance, PTL DEF MemoryIsBounded

-----------------------------------------------------------------------------
LEMMA Larger ==
  ASSUME NEW i \in Int, NEW j \in Int
  PROVE  /\ Display!Max({i, j}) = IF i >= j THEN i ELSE j
         /\ Display!Min({i, j}) = IF i <= j THEN i ELSE j
<1> DEFINE IsMax(n) == n \in {i, j} /\ \A y \in {i, j} : n >= y
           IsMin(n) == n \in {i, j} /\ \A y \in {i, j} : n =< y
           max == IF i >= j THEN i ELSE j
           min == IF i <= j THEN i ELSE j
<1>1. IsMax(max) /\ \A n : IsMax(n) => n = max
  OBVIOUS
<1>2. IsMin(min) /\ \A n : IsMin(n) => n = min
  OBVIOUS
<1>3. Display!Max({i, j}) = CHOOSE n : IsMax(n)
  BY Zenon DEF Display!Max
<1>4. Display!Min({i, j}) = CHOOSE n : IsMin(n)
  BY Zenon DEF Display!Min
<1> HIDE DEF IsMax, IsMin, max, min
<1>5. Display!Max({i, j}) = max
  BY <1>1, <1>3
<1>6. Display!Min({i, j}) = min
  BY <1>2, <1>4
<1>7. QED  BY <1>5, <1>6 DEF max, min

LEMMA Largest ==
  ASSUME NEW n \in Nat, NEW S, S \subseteq 1 .. n, S # {}
  PROVE  Display!Max(S) \in S /\ \A j \in S : Display!Max(S) >= j
<1> DEFINE T == {n - i : i \in S}
<1>1. T \subseteq Nat /\ T # {}
  <2>1. \A i \in S : i \in Int /\ n - i \in Nat
    OBVIOUS
  <2>2. PICK i : i \in S
    OBVIOUS
  <2>3. QED  BY <2>1, <2>2
<1>2. PICK l \in T : \A k \in T : l <= k
  <2> HIDE DEF T
  <2>1. QED  BY <1>1, Least
<1>3. PICK i \in S : l = n - i
  BY <1>2
<1>4. ASSUME NEW j \in S  PROVE i >= j
  <2>1. n - j \in T
    OBVIOUS
  <2>2. n - i <= n - j /\ i \in Int /\ j \in Int
    BY <2>1, <1>2, <1>3
  <2>3. QED  BY <2>2
<1>5. \E k \in S : \A j \in S : k >= j
  BY <1>4
<1>6. QED  BY <1>5, Zenon DEF Display!Max

(***************************************************************************)
(* The display of a live run.                                              *)
(***************************************************************************)
DisplayedInterval ==
    [first : Display!Sample, second : Display!Sample, time : 0 .. MaxTime]

\* A buffer is in order.
Increasing(buffer) ==
    \A i, j \in 1 .. Len(buffer) :
       i < j => buffer[i].time < buffer[j].time /\ buffer[i].sequence < buffer[j].sequence

DisplayInv ==
    /\ samples \in Seq(Display!Sample) /\ Len(samples) <= MaxSamples /\ Increasing(samples)
    /\ disconnected \in BOOLEAN /\ paused \in BOOLEAN
    /\ disconnected <=> samples = <<>>
    /\ lastState \in Display!Sample \cup {NoState}
    /\ samples # <<>> => samples[Len(samples)] = lastState
    /\ displayed \in DisplayedInterval /\ Display!Interpolates(displayed)
    /\ Display!Ahead => disconnected \/ paused
    /\ now \in Int /\ lastArrival \in Int

LEMMA DisplayNumbers ==
  /\ MaxShown \in Nat /\ MaxTime \in Nat /\ MaxNow \in Nat /\ Delay \in Nat
  /\ MaxSamples \in Nat \ {0} /\ NoState \notin Display!Sample
BY OutputAssumptions DEF Display!ControllerAssumption

LEMMA SampleNumbers ==
  ASSUME NEW y \in Display!Sample
  PROVE  y.time \in 0 .. MaxTime /\ y.time \in Int /\ y.sequence \in Int
BY DisplayNumbers DEF Display!Sample

LEMMA LastIsLargest ==
  ASSUME NEW buffer \in Seq(Display!Sample), Increasing(buffer), NEW i \in 1 .. Len(buffer)
  PROVE  /\ buffer[i] \in Display!Sample /\ buffer[Len(buffer)] \in Display!Sample
         /\ buffer[i].time <= buffer[Len(buffer)].time
         /\ buffer[i].sequence <= buffer[Len(buffer)].sequence
<1>1. Len(buffer) \in 1 .. Len(buffer)
  BY LenProperties
<1>2. buffer[i] \in Display!Sample /\ buffer[Len(buffer)] \in Display!Sample
  BY <1>1, ElementOfSeq
<1>3. i = Len(buffer) \/ i < Len(buffer)
  BY <1>1
<1>4. QED  BY <1>1, <1>2, <1>3, SampleNumbers DEF Increasing

\* What is shown of a buffer is between two of its samples, as late as is wanted.
LEMMA ResolvedIs ==
  ASSUME NEW buffer \in Seq(Display!Sample), buffer # <<>>, Increasing(buffer),
         NEW wanted \in Int
  PROVE  LET d == Display!Resolved(buffer, wanted)
             latest == buffer[Len(buffer)]
         IN  /\ d \in DisplayedInterval /\ Display!Interpolates(d)
             /\ d.time <= latest.time
             /\ wanted <= latest.time => d.time >= wanted
             /\ wanted >= latest.time =>
                  d = [first |-> latest, second |-> latest, time |-> latest.time]
             /\ d.second.sequence <= latest.sequence
<1> DEFINE latest == buffer[Len(buffer)]
           d == Display!Resolved(buffer, wanted)
           start == buffer[1].time
           low == IF latest.time <= wanted THEN latest.time ELSE wanted
           time == IF start >= low THEN start ELSE low
           S == {i \in DOMAIN buffer : i = 1 \/ buffer[i].time <= time}
           left == Display!Max(S)
           n == Len(buffer)
           right == IF left + 1 <= n THEN left + 1 ELSE n
<1>1. n \in Nat /\ n >= 1 /\ DOMAIN buffer = 1 .. n /\ 1 \in 1 .. n /\ n \in 1 .. n
  BY EmptySeq, LenProperties
<1>2. /\ latest \in Display!Sample /\ buffer[1] \in Display!Sample
      /\ start <= latest.time /\ start \in Int /\ latest.time \in Int
      /\ start \in 0 .. MaxTime /\ latest.time \in 0 .. MaxTime
  BY <1>1, LastIsLargest, SampleNumbers
<1>3. /\ time \in Int /\ time >= start /\ time <= latest.time /\ time \in 0 .. MaxTime
      /\ wanted <= latest.time => time >= wanted
  <2> HIDE DEF latest, start
  <2>1. QED  BY <1>2, DisplayNumbers
<1>4. S \subseteq 1 .. n /\ 1 \in S
  BY <1>1
<1>5. left \in S /\ \A j \in S : left >= j
  <2> HIDE DEF S, n
  <2>1. S # {}
    BY <1>4
  <2>2. QED  BY <1>1, <1>4, <2>1, Largest
<1>6. left \in 1 .. n /\ right \in 1 .. n
  <2>1. left \in 1 .. n
    BY <1>4, <1>5
  <2> HIDE DEF left, n
  <2>2. QED  BY <2>1, <1>1
<1>7. d = [first |-> buffer[left], second |-> buffer[right], time |-> time]
  <2> DEFINE resolved(t) ==
        LET l == Display!Max({i \in DOMAIN buffer : i = 1 \/ buffer[i].time <= t})
        IN  [first |-> buffer[l], second |-> buffer[Display!Min({l + 1, Len(buffer)})], time |-> t]
  <2>1. d = resolved(Display!Max({Head(buffer).time,
                                  Display!Min({Display!Last(buffer).time, wanted})}))
    BY Zenon DEF Display!Resolved
  <2>2. Head(buffer).time = start /\ Display!Last(buffer).time = latest.time
    BY <1>1 DEF Display!Last
  <2>3. Display!Min({latest.time, wanted}) = low /\ low \in Int
    <3> HIDE DEF latest
    <3>1. QED  BY <1>2, Larger
  <2>4. Display!Max({start, low}) = time
    <3> HIDE DEF start, low
    <3>1. QED  BY <1>2, <2>3, Larger
  <2>5. d = resolved(time)
    <3> HIDE DEF resolved, d, start, low, latest, time
    <3>1. QED  BY <2>1, <2>2, <2>3, <2>4
  <2>6. Display!Min({left + 1, n}) = right
    <3> HIDE DEF left, n
    <3>1. left + 1 \in Int /\ n \in Int
      BY <1>1, <1>6
    <3> DEFINE next == left + 1
    <3>2. next \in Int
      BY <3>1
    <3> HIDE DEF next
    <3>3. Display!Min({next, n}) = IF next <= n THEN next ELSE n
      BY <3>1, <3>2, Larger
    <3>4. QED  BY <3>3 DEF next
  <2>7. resolved(time) =
          [first |-> buffer[left], second |-> buffer[Display!Min({left + 1, n})], time |-> time]
    <3> HIDE DEF time
    <3>1. QED  BY Zenon
  <2> HIDE DEF resolved, d, left, right, time
  <2>8. QED  BY <2>5, <2>6, <2>7
<1>8. buffer[left] \in Display!Sample /\ buffer[right] \in Display!Sample
      /\ buffer[right].sequence <= latest.sequence
  <2> HIDE DEF left, right
  <2>1. QED  BY <1>6, LastIsLargest
<1>9. buffer[left].time <= time
  <2>1. left = 1 \/ buffer[left].time <= time
    BY <1>5
  <2> HIDE DEF left, time
  <2>2. QED  BY <2>1, <1>3
<1>10. /\ time <= buffer[right].time
       /\ buffer[left] = buffer[right] \/ buffer[left].time < buffer[right].time
  <2>1. CASE left + 1 <= n
    <3>1. right = left + 1 /\ left + 1 \in 1 .. n /\ left < left + 1 /\ ~ (left >= left + 1)
          /\ left + 1 # 1
      <4> HIDE DEF left, n
      <4>1. QED  BY <2>1, <1>1, <1>6
    <3>2. left + 1 \notin S
      <4> HIDE DEF S, left
      <4>1. QED  BY <3>1, <1>5
    <3>3. ~ (buffer[left + 1].time <= time)
      <4> HIDE DEF left, time
      <4>1. QED  BY <3>1, <3>2, <1>1
    <3>4. buffer[left].time < buffer[left + 1].time
      <4> HIDE DEF left
      <4>1. QED  BY <3>1, <1>6 DEF Increasing
    <3>5. buffer[left + 1].time \in Int
      <4> HIDE DEF left, right
      <4>1. QED  BY <3>1, <1>8, SampleNumbers
    <3> HIDE DEF time, right, left
    <3>6. QED  BY <3>1, <3>3, <3>4, <3>5, <1>3
  <2>2. CASE ~ (left + 1 <= n)
    <3>1. right = n /\ left = n
      <4> HIDE DEF left, n
      <4>1. QED  BY <2>2, <1>1, <1>6
    <3> HIDE DEF left, right, time
    <3>2. QED  BY <3>1, <1>3
  <2>3. QED  BY <2>1, <2>2
<1>11. /\ d.first = buffer[left] /\ d.second = buffer[right] /\ d.time = time
       /\ d \in DisplayedInterval
  <2> HIDE DEF left, right, time, d
  <2>1. QED  BY <1>3, <1>7, <1>8 DEF DisplayedInterval
<1>12. Display!Interpolates(d)
  <2> HIDE DEF left, right, time, d
  <2>1. QED  BY <1>9, <1>10, <1>11 DEF Display!Interpolates
<1>14. ASSUME wanted >= latest.time
       PROVE  d = [first |-> latest, second |-> latest, time |-> latest.time]
  <2>1. time = latest.time
    <3> HIDE DEF latest, start
    <3>1. QED  BY <1>2, <1>14
  <2>2. n \in S
    <3>1. buffer[n].time = time /\ time \in Int
      BY <1>2, <2>1
    <3> HIDE DEF time, n
    <3>2. buffer[n].time <= time
      BY <3>1
    <3>3. QED  BY <3>2, <1>1
  <2>3. left = n /\ right = n
    <3>1. left >= n
      BY <1>5, <2>2
    <3> HIDE DEF left, n
    <3>2. left = n
      BY <3>1, <1>1, <1>6
    <3>3. ~ (left + 1 <= n)
      BY <3>2, <1>1
    <3>4. QED  BY <3>2, <3>3
  <2> HIDE DEF left, right, time, d
  <2>4. QED  BY <1>7, <2>1, <2>3
<1> HIDE DEF left, right, time, d, latest
<1>13. d \in DisplayedInterval /\ Display!Interpolates(d) /\ d.time <= latest.time
       /\ (wanted <= latest.time => d.time >= wanted) /\ d.second.sequence <= latest.sequence
  BY <1>3, <1>8, <1>11, <1>12
<1>15. QED  BY <1>13, <1>14 DEF d, latest

\* What a sequence with an interval of another's elements keeps.
LEMMA PartIncreases ==
  ASSUME NEW buffer \in Seq(Display!Sample), Increasing(buffer),
         NEW i \in 1 .. Len(buffer) + 1, NEW j \in 0 .. Len(buffer), i <= j + 1
  PROVE  LET piece == SubSeq(buffer, i, j)
         IN  /\ piece \in Seq(Display!Sample) /\ Len(piece) = j - i + 1 /\ Increasing(piece)
             /\ \A k \in 1 .. Len(piece) : piece[k] = buffer[k + i - 1]
<1> DEFINE piece == SubSeq(buffer, i, j)
<1>1. \A k \in i .. j : buffer[k] \in Display!Sample
  <2>1. \A k \in i .. j : k \in 1 .. Len(buffer)
    BY LenProperties
  <2>2. QED  BY <2>1, ElementOfSeq
<1>2. /\ piece \in Seq(Display!Sample) /\ Len(piece) = IF i <= j THEN j - i + 1 ELSE 0
      /\ \A k \in 1 .. j - i + 1 : piece[k] = buffer[k + i - 1]
  BY <1>1, SubSeqProperties
<1> HIDE DEF piece
<1>3. Len(piece) = j - i + 1
  BY <1>2
<1>4. ASSUME NEW k \in 1 .. Len(piece), NEW l \in 1 .. Len(piece), k < l
      PROVE  piece[k].time < piece[l].time /\ piece[k].sequence < piece[l].sequence
  <2> DEFINE sooner == k + i - 1
             later == l + i - 1
  <2>1. sooner \in 1 .. Len(buffer) /\ later \in 1 .. Len(buffer) /\ sooner < later
    BY <1>3, <1>4, LenProperties
  <2>2. piece[k] = buffer[sooner] /\ piece[l] = buffer[later]
    BY <1>2, <1>3
  <2> HIDE DEF sooner, later
  <2>3. QED  BY <2>1, <2>2 DEF Increasing
<1>5. Increasing(piece)
  BY <1>4 DEF Increasing
<1>6. QED  BY <1>2, <1>3, <1>5 DEF piece

\* A newer sample is appended to a buffer that stays in order and bounded.
LEMMA AppendedIs ==
  ASSUME NEW buffer \in Seq(Display!Sample), Increasing(buffer), Len(buffer) <= MaxSamples,
         NEW y \in Display!Sample,
         buffer # <<>> => /\ buffer[Len(buffer)].sequence < y.sequence
                          /\ buffer[Len(buffer)].time <= y.time
  PROVE  LET new == Display!Appended(buffer, y)
         IN  /\ new \in Seq(Display!Sample) /\ Len(new) <= MaxSamples /\ Increasing(new)
             /\ new # <<>> /\ new[Len(new)] = y
<1> DEFINE n == Len(buffer)
           replaces == buffer # <<>> /\ buffer[n].time = y.time
           kept == IF replaces THEN SubSeq(buffer, 1, n - 1) ELSE buffer
           all == Append(kept, y)
           first == IF 1 >= Len(all) - MaxSamples + 1 THEN 1 ELSE Len(all) - MaxSamples + 1
           new == Display!Appended(buffer, y)
<1>1. n \in Nat /\ (buffer # <<>> => n >= 1) /\ (n >= 1 => buffer # <<>>)
  BY EmptySeq, LenProperties
<1>2. /\ kept \in Seq(Display!Sample) /\ Increasing(kept) /\ Len(kept) <= n /\ Len(kept) \in Nat
      /\ \A i \in 1 .. Len(kept) : kept[i].time < y.time /\ kept[i].sequence < y.sequence
  <2>1. CASE replaces
    <3> DEFINE piece == SubSeq(buffer, 1, n - 1)
    <3>1. 1 \in 1 .. n + 1 /\ n - 1 \in 0 .. n /\ 1 <= (n - 1) + 1 /\ ((n - 1) - 1) + 1 = n - 1
      BY <2>1, <1>1
    <3>2. /\ piece \in Seq(Display!Sample) /\ Len(piece) = n - 1 /\ Increasing(piece)
          /\ \A i \in 1 .. Len(piece) : piece[i] = buffer[i + 1 - 1]
      <4> DEFINE m == n - 1
      <4>1. 1 \in 1 .. n + 1 /\ m \in 0 .. n /\ 1 <= m + 1
        BY <3>1
      <4> HIDE DEF m
      <4>2. LET p == SubSeq(buffer, 1, m)
            IN  /\ p \in Seq(Display!Sample) /\ Len(p) = m - 1 + 1 /\ Increasing(p)
                /\ \A i \in 1 .. Len(p) : p[i] = buffer[i + 1 - 1]
        BY <4>1, PartIncreases
      <4>3. m - 1 + 1 = n - 1
        BY <3>1 DEF m
      <4>4. QED  BY <4>2, <4>3 DEF m
    <3>3. kept = piece
      BY <2>1
    <3> HIDE DEF piece, kept
    <3>4. ASSUME NEW i \in 1 .. Len(piece)
          PROVE  piece[i].time < y.time /\ piece[i].sequence < y.sequence
      <4>1. piece[i] = buffer[i] /\ i \in 1 .. n /\ n \in 1 .. n /\ i < n
        <5>1. i + 1 - 1 = i
          BY <3>2
        <5>2. piece[i] = buffer[i]
          BY <3>2, <5>1
        <5>3. QED  BY <5>2, <3>2, <1>1
      <4>2. buffer[i].time < buffer[n].time /\ buffer[i].sequence < buffer[n].sequence
        BY <4>1 DEF Increasing
      <4>3. buffer[i] \in Display!Sample /\ buffer[n] \in Display!Sample
        BY <4>1, ElementOfSeq
      <4>4. QED  BY <4>1, <4>2, <4>3, <2>1, SampleNumbers
    <3>5. QED  BY <3>2, <3>3, <3>4, <1>1
  <2>2. CASE ~ replaces
    <3>1. kept = buffer
      BY <2>2
    <3>2. ASSUME NEW i \in 1 .. Len(buffer)
          PROVE  buffer[i].time < y.time /\ buffer[i].sequence < y.sequence
      <4>1. buffer # <<>>
        BY <1>1
      <4>2. buffer[n].time # y.time
        BY <4>1, <2>2
      <4>3. /\ buffer[i] \in Display!Sample /\ buffer[n] \in Display!Sample
            /\ buffer[i].time <= buffer[n].time /\ buffer[i].sequence <= buffer[n].sequence
        BY LastIsLargest
      <4>4. QED  BY <4>1, <4>2, <4>3, SampleNumbers
    <3> HIDE DEF kept
    <3>3. QED  BY <3>1, <3>2, <1>1
  <2>3. QED  BY <2>1, <2>2
<1>3. new = SubSeq(all, first, Len(all))
  <2> DEFINE cut(k) == SubSeq(Append(k, y),
                              Display!Max({1, Len(Append(k, y)) - MaxSamples + 1}),
                              Len(Append(k, y)))
  <2>1. new = cut(IF buffer # <<>> /\ Display!Last(buffer).time = y.time
                  THEN Display!Front(buffer) ELSE buffer)
    BY Zenon DEF Display!Appended
  <2>2. Display!Last(buffer) = buffer[n] /\ Display!Front(buffer) = SubSeq(buffer, 1, n - 1)
    BY Zenon DEF Display!Last, Display!Front
  <2>3. new = cut(kept)
    <3> HIDE DEF cut, new
    <3>1. QED  BY <2>1, <2>2
  <2>4. Len(all) \in Int
    <3> HIDE DEF kept
    <3>1. Len(all) = Len(kept) + 1
      BY <1>2, AppendProperties
    <3>2. QED  BY <3>1, <1>2
  <2>5. Display!Max({1, Len(all) - MaxSamples + 1}) = first
    <3> DEFINE l == Len(all) - MaxSamples + 1
    <3>1. l \in Int
      <4> HIDE DEF all
      <4>1. QED  BY <2>4, DisplayNumbers
    <3>2. Display!Max({1, l}) = IF 1 >= l THEN 1 ELSE l
      <4> HIDE DEF l
      <4>1. QED  BY <3>1, Larger
    <3>3. QED  BY <3>2, Zenon
  <2>6. cut(kept) = SubSeq(all, Display!Max({1, Len(all) - MaxSamples + 1}), Len(all))
    BY Zenon
  <2> HIDE DEF cut, all, first, new, kept
  <2>7. QED  BY <2>3, <2>5, <2>6
<1> HIDE DEF kept
<1>4. /\ all \in Seq(Display!Sample) /\ Len(all) = Len(kept) + 1 /\ all[Len(all)] = y
      /\ \A i \in 1 .. Len(kept) : all[i] = kept[i]
  BY <1>2, AppendProperties
<1>5. Increasing(all)
  <2> SUFFICES ASSUME NEW i \in 1 .. Len(all), NEW j \in 1 .. Len(all), i < j
               PROVE  all[i].time < all[j].time /\ all[i].sequence < all[j].sequence
    BY DEF Increasing
  <2> HIDE DEF all
  <2>1. i \in 1 .. Len(kept) /\ (j \in 1 .. Len(kept) \/ j = Len(all))
    BY <1>2, <1>4
  <2>2. QED  BY <2>1, <1>2, <1>4 DEF Increasing
<1>6. /\ first \in 1 .. Len(all) /\ first <= Len(all) + 1 /\ Len(all) \in 0 .. Len(all)
      /\ Len(all) - first + 1 <= MaxSamples /\ Len(all) - first + 1 >= 1
      /\ (Len(all) - first + 1) + first - 1 = Len(all) /\ first \in 1 .. Len(all) + 1
  <2> DEFINE l == Len(all)
  <2>1. l \in Nat /\ l >= 1
    <3> HIDE DEF all
    <3>1. QED  BY <1>2, <1>4
  <2> HIDE DEF l
  <2>2. LET f == IF 1 >= l - MaxSamples + 1 THEN 1 ELSE l - MaxSamples + 1
        IN  /\ f \in 1 .. l /\ f <= l + 1 /\ l \in 0 .. l
            /\ l - f + 1 <= MaxSamples /\ l - f + 1 >= 1
            /\ (l - f + 1) + f - 1 = l /\ f \in 1 .. l + 1
    BY <2>1, DisplayNumbers
  <2>3. QED  BY <2>2 DEF l
<1> HIDE DEF all, first, new
<1>7. /\ new \in Seq(Display!Sample) /\ Len(new) = Len(all) - first + 1 /\ Increasing(new)
      /\ \A k \in 1 .. Len(new) : new[k] = all[k + first - 1]
  <2> DEFINE l == Len(all)
  <2>1. l \in 0 .. Len(all) /\ first <= l + 1
    BY <1>6
  <2> HIDE DEF l
  <2>2. LET p == SubSeq(all, first, l)
        IN  /\ p \in Seq(Display!Sample) /\ Len(p) = l - first + 1 /\ Increasing(p)
            /\ \A k \in 1 .. Len(p) : p[k] = all[k + first - 1]
    BY <2>1, <1>4, <1>5, <1>6, PartIncreases
  <2>3. QED  BY <2>2, <1>3 DEF l
<1>8. Len(new) \in 1 .. Len(new) /\ Len(new) <= MaxSamples
      /\ Len(new) + first - 1 = Len(all)
  BY <1>6, <1>7, LenProperties
<1>9. new # <<>> /\ new[Len(new)] = y
  <2>1. new[Len(new)] = all[Len(new) + first - 1]
    BY <1>7, <1>8
  <2>2. new # <<>>
    BY <1>8, <1>7, EmptySeq
  <2>3. QED  BY <2>1, <2>2, <1>8, <1>4
<1>10. QED  BY <1>7, <1>8, <1>9 DEF new

\* What a step may not do to the display.
DisplayMoves ==
    /\ displayed'.time < displayed.time => Display!Ahead /\ displayed' = Display!Newest'
    /\ Display!Ahead' => displayed' = displayed /\ (Display!Ahead \/ lastState' = NoState)
    /\ paused /\ paused' => displayed' = displayed
    /\ Display!Interpolates(displayed')

LEMMA DisplayInit == Display!Init => DisplayInv
<1> SUFFICES ASSUME NEW first \in Display!Sample,
                    samples = <<first>>,
                    displayed = [first |-> first, second |-> first, time |-> first.time],
                    lastState = first, lastArrival = 0, now = 0, paused = FALSE,
                    disconnected = FALSE
             PROVE  DisplayInv
  BY DEF Display!Init
<1>1. /\ samples \in Seq(Display!Sample) /\ Len(samples) = 1 /\ samples[1] = first
      /\ samples # <<>>
  OBVIOUS
<1>2. Increasing(samples) /\ Len(samples) <= MaxSamples
  BY <1>1, DisplayNumbers DEF Increasing
<1>3. displayed \in DisplayedInterval
  BY SampleNumbers DEF DisplayedInterval
<1>4. Display!Interpolates(displayed) /\ ~ Display!Ahead
  BY SampleNumbers, DisplayNumbers DEF Display!Interpolates, Display!Ahead
<1>5. disconnected \in BOOLEAN /\ paused \in BOOLEAN /\ (disconnected <=> samples = <<>>)
  BY <1>1
<1>6. samples[Len(samples)] = lastState /\ lastState \in Display!Sample
  BY <1>1
<1>7. QED  BY <1>1, <1>2, <1>3, <1>4, <1>5, <1>6 DEF DisplayInv

LEMMA DisplayTypes ==
  ASSUME DisplayInv
  PROVE  /\ displayed.time \in Int /\ displayed.second \in Display!Sample
         /\ displayed.second.sequence \in Int
         /\ lastState \in Display!Sample => lastState.time \in Int /\ lastState.sequence \in Int
         /\ samples # <<>> => lastState \in Display!Sample
<1>1. displayed.time \in 0 .. MaxTime /\ displayed.second \in Display!Sample
  BY DEF DisplayInv, DisplayedInterval
<1>2. ASSUME samples # <<>>  PROVE lastState \in Display!Sample
  <2>1. samples \in Seq(Display!Sample) /\ samples[Len(samples)] = lastState
    BY <1>2 DEF DisplayInv
  <2>2. Len(samples) \in 1 .. Len(samples)
    BY <2>1, <1>2, EmptySeq, LenProperties
  <2>3. QED  BY <2>1, <2>2, ElementOfSeq
<1>3. QED  BY <1>1, <1>2, SampleNumbers

\* The display stands, and what it shows gets ahead of the watermark only when that is
\* lost.
LEMMA DisplayStands ==
  ASSUME DisplayInv, displayed' = displayed,
         \/ lastState' = lastState \/ lastState' = NoState
         \/ lastState' \in Display!Sample /\ Display!Passes(lastState')
  PROVE  /\ DisplayMoves
         /\ displayed' \in DisplayedInterval /\ Display!Interpolates(displayed')
         /\ lastState' # NoState => (Display!Ahead' => Display!Ahead)
<1>1. ASSUME lastState' # NoState, Display!Ahead'  PROVE Display!Ahead
  <2>1. \/ displayed.time > lastState'.time
        \/ displayed.second.sequence > lastState'.sequence
    BY <1>1 DEF Display!Ahead
  <2>2. CASE lastState' = lastState
    BY <2>1, <2>2 DEF Display!Ahead
  <2>3. CASE lastState' \in Display!Sample /\ Display!Passes(lastState') /\ lastState # NoState
    <3>1. lastState \in Display!Sample
      BY <2>3 DEF DisplayInv
    <3>2. lastState.sequence <= lastState'.sequence /\ lastState.time <= lastState'.time
      BY <2>3, <3>1, SampleNumbers DEF Display!Passes, Display!Newer
    <3>3. QED  BY <2>1, <2>3, <3>1, <3>2, DisplayTypes, SampleNumbers DEF Display!Ahead
  <2>4. QED  BY <1>1, <2>2, <2>3 DEF Display!Ahead
<1>2. Display!Interpolates(displayed) /\ displayed \in DisplayedInterval
  BY DEF DisplayInv
<1>3. Display!Interpolates(displayed') /\ ~ (displayed'.time < displayed.time)
  BY <1>2, DisplayTypes
<1>4. QED  BY <1>1, <1>2, <1>3 DEF DisplayMoves

\* What is resolved from a buffer that ends with the watermark is not ahead of it, and
\* goes back only if what was shown is.
LEMMA DisplayResolves ==
  ASSUME DisplayInv, ~ (paused /\ paused'),
         samples' \in Seq(Display!Sample), samples' # <<>>, Increasing(samples'),
         samples'[Len(samples')] = lastState', lastState' \in Display!Sample,
         NEW wanted \in Int, displayed' = Display!Resolved(samples', wanted),
         wanted >= displayed.time \/ wanted >= lastState'.time,
         displayed.time > lastState'.time => Display!Ahead
  PROVE  /\ DisplayMoves /\ ~ Display!Ahead'
         /\ displayed' \in DisplayedInterval /\ Display!Interpolates(displayed')
<1> DEFINE newest == [first |-> lastState', second |-> lastState', time |-> lastState'.time]
<1>1. /\ displayed' \in DisplayedInterval /\ Display!Interpolates(displayed')
      /\ displayed'.time <= lastState'.time
      /\ wanted <= lastState'.time => displayed'.time >= wanted
      /\ wanted >= lastState'.time => displayed' = newest
      /\ displayed'.second.sequence <= lastState'.sequence
  BY ResolvedIs
<1>2. /\ displayed.time \in Int /\ lastState'.time \in Int /\ lastState'.sequence \in Int
      /\ displayed'.time \in Int
  BY <1>1, DisplayTypes, SampleNumbers DEF DisplayedInterval
<1>3. displayed'.second.sequence \in Int
  BY <1>1, SampleNumbers DEF DisplayedInterval
<1>4. ~ Display!Ahead'
  BY <1>1, <1>2, <1>3, DisplayNumbers DEF Display!Ahead
<1>5. ASSUME displayed'.time < displayed.time
      PROVE  Display!Ahead /\ displayed' = Display!Newest'
  <2>1. wanted >= lastState'.time
    BY <1>1, <1>2, <1>5
  <2>2. displayed' = newest
    BY <1>1, <2>1
  <2>3. displayed'.time = lastState'.time
    BY <2>2
  <2>4. displayed.time > lastState'.time
    BY <1>2, <1>5, <2>3
  <2>5. QED  BY <2>2, <2>4 DEF Display!Newest
<1>6. QED  BY <1>1, <1>4, <1>5 DEF DisplayMoves

LEMMA DisplaySteps ==
  ASSUME DisplayInv, Display!Next
  PROVE  DisplayInv' /\ DisplayMoves
<1>1. ASSUME NEW y \in Display!Sample, Display!Arrive(y)
      PROVE  DisplayInv' /\ DisplayMoves
  <2>1. /\ ~ disconnected /\ Display!Newer(y) /\ lastState' = y
        /\ samples' = Display!Appended(samples, y) /\ lastArrival' = now
        /\ UNCHANGED <<displayed, now, paused, disconnected>>
    BY <1>1 DEF Display!Arrive
  <2>2. /\ samples \in Seq(Display!Sample) /\ Increasing(samples) /\ Len(samples) <= MaxSamples
        /\ samples # <<>> /\ samples[Len(samples)] = lastState
    BY <2>1 DEF DisplayInv
  <2>3. /\ samples' \in Seq(Display!Sample) /\ Increasing(samples') /\ Len(samples') <= MaxSamples
        /\ samples' # <<>> /\ samples'[Len(samples')] = y
    BY <2>1, <2>2, AppendedIs, DisplayTypes, SampleNumbers DEF Display!Newer
  <2>4. /\ DisplayMoves
        /\ displayed' \in DisplayedInterval /\ Display!Interpolates(displayed')
        /\ Display!Ahead' => Display!Ahead
    BY <2>1, DisplayStands, DisplayNumbers DEF Display!Passes
  <2>5. Increasing(samples)' /\ Display!Interpolates(displayed)'
    BY <2>3, <2>4 DEF Increasing, Display!Interpolates
  <2>6. QED  BY <2>1, <2>2, <2>3, <2>4, <2>5 DEF DisplayInv
<1>2. ASSUME Display!Disconnect
      PROVE  DisplayInv' /\ DisplayMoves
  <2>1. /\ disconnected' = TRUE /\ samples' = <<>>
        /\ UNCHANGED <<displayed, lastArrival, now, paused, lastState>>
    BY <1>2 DEF Display!Disconnect
  <2>2. /\ DisplayMoves
        /\ displayed' \in DisplayedInterval /\ Display!Interpolates(displayed')
    BY <2>1, DisplayStands
  <2>3. Len(samples') = 0 /\ samples' \in Seq(Display!Sample)
    BY <2>1
  <2>4. Increasing(samples)' /\ Len(samples') <= MaxSamples /\ Display!Interpolates(displayed)'
    BY <2>2, <2>3, DisplayNumbers DEF Increasing, Display!Interpolates
  <2>5. QED  BY <2>1, <2>2, <2>3, <2>4 DEF DisplayInv
<1>3. ASSUME UNCHANGED <<samples, displayed, lastArrival, now, paused, disconnected>>,
             disconnected, lastState' = NoState \/ lastState' \in Display!Sample,
             lastState' # NoState => Display!Passes(lastState')
      PROVE  DisplayInv' /\ DisplayMoves
  <2>1. /\ DisplayMoves
        /\ displayed' \in DisplayedInterval /\ Display!Interpolates(displayed')
    BY <1>3, DisplayStands, DisplayNumbers
  <2>2. samples' = <<>>
    BY <1>3 DEF DisplayInv
  <2>3. Increasing(samples)' /\ Display!Interpolates(displayed)'
    BY <1>3, <2>1 DEF DisplayInv, Increasing, Display!Interpolates
  <2>4. QED  BY <1>3, <2>1, <2>2, <2>3 DEF DisplayInv
<1>4. ASSUME NEW y \in Display!Sample, Display!Reconnect(y)
      PROVE  DisplayInv' /\ DisplayMoves
  <2>1. /\ disconnected /\ Display!Passes(y) /\ lastState' = y
        /\ samples' = Display!Appended(<<>>, y) /\ lastArrival' = now /\ disconnected' = FALSE
        /\ displayed' = IF paused THEN displayed ELSE Display!Resolved(samples', y.time)
        /\ UNCHANGED <<now, paused>>
    BY <1>4 DEF Display!Reconnect
  <2>2. <<>> \in Seq(Display!Sample) /\ Increasing(<<>>) /\ Len(<<>>) <= MaxSamples
    BY DisplayNumbers DEF Increasing
  <2>3. /\ samples' \in Seq(Display!Sample) /\ Increasing(samples') /\ Len(samples') <= MaxSamples
        /\ samples' # <<>> /\ samples'[Len(samples')] = y
    BY <2>1, <2>2, AppendedIs
  <2>4. Increasing(samples)'
    BY <2>3 DEF Increasing
  <2>5. /\ DisplayMoves /\ (Display!Ahead' => paused)
        /\ displayed' \in DisplayedInterval /\ Display!Interpolates(displayed')
    <3>1. CASE paused
      BY <3>1, <2>1, DisplayStands, DisplayNumbers
    <3>2. CASE ~ paused
      <4>1. y.time \in Int /\ y.time >= y.time /\ displayed' = Display!Resolved(samples', y.time)
        BY <2>1, <3>2, SampleNumbers
      <4>2. displayed.time > y.time => Display!Ahead
        <5>1. CASE lastState = NoState
          BY <5>1 DEF Display!Ahead
        <5>2. CASE lastState # NoState
          <6>1. lastState \in Display!Sample
            BY <5>2 DEF DisplayInv
          <6>2. lastState.time <= y.time
            BY <2>1, <5>2, <6>1, SampleNumbers DEF Display!Passes, Display!Newer
          <6>3. QED  BY <6>1, <6>2, DisplayTypes, SampleNumbers DEF Display!Ahead
        <5>3. QED  BY <5>1, <5>2
      <4>3. QED  BY <2>1, <2>3, <3>2, <4>1, <4>2, DisplayResolves
    <3>3. QED  BY <3>1, <3>2
  <2>6. Display!Interpolates(displayed)' /\ now' \in Int /\ lastArrival' \in Int
        /\ paused' \in BOOLEAN /\ paused' = paused
    BY <2>1, <2>5 DEF DisplayInv, Display!Interpolates
  <2>7. /\ lastState' \in Display!Sample \cup {NoState}
        /\ samples' # <<>> /\ samples'[Len(samples')] = lastState'
        /\ disconnected' \in BOOLEAN /\ ~ disconnected'
    BY <2>1, <2>3
  <2>8. DisplayInv'
    BY <2>3, <2>4, <2>5, <2>6, <2>7 DEF DisplayInv
  <2>9. QED  BY <2>5, <2>8
<1>5. ASSUME UNCHANGED <<samples, disconnected, lastState>>,
             displayed' = displayed, now' \in Int, lastArrival' \in Int, paused' \in BOOLEAN,
             paused => paused' \/ disconnected
      PROVE  DisplayInv' /\ DisplayMoves
  <2>1. /\ DisplayMoves /\ Display!Interpolates(displayed')
        /\ displayed' \in DisplayedInterval
    BY <1>5, DisplayStands
  <2>2. Increasing(samples)' /\ Display!Interpolates(displayed)'
    BY <1>5 DEF DisplayInv, Increasing, Display!Interpolates
  <2>3. Display!Ahead' => disconnected' \/ paused'
    BY <1>5 DEF DisplayInv, Display!Ahead
  <2>4. QED  BY <1>5, <2>1, <2>2, <2>3 DEF DisplayInv
<1>6. ASSUME UNCHANGED <<samples, disconnected, lastState, now, lastArrival>>,
             paused' = FALSE, samples # <<>>, NEW wanted \in Int, wanted >= displayed.time,
             displayed' = Display!Resolved(samples, wanted)
      PROVE  DisplayInv' /\ DisplayMoves
  <2>1. samples \in Seq(Display!Sample) /\ Increasing(samples)
        /\ samples[Len(samples)] = lastState /\ lastState \in Display!Sample
    BY <1>6, DisplayTypes DEF DisplayInv
  <2>2. Increasing(samples')
    BY <1>6, <2>1 DEF Increasing
  <2>3. displayed.time > lastState'.time => Display!Ahead
    BY <1>6 DEF Display!Ahead
  <2>4. /\ DisplayMoves /\ ~ Display!Ahead'
        /\ displayed' \in DisplayedInterval /\ Display!Interpolates(displayed')
    BY <1>6, <2>1, <2>2, <2>3, DisplayResolves
  <2>5. Increasing(samples)' /\ Display!Interpolates(displayed)'
    BY <2>2, <2>4 DEF Increasing, Display!Interpolates
  <2>6. QED  BY <1>6, <2>1, <2>4, <2>5 DEF DisplayInv
<1>7. ASSUME Display!Pause
      PROVE  DisplayInv' /\ DisplayMoves
  BY <1>7, <1>5 DEF Display!Pause, DisplayInv
<1>8. ASSUME Display!Tick
      PROVE  DisplayInv' /\ DisplayMoves
  BY <1>8, <1>5 DEF Display!Tick, DisplayInv
<1>9. ASSUME samples # <<>>
      PROVE  /\ Display!Last(samples) = lastState
             /\ lastState.time \in Int /\ displayed.time \in Int
  BY <1>9, DisplayTypes DEF Display!Last, DisplayInv
<1>10. ASSUME Display!Resume
       PROVE  DisplayInv' /\ DisplayMoves
  <2>1. /\ paused' = FALSE
        /\ displayed' = IF samples = <<>> THEN displayed
                        ELSE Display!Resolved(samples,
                               Display!Max({displayed.time, Display!Last(samples).time - Delay}))
        /\ UNCHANGED <<samples, lastArrival, now, disconnected, lastState>>
    BY <1>10, Zenon DEF Display!Resume
  <2>2. CASE samples = <<>>
    BY <2>1, <2>2, <1>5 DEF DisplayInv
  <2>3. CASE samples # <<>>
    <3> DEFINE earlier == lastState.time - Delay
               wanted == Display!Max({displayed.time, earlier})
    <3>1. earlier \in Int
      BY <1>9, <2>3, DisplayNumbers
    <3>2. displayed' = Display!Resolved(samples, wanted)
      BY <2>1, <2>3, <1>9
    <3> HIDE DEF earlier
    <3>3. wanted \in Int /\ wanted >= displayed.time
      BY <3>1, <2>3, <1>9, Larger
    <3> HIDE DEF wanted
    <3>4. QED  BY <2>1, <2>3, <3>2, <3>3, <1>6
  <2>4. QED  BY <2>2, <2>3
<1>11. ASSUME Display!Advance
       PROVE  DisplayInv' /\ DisplayMoves
  <2> DEFINE latest == Display!Last(samples).time
             aimed == latest + (now - lastArrival) - Delay
             target == Display!Min({latest, aimed})
             wanted == Display!Max({displayed.time, target})
  <2>1. /\ ~ paused /\ samples # <<>>
        /\ displayed' = Display!Resolved(samples, wanted)
        /\ UNCHANGED <<samples, lastArrival, now, paused, disconnected, lastState>>
    BY <1>11, Zenon DEF Display!Advance
  <2>2. latest = lastState.time /\ latest \in Int /\ displayed.time \in Int
    BY <2>1, <1>9
  <2>3. now \in Int /\ lastArrival \in Int /\ Delay \in Int
    BY DisplayNumbers DEF DisplayInv
  <2> HIDE DEF latest
  <2>4. aimed \in Int
    BY <2>2, <2>3
  <2> HIDE DEF aimed
  <2>5. target = IF latest <= aimed THEN latest ELSE aimed
    BY <2>2, <2>4, Larger
  <2> HIDE DEF target
  <2>6. wanted \in Int /\ wanted >= displayed.time
    <3>1. target \in Int
      BY <2>2, <2>4, <2>5
    <3>2. wanted = IF displayed.time >= target THEN displayed.time ELSE target
      BY <2>2, <3>1, Larger
    <3>3. QED  BY <2>2, <3>1, <3>2
  <2> HIDE DEF wanted
  <2>7. paused' = FALSE
    BY <2>1 DEF DisplayInv
  <2>8. QED  BY <2>1, <2>6, <2>7, <1>6
<1>12. ASSUME NEW y \in Display!Sample, Display!Accept(y)
       PROVE  DisplayInv' /\ DisplayMoves
  BY <1>12, <1>3 DEF Display!Accept
<1>13. ASSUME Display!AcceptOther
       PROVE  DisplayInv' /\ DisplayMoves
  BY <1>13, <1>3 DEF Display!AcceptOther
<1>14. QED
  BY <1>1, <1>2, <1>4, <1>7, <1>8, <1>10, <1>11, <1>12, <1>13 DEF Display!Next

LEMMA DisplayStep ==
  DisplayInv /\ [Display!Next]_displayVars => DisplayInv' /\ (DisplayMoves \/ UNCHANGED displayVars)
<1>1. ASSUME DisplayInv, UNCHANGED displayVars
      PROVE  DisplayInv'
  BY <1>1 DEF displayVars, DisplayInv, Increasing, Display!Interpolates, Display!Ahead
<1>2. QED  BY <1>1, DisplaySteps

\* The page is driven by nothing else.
LEMMA DisplayIsOnItsOwn ==
  MCSpec => Display!Init /\ [][Display!Next]_displayVars
<1>1. MCInit => Display!Init
  BY DEF MCInit
<1>2. [MCNext]_<<atWork, vars, recordVars, senderVars, receiverVars, reporterVars, displayVars>>
        => [Display!Next]_displayVars
  BY DEF MCNext
<1>3. QED  BY <1>1, <1>2, PTL DEF MCSpec

\* The buffer is in order and ends with the state that came last, and what is shown
\* is between two samples, and ahead of the watermark only where nothing advances it.
THEOREM DisplayInvariance == MCSpec => []DisplayInv
BY DisplayIsOnItsOwn, DisplayInit, DisplayStep, PTL

LEMMA DisplayAlwaysFollows == MCSpec => Display!DisplayFollowsTheWatermark
<1>1. DisplayInv /\ [Display!Next]_displayVars =>
        [/\ displayed'.time < displayed.time => Display!Ahead /\ displayed' = Display!Newest'
         /\ Display!Ahead' => displayed' = displayed /\ (Display!Ahead \/ lastState' = NoState)
         /\ paused /\ paused' => displayed' = displayed
         /\ Display!Interpolates(displayed')]_(Display!vars)
  BY DisplayStep, Zenon DEF DisplayMoves, Display!vars, displayVars
<1>2. QED
  BY <1>1, DisplayIsOnItsOwn, DisplayInvariance, PTL DEF Display!DisplayFollowsTheWatermark

\* A lane of the report never turns back, and the report forgets only the run not
\* heard of for the longest; the display goes back only where the state of another run
\* has wiped its watermark, and then to the newest state.
THEOREM WatermarksAreAlwaysFollowed == MCSpec => StreamFollowsItsWatermarks
BY DisplayAlwaysFollows, LanesAlwaysMove DEF StreamFollowsItsWatermarks
=============================================================================
