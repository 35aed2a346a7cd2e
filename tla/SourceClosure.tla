---------------------------- MODULE SourceClosure ----------------------------
(***************************************************************************)
(* calculate_required_drake_source_closure.py: which files of the external *)
(* library the product needs.  A ledger says of every file whether it is   *)
(* admitted (vendor), forbidden, or left out for some reason.  From the    *)
(* admitted files of the candidate directories the walk follows includes,  *)
(* and from a header also to the units that implement it, and reports what *)
(* contradicts the ledger.                                                 *)
(*                                                                         *)
(* An include names its file; an implementation only happens to exist.  A  *)
(* file that was left out may be reached by the second and not by the      *)
(* first, so a file reached by the second may have to be looked at again.  *)
(* The walk is depth first, over a stack.  How files are found and lines   *)
(* are parsed is left out: a ledger is a sequence of what its lines say, a *)
(* tree is what its files include and which units implement which header.  *)
(***************************************************************************)
EXTENDS Naturals, Sequences, SequencesExt

CONSTANTS
  File,      \* paths below the source root
  Candidate, \* the headers and units of the candidate directories
  Ledgers,   \* the ledgers: sequences of [directive, path, reason]
  Trees      \* the source trees: [present, includes, units, opaque]

Dispositions == {"vendor", "first_party", "reference_only", "discard", "forbidden"}
Directive == Dispositions \cup {"forbidden_prefix", "generated_header", "file_license"}

ClosureAssumption ==
  /\ Candidate \subseteq File
  /\ \A l \in Ledgers : l \in Seq([directive : Directive, path : File, reason : BOOLEAN])
  /\ \A t \in Trees :
       /\ Candidate \subseteq t.present /\ t.present \subseteq File
       /\ t.opaque \subseteq File      \* with an include whose operand is no path
       /\ \A f \in File : {t.includes[f], t.units[f]} \subseteq Seq(File)

VARIABLES
  ledger, tree,  \* the input
  line,          \* the line of the ledger parse_ledger reads next
  dispositions,  \* path -> what it is classified as
  pending,       \* the stack of <<path, arrived_by_include>>
  reached,       \* the domain of reached
  named,         \* those of them for which reached_by_include holds
  violations,    \* sequence of [kind, path]
  missing,       \* missing_from_source
  exit           \* what main finds: 0, 1 and 2 are "passed", "violated", "unusable"

input == <<ledger, tree>>
walk == <<pending, reached, named, violations, missing>>
vars == <<input, line, dispositions, walk, exit>>

Init ==
  /\ ledger \in Ledgers /\ tree \in Trees
  /\ line = 1 /\ dispositions = [f \in {} |-> "none"]
  /\ pending = <<>> /\ reached = {} /\ named = {}
  /\ violations = <<>> /\ missing = <<>>
  /\ exit = "running"

(***************************************************************************)
(* The ledger                                                              *)
(***************************************************************************)

Says(directive) == {ledger[i].path : i \in {j \in DOMAIN ledger : ledger[j].directive = directive}}

Disposition(f) == IF f \in DOMAIN dispositions THEN dispositions[f] ELSE "none"

Reading == exit = "running" /\ line <= Len(ledger)

\* main prints what it could not use, and gives up.
Unusable == exit' = "unusable" /\ UNCHANGED <<input, line, dispositions, walk>>

\* A line classifies a file; it may say again what an earlier line said.
Classify ==
  /\ Reading
  /\ LET l == ledger[line]
     IN  /\ l.directive \in Dispositions => Disposition(l.path) \in {"none", l.directive}
         /\ dispositions' = IF l.directive \in Dispositions
                            THEN [f \in DOMAIN dispositions \cup {l.path} |->
                                    IF f = l.path THEN l.directive ELSE dispositions[f]]
                            ELSE dispositions
  /\ line' = line + 1
  /\ UNCHANGED <<input, walk, exit>>

\* A line contradicts an earlier one.
Contradict ==
  /\ Reading
  /\ ledger[line].directive \in Dispositions
  /\ Disposition(ledger[line].path) \notin {"none", ledger[line].directive}
  /\ Unusable

\* The reason a line gives is kept for its path, the last one that is given; a
\* decision without a reason is refused, and so is the licence of a file that is
\* not taken.
Explained ==
  /\ \A i \in DOMAIN ledger :
       /\ ledger[i].directive \in Dispositions \cup {"forbidden_prefix"}
       /\ \A j \in DOMAIN ledger :
            j > i => [ledger[j] EXCEPT !.reason = TRUE] # [ledger[i] EXCEPT !.reason = TRUE]
       => ledger[i].reason
  /\ \A f \in Says("file_license") : Disposition(f) = "vendor"

\* admitted_roots: the admitted files of the candidate directories.
Roots == {f \in Candidate : Disposition(f) = "vendor"}

Ready == exit = "running" /\ line = Len(ledger) + 1

\* Every candidate is classified, and one of them is admitted.
Usable == Explained /\ Roots # {} /\ \A f \in Candidate : Disposition(f) # "none"

RefuseLedger == Ready /\ ~Usable /\ Unusable

\* The stack at first: the roots in the order of their names.
Begin ==
  /\ Ready /\ Usable
  /\ pending' = [i \in 1..Len(SetToSeq(Roots)) |-> <<SetToSeq(Roots)[i], TRUE>>]
  /\ line' = line + 1
  /\ UNCHANGED <<input, dispositions, reached, named, violations, missing, exit>>

(***************************************************************************)
(* The walk                                                                *)
(***************************************************************************)

Barred(f) == f \in Says("forbidden_prefix") \/ Disposition(f) = "forbidden"
Undecided(f) == ~Barred(f) /\ Disposition(f) = "none"
Declined(f) == ~Barred(f) /\ Disposition(f) \notin {"none", "vendor"}
Taken(f) == ~Barred(f) /\ Disposition(f) = "vendor"

\* A header the build generates is expected to be absent.
Unclassified(f) == Undecided(f) /\ (f \in Says("generated_header") => f \in tree.present)

\* A slip Known does not make: whatever was reached needs no second look.
KnownAtAll(f, byInclude) == f \in reached

\* Nothing new is learnt of f.
Known(f, byInclude) == f \in reached /\ (f \in named \/ ~byInclude)

\* What is wrong with f that was not reported before.
Wrong(f, byInclude) ==
  IF f \notin reached /\ Barred(f) THEN <<[kind |-> "forbidden", path |-> f]>>
  ELSE IF f \notin reached /\ Unclassified(f) THEN <<[kind |-> "unclassified", path |-> f]>>
  ELSE IF byInclude /\ f \notin named /\ Declined(f)
    THEN <<[kind |-> "unmet_dependency", path |-> f]>>
  ELSE <<>>

\* The admitted file f is walked into, the first time it is reached.
Enters(f) == f \notin reached /\ Taken(f) /\ f \in tree.present

Edges(fs, byInclude) == [i \in 1..Len(fs) |-> <<fs[i], byInclude>>]

\* Those of fs that are not known yet, in their order.
New(fs, known) ==
  LET upto[n \in 0..Len(fs)] ==
        IF n = 0 THEN <<>>
        ELSE IF fs[n] \in known THEN upto[n - 1] ELSE Append(upto[n - 1], fs[n])
  IN  upto[Len(fs)]

\* The includes that may say something new, then a header's units.
Onward(f, byInclude) ==
  LET seen == reached \cup {f}
      known == named \cup (IF byInclude THEN {f} ELSE {})
  IN  Edges(New(tree.includes[f], known), TRUE) \o Edges(New(tree.units[f], seen), FALSE)

Walking == exit = "running" /\ pending # <<>>

Skip ==
  /\ Walking
  /\ Known(Last(pending)[1], Last(pending)[2])
  /\ pending' = Front(pending)
  /\ UNCHANGED <<input, line, dispositions, reached, named, violations, missing, exit>>

\* The next file is reached, or reached by an include at last.
Visit ==
  /\ Walking
  /\ LET f == Last(pending)[1] byInclude == Last(pending)[2]
     IN  /\ ~Known(f, byInclude)
         /\ Enters(f) => f \notin tree.opaque
         /\ reached' = reached \cup {f}
         /\ named' = named \cup (IF byInclude THEN {f} ELSE {})
         /\ violations' = violations \o Wrong(f, byInclude)
         /\ missing' = IF f \notin reached /\ Taken(f) /\ f \notin tree.present
                       THEN Append(missing, f) ELSE missing
         /\ pending' = Front(pending) \o (IF Enters(f) THEN Onward(f, byInclude) ELSE <<>>)
  /\ UNCHANGED <<input, line, dispositions, exit>>

\* read_drake_includes meets an operand it does not follow.
Stumble ==
  /\ Walking
  /\ ~Known(Last(pending)[1], Last(pending)[2])
  /\ Enters(Last(pending)[1]) /\ Last(pending)[1] \in tree.opaque
  /\ Unusable

\* The admitted files nothing needs.
Unreached == {f \in DOMAIN dispositions : dispositions[f] = "vendor"} \ reached

Report ==
  /\ exit = "running" /\ line > Len(ledger) + 1 /\ pending = <<>>
  /\ exit' = IF violations # <<>> \/ missing # <<>> \/ Unreached # {} THEN "violated" ELSE "passed"
  /\ UNCHANGED <<input, line, dispositions, walk>>

Next == Classify \/ Contradict \/ RefuseLedger \/ Begin \/ Skip \/ Visit \/ Stumble \/ Report

Spec == Init /\ [][Next]_vars
-----------------------------------------------------------------------------
\* Where the edges of the files of S that are walked into lead.
Led(S, edges) == UNION {ToSet(edges[f]) : f \in {g \in S : Taken(g) /\ g \in tree.present}}

Closed(S) == Roots \cup Led(S, tree.includes) \cup Led(S, tree.units) \subseteq S

Reports(kind, S) == {[kind |-> kind, path |-> f] : f \in S}

\* The verdict is one of the ledger and the tree alone, whatever the order the
\* files were met in: the files reached are the least set closed under the edges,
\* those reached by an include are the ones an admitted file names, every
\* contradiction is reported, none twice, and it passes only without any.
\* (compute_closure and the end of main.)
VerdictIsOfTheTree ==
  exit \in {"passed", "violated"} =>
    /\ Closed(reached)
    /\ \A S \in SUBSET reached : Closed(S) => S = reached
    /\ named = Roots \cup Led(reached, tree.includes)
    /\ IsInjective(violations) /\ IsInjective(missing)
    /\ ToSet(violations) = Reports("forbidden", {f \in reached : Barred(f)}) \cup
                           Reports("unclassified", {f \in reached : Unclassified(f)}) \cup
                           Reports("unmet_dependency", {f \in named : Declined(f)})
    /\ ToSet(missing) = {f \in reached : Taken(f)} \ tree.present
    /\ exit = "passed" <=>
         /\ reached \subseteq {f \in File : Taken(f)} \cup {f \in File : Declined(f)} \cup
                              (Says("generated_header") \ tree.present)
         /\ {f \in File : Disposition(f) = "vendor"} \subseteq reached \cap tree.present
         /\ ~ \E f \in named : Declined(f)
         /\ ~ \E f \in reached : Barred(f)
=============================================================================
