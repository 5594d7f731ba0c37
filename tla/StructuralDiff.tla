----------------------------- MODULE StructuralDiff -----------------------------
(***************************************************************************)
(* The structural comparison of the self-healing documentation pipeline    *)
(* (self_healing_docs/structural.py and discover_source_deltas): the       *)
(* changed source files of two commits, as sets of structural changes.     *)
(*                                                                         *)
(* A file's snapshot is the sequence of its declarations in the order of   *)
(* the parser's walk, a declaration a record of its kind, its qualified    *)
(* name, its contract (signature, annotation, default, decorators, route   *)
(* arguments, Compose keys: what the unit's representation is made of),    *)
(* whether it is public (no leading underscore, upper case, exported, as a *)
(* Go field and its struct both are and the interface of a method is) and  *)
(* whether something else makes it count (a route decorator, __init__,     *)
(* main, a field's annotation); a Go route also has the callee it is       *)
(* registered with.  Bodies, comments, layout and the values of Compose    *)
(* variables are in none of them.                                          *)
(***************************************************************************)
EXTENDS Naturals, Sequences, FiniteSets

\* A snapshot of a file that is not in the commit, and one that does not parse
\* or is not UTF-8.
NoFile == <<>>
Malformed == <<[kind |-> "malformed"]>>

NoUnit == [kind |-> "none", name |-> "none", contract |-> "none"]

BoundedKinds ==
  {"compose_service", "go_field", "go_function", "go_interface_method", "go_route",
   "python_constant", "python_field", "python_function", "python_service"}

\* discover_source_deltas: the files a parser exists for, tests and generated
\* code left out.
SourceDeltas(files) ==
  {f \in files : f.language \in {"python", "go", "compose"} /\ ~f.excluded}

\* _extract_python_scope, _go_route_unit, _compose: classes, application objects,
\* routes and services count whatever their name is, the rest only when public or
\* made to count.
AlwaysObserved == {"python_class", "python_service", "go_route", "compose_service"}

Observed(decls) ==
  {i \in 1..Len(decls) : \/ decls[i].kind \in AlwaysObserved
                         \/ decls[i].public
                         \/ decls[i].special}

\* Routes are numbered over the file, whatever they are registered on, and go by
\* that number and their callee; everything else goes by its name.
RouteIndex(decls, i) ==
  Cardinality({j \in 1..(i - 1) : decls[j].kind = "go_route"})

Identity(decls, i) ==
  IF decls[i].kind = "go_route" THEN <<"go_route", decls[i].callee, RouteIndex(decls, i)>>
  ELSE <<decls[i].kind, decls[i].name>>

\* Of two declarations with one identity the Go extractor keeps the first, the
\* others the last.
Representative(language, decls, id) ==
  LET same == {i \in Observed(decls) : Identity(decls, i) = id}
  IN  IF language = "go" THEN CHOOSE i \in same : \A j \in same : i <= j
      ELSE CHOOSE i \in same : \A j \in same : j <= i

\* extract_units
Units(language, decls) ==
  [id \in {Identity(decls, i) : i \in Observed(decls)} |->
     decls[Representative(language, decls, id)]]

UnitAt(units, id) == IF id \in DOMAIN units THEN units[id] ELSE NoUnit

Representation(unit) == <<unit.kind, unit.name, unit.contract>>

ChangeType(before, after) ==
  IF before = NoUnit THEN "added" ELSE IF after = NoUnit THEN "removed" ELSE "modified"

\* The units of every other kind are the ones that are not bounded.
AutoFixEligible(before, after) ==
  /\ ChangeType(before, after) = "modified"
  /\ after.kind \in BoundedKinds

\* _diff_units
DiffUnits(path, old, new) ==
  LET change(id) ==
        LET before == UnitAt(old, id)
            after == UnitAt(new, id)
        IN  [path |-> path, identity |-> id, before |-> before, after |-> after,
             eligible |-> AutoFixEligible(before, after)]
  IN  {change(id) : id \in {i \in DOMAIN old \cup DOMAIN new :
                             Representation(UnitAt(old, i)) # Representation(UnitAt(new, i))}}

ParseFails(files) ==
  \E f \in SourceDeltas(files) : f.old = Malformed \/ f.new = Malformed

\* extract_structural_changes
StructuralChanges(files) ==
  UNION {DiffUnits(f.path, Units(f.language, f.old), Units(f.language, f.new)) :
           f \in SourceDeltas(files)}
================================================================================
