-------------------------------- MODULE Lint --------------------------------
(***************************************************************************)
(* The routing mistakes a scan can name (internal/lint): a route never     *)
(* reached because another one, registered earlier, answers for it, and a  *)
(* registration that is in no document.  A finding is [kind, at, by].      *)
(* Handlers nobody registers are left out.                                 *)
(***************************************************************************)
EXTENDS Build

FromDiagnostics(diags) == {[kind |-> "unresolved-route", at |-> s, by |-> s] : s \in diags}
Duplicates(routes) ==
  LET first(i) == Min({j \in DOMAIN routes : Key(routes[j]) = Key(routes[i])})
  IN  {[kind |-> "duplicate-route", at |-> routes[i].at, by |-> routes[first(i)].at] :
         i \in {j \in DOMAIN routes : first(j) # j}}
HasParam(path) == PathParams(path) # {}
\* A variant of Covers: any two paths of a length.
CoversAnything(pattern, literal) == Len(pattern) = Len(literal) /\ HasParam(pattern)
Covers(pattern, literal) ==
  /\ Len(pattern) = Len(literal) /\ HasParam(pattern)
  /\ \A i \in DOMAIN pattern : pattern[i][1] = "par" \/ pattern[i] = literal[i]
Shadowed(routes) ==
  {[kind |-> "shadowed-route", at |-> routes[ij[2]].at, by |-> routes[ij[1]].at] :
     ij \in {x \in (DOMAIN routes) \X (DOMAIN routes) :
               /\ x[1] < x[2] /\ routes[x[1]].verb = routes[x[2]].verb
               /\ ~HasParam(routes[x[2]].path) /\ Covers(routes[x[1]].path, routes[x[2]].path)}}
AnalyzeWith(routes, diags) == FromDiagnostics(diags) \union Duplicates(routes) \union Shadowed(routes)
LintAll(found) == AnalyzeWith(found.routes, found.diags)
=============================================================================
