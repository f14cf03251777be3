------------------------------- MODULE Route -------------------------------
(***************************************************************************)
(* Which documented operation a request belongs to (internal/route).  The  *)
(* mock and the proxy both ask this module.                                *)
(*                                                                         *)
(* A path is the sequence of what stands between its slashes, so that      *)
(* /users/ is <<"users", "">>; its text is only compared by byte order,    *)
(* which SegmentOrder gives segment by segment: where two templates of one *)
(* request first differ, a placeholder stands in one of them (or nothing   *)
(* between two slashes), and what stands in the other settles the order of *)
(* the texts.  A method is one name: the code folds case everywhere it     *)
(* compares one.                                                           *)
(***************************************************************************)
EXTENDS Naturals, Sequences, SequencesExt, FiniteSets

CONSTANTS Params,        \* placeholder segment -> the name inside its braces
          SegmentOrder,  \* segments in byte order
          MethodOrder    \* methods in byte order

ASSUME RouteAssumption ==
    /\ SegmentOrder \in Seq(ToSet(SegmentOrder)) /\ IsInjective(SegmentOrder)
    /\ MethodOrder \in Seq(ToSet(MethodOrder)) /\ IsInjective(MethodOrder)
    /\ DOMAIN Params \subseteq ToSet(SegmentOrder)
    /\ "" \notin ToSet(SegmentOrder)

(* What may stand between two slashes, and the paths of a document.        *)
Segment == ToSet(SegmentOrder) \cup {""}
Table(paths) == IsFiniteSet(DOMAIN paths) /\ DOMAIN paths \subseteq Seq(Segment)

(* The members of S as sort.Slice leaves them, R saying which goes before  *)
(* which: a member's place is one more than the number ahead of it.        *)
Ahead(S, R, x) == {y \in S : <<y, x>> \in R}
InOrder(S, R) ==
    [k \in 1 .. Cardinality(S) |-> CHOOSE x \in S : Cardinality(Ahead(S, R, x)) = k - 1]

(* The non-empty segments: a trailing or doubled slash means nothing. *)
Kept(path) == {i \in DOMAIN path : path[i] # ""}
Place(kept, k) == CHOOSE i \in kept : Cardinality(kept \cap (1 .. i)) = k
Split(path) ==
    LET kept == Kept(path)
    IN IF kept = DOMAIN path
       THEN path
       ELSE [k \in 1 .. Cardinality(kept) |-> path[Place(kept, k)]]

IsParam(seg) == seg \in DOMAIN Params
ParamCount(segs) == Cardinality({i \in DOMAIN segs : IsParam(segs[i])})

Rank(order, x) == IF x \in ToSet(order) THEN CHOOSE i \in DOMAIN order : order[i] = x ELSE 0

(* p < q as strings. *)
PathBefore(p, q) ==
    \E i \in 1 .. Len(q) :
        /\ \A j \in 1 .. i - 1 : j <= Len(p) /\ p[j] = q[j]
        /\ i > Len(p) \/ Rank(SegmentOrder, p[i]) < Rank(SegmentOrder, q[i])

(* The order of the table: shorter first, then fewer placeholders, then a  *)
(* total order so that ties do not depend on a map's iteration.            *)
Shape(rt) == LET segs == Split(rt.path) IN <<Len(segs), ParamCount(segs)>>
\* variant of Before, with a slip
BeforeMostParams(a, b) ==
    LET s == Shape(a) t == Shape(b) IN
    \/ s[1] < t[1]
    \/ s[1] = t[1] /\ s[2] > t[2]
    \/ s = t /\ PathBefore(a.path, b.path)
    \/ a.path = b.path /\ Rank(MethodOrder, a.method) < Rank(MethodOrder, b.method)
Before(a, b) ==
    LET s == Shape(a) t == Shape(b) IN
    \/ s[1] < t[1]
    \/ s[1] = t[1] /\ s[2] < t[2]
    \/ s = t /\ PathBefore(a.path, b.path)
    \/ a.path = b.path /\ Rank(MethodOrder, a.method) < Rank(MethodOrder, b.method)

RoutesOf(paths) == {[path |-> p, method |-> m] : p \in DOMAIN paths, m \in ToSet(MethodOrder)}
Documents(paths, rt) == rt.method \in DOMAIN paths[rt.path]
Compile(paths) ==
    LET all == {rt \in RoutesOf(paths) : Documents(paths, rt)}
    IN InOrder(all, {r \in all \X all : Before(r[1], r[2])})

Fits(rt, method, path) ==
    LET segs == Split(rt.path) got == Split(path) IN
    /\ rt.method = method
    /\ Len(segs) = Len(got)
    /\ \A i \in DOMAIN segs : IsParam(segs[i]) \/ segs[i] = got[i]

(* The values a fitting route gives its placeholders; of two placeholders  *)
(* with one name the last one counts.                                      *)
Vals(rt, path) ==
    LET segs == Split(rt.path) got == Split(path)
        at(name) == {i \in DOMAIN segs : IsParam(segs[i]) /\ Params[segs[i]] = name}
        last(name) == CHOOSE i \in at(name) : \A j \in at(name) : j <= i
    IN [name \in {Params[segs[i]] : i \in {k \in DOMAIN segs : IsParam(segs[k])}} |->
            got[last(name)]]

(* The first route of the table that fits: <<>> or <<route>>. *)
Match(routes, method, path) ==
    LET fit == {i \in DOMAIN routes : Fits(routes[i], method, path)}
    IN IF fit = {} THEN << >> ELSE <<routes[Min(fit)]>>
----------------------------------------------------------------------------
(* A more specific template: a literal where the other has a placeholder,  *)
(* and a placeholder nowhere the other has a literal.                      *)
MoreSpecific(p, q) ==
    LET s == Split(p) t == Split(q) IN
    /\ Len(s) = Len(t) /\ s # t
    /\ \A i \in DOMAIN s : IsParam(s[i]) => IsParam(t[i])
    /\ \E i \in DOMAIN s : IsParam(t[i]) /\ ~ IsParam(s[i])

(* A request meets one documented operation of a table exactly when some   *)
(* operation fits it, and none that fits is more specific.                 *)
MostSpecific(paths, routes, method, path) ==
    LET rt  == Match(routes, method, path)
        fit == {r \in RoutesOf(paths) : Documents(paths, r) /\ Fits(r, method, path)}
    IN /\ rt # << >> <=> fit # {}
       /\ rt # << >> => rt[1] \in fit /\ \A r \in fit : ~ MoreSpecific(r.path, rt[1].path)
============================================================================
