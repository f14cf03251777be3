------------------------------- MODULE Merge -------------------------------
(***************************************************************************)
(* What the learner writes down and how documents are merged               *)
(* (internal/proxy/learn.go, Document; merge.go; spector.go,               *)
(* applyManualRoutes).  Documents are those of module Mock.  What counts   *)
(* appear in, titles and descriptions, is left out.                        *)
(***************************************************************************)
EXTENDS Route, Schemas

CONSTANTS IdLike,       \* segments that look like an identifier
          Inferred(_)   \* Samples!InferSchema: the schema of a sample body

NormalisePath(path) == [i \in DOMAIN path |-> IF path[i] \in IdLike THEN "{id}" ELSE path[i]]

(* seen: the learner's map, <<method, path>> -> statuses and sample bodies *)
LearnedOperation(path, o) ==
    [params    |-> SelectSeq(Split(path), IsParam),
     responses |-> [c \in DOMAIN o.statuses |->
                      [content |-> IF c \in DOMAIN o.bodies THEN Opt(Inferred(o.bodies[c]))
                                   ELSE << >>]],
     security  |-> {}, observed |-> FALSE, manual |-> FALSE]

NewDocument(paths) ==
    [paths |-> paths, components |-> << >>, schemes |-> << >>, security |-> {}]

LearnedDocument(seen) ==
    NewDocument([p \in {e[2] : e \in DOMAIN seen} |->
                   [m \in {e[1] : e \in {d \in DOMAIN seen : d[2] = p}} |->
                      LearnedOperation(p, seen[<<m, p>>])]])

(* The operations of a path; none when the document lacks it.              *)
MethodsOf(doc, p) == IF p \in DOMAIN doc.paths THEN doc.paths[p] ELSE << >>
HasOp(doc, p, m)  == m \in DOMAIN MethodsOf(doc, p)

(* An operation base has gains the status codes it lacks; one it lacks is  *)
(* added and marked.                                                       *)
Joined(ours, theirs) ==
    [c \in DOMAIN ours \cup DOMAIN theirs |-> IF c \in DOMAIN ours THEN ours[c] ELSE theirs[c]]
\* variant of Enriched, with a slip
Overwritten(op, extra) == [op EXCEPT !.responses = Joined(extra.responses, @)]
\* variant of Enriched, with a slip
Unenriched(op, extra) == op
Enriched(op, extra) == [op EXCEPT !.responses = Joined(@, extra.responses)]

Marked(op, mark) == [op EXCEPT ![mark] = TRUE]

MergedPaths(base, extra, mark) ==
    LET both(p) == DOMAIN MethodsOf(base, p) \cup DOMAIN MethodsOf(extra, p)
        merged(p, m) ==
          CASE ~ HasOp(base, p, m)  -> Marked(extra.paths[p][m], mark)
            [] ~ HasOp(extra, p, m) -> base.paths[p][m]
            [] OTHER -> Enriched(base.paths[p][m], extra.paths[p][m])
    IN [p \in DOMAIN base.paths \cup DOMAIN extra.paths |-> [m \in both(p) |-> merged(p, m)]]
MergeInto(base, extra, mark) == [base EXCEPT !.paths = MergedPaths(base, extra, mark)]

MergeObserved(base, extra) == MergeInto(base, extra, "observed")
MergeManual(base, extra)   == MergeInto(base, extra, "manual")

(* Routes declared by hand, [path, method, codes]; of two for one          *)
(* operation the later one counts.                                         *)
ManualDocument(routes) ==
    LET last(p, m) == CHOOSE i \in DOMAIN routes :
            /\ routes[i].path = p /\ routes[i].method = m
            /\ \A j \in DOMAIN routes :
                 routes[j].path = p /\ routes[j].method = m => j <= i
        codes(r) == IF r.codes = {} THEN {200} ELSE r.codes
        op(r) == [params |-> << >>, responses |-> [c \in codes(r) |-> [content |-> << >>]],
                  security |-> {}, observed |-> FALSE, manual |-> FALSE]
    IN NewDocument([p \in {r.path : r \in ToSet(routes)} |->
                      [m \in {r.method : r \in {q \in ToSet(routes) : q.path = p}} |->
                         op(routes[last(p, m)])]])

ApplyManualRoutes(doc, routes) ==
    IF routes = << >> THEN doc ELSE MergeManual(doc, ManualDocument(routes))
============================================================================
