------------------------------ MODULE Contract ------------------------------
(***************************************************************************)
(* The checks spector generates from a document: the Go contract tests and *)
(* the shell smoke test (internal/contract), and the plain test file       *)
(* (internal/testgen).  Each is the requests it sends and the verdict it   *)
(* has on an answer.  A credential the document asks for is taken to be in *)
(* the environment; the .http file sends what the Go tests send and judges *)
(* nothing.                                                                *)
(*                                                                         *)
(* A parameter is [in, name, required, schema], already looked up in the   *)
(* document's shared ones.                                                 *)
(***************************************************************************)
EXTENDS Samples

(* A sample value as it stands in a URL. *)
Literal(components, s) ==
    LET v == Sample(components, s, << >>) IN IF v.kind = "null" THEN "1" ELSE v.text
PathValue(components, s) ==
    IF s.type = "string" /\ s.ref = "" /\ s.enum = << >> THEN "1" ELSE Literal(components, s)

ParamsOf(op, in) == {p \in ToSet(op.params) : p.in = in}
Needed(op, in) == {p.name : p \in {q \in ParamsOf(op, in) : q.required}}
(* What stands in a placeholder; one nobody declared stays as it is.       *)
Substituted(path, op, Value(_)) ==
    LET by(seg) == {p \in ParamsOf(op, "path") : IsParam(seg) /\ p.name = Params[seg]}
    IN [i \in DOMAIN path |-> IF by(path[i]) = {} THEN path[i]
                              ELSE Value((CHOOSE p \in by(path[i]) : TRUE).schema)]

Statuses(op) == DOMAIN op.responses \ {0}
SuccessOf(op) == LET good == Statuses(op) \cap 200 .. 299 IN IF good = {} THEN 0 ELSE Min(good)

(* One call per operation, planned once for all three artefacts.           *)
\* variant of Plan, with a slip
PlanOptional(doc, rt) ==
    LET op == doc.paths[rt.path][rt.method] IN
    [method |-> rt.method, query |-> {}, headers |-> Needed(op, "header"),
     path |-> Substituted(rt.path, op, LAMBDA s : PathValue(doc.components, s)),
     statuses |-> Statuses(op), success |-> SuccessOf(op),
     schema |-> IF SuccessOf(op) = 0 THEN << >> ELSE op.responses[SuccessOf(op)].content]
Plan(doc, rt) ==
    LET op == doc.paths[rt.path][rt.method] IN
    [method |-> rt.method, query |-> Needed(op, "query"), headers |-> Needed(op, "header"),
     path |-> Substituted(rt.path, op, LAMBDA s : PathValue(doc.components, s)),
     statuses |-> Statuses(op), success |-> SuccessOf(op),
     schema |-> IF SuccessOf(op) = 0 THEN << >> ELSE op.responses[SuccessOf(op)].content]

(* The one credential the artefacts carry: the first scheme by name.       *)
NoAuth == [auth |-> "none", keys |-> {}]
AuthOf(doc) ==
    LET first == CHOOSE n \in DOMAIN doc.schemes :
                   \A m \in DOMAIN doc.schemes : Rank(SegmentOrder, n) <= Rank(SegmentOrder, m)
        s == doc.schemes[first]
    IN CASE DOMAIN doc.schemes = {} -> NoAuth
         [] s.type = "apiKey" /\ s.in = "header" /\ s.name # "" ->
              [NoAuth EXCEPT !.keys = {<<"header", s.name>>}]
         [] s.type = "apiKey" -> NoAuth
         [] OTHER -> [NoAuth EXCEPT !.auth = IF s.scheme = "basic" THEN "basic" ELSE "bearer"]

Sent(method, path, query, headers, credential) ==
    [method |-> method, path |-> path, query |-> query, headers |-> headers,
     status |-> 0, auth |-> credential.auth, keys |-> credential.keys, origin |-> NoOrigin]

(* The generated Go test: what it sends and when it passes.                *)
GoTestSends(doc, p) == Sent(p.method, p.path, p.query, p.headers, AuthOf(doc))
ExpectShape(doc, p, a) == a.body # NoBody /\ Check(doc.components, p.schema[1], a.body) = {}
GoTestPasses(doc, p, a) ==
    /\ a.status \in p.statuses
    /\ p.schema # << >> /\ a.status = p.success => a.json /\ ExpectShape(doc, p, a)

(* The smoke test leaves the required headers out and looks at the status. *)
SmokeSends(doc, p) == Sent(p.method, p.path, p.query, {}, AuthOf(doc))
SmokePasses(p, a) == a.status \in p.statuses

(* The plain test file knows neither query nor header parameters, and no   *)
(* credential but a bearer token; with no numbered status it takes any.    *)
PlainSends(doc, rt) ==
    LET op == doc.paths[rt.path][rt.method] IN
    Sent(rt.method, Substituted(rt.path, op, LAMBDA s : Literal(doc.components, s)), {}, {},
         [NoAuth EXCEPT !.auth = "bearer"])
PlainPasses(doc, rt, a) ==
    LET allowed == Statuses(doc.paths[rt.path][rt.method])
    IN allowed = {} \/ a.status \in allowed
============================================================================
