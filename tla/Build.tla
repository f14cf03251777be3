------------------------------- MODULE Build -------------------------------
(***************************************************************************)
(* From the routes a scan found to the document (internal/gen, and the     *)
(* passes spector.go makes over the result): an operationId per route, the *)
(* parameters of the path, the handler and the guards, the answers of      *)
(* both, the schemas they name and the schemes they ask for.  A name is a  *)
(* sequence of words, the first in lower case.                             *)
(***************************************************************************)
EXTENDS Adapters, Handlers

CONSTANT Folded  \* header -> the path or query parameter that has its name, but for case

Key(r) == <<r.path, r.verb>>
TypeSuffixes == {"Handler", "Controller", "Resource", "Service", "API"}
SanitizeSegment(seg) ==
  IF seg[1] = "par" THEN <<"By">> \o WordsOf(seg[2]) ELSE WordsOf(seg[2])
PathOperationID(r) ==
  <<r.verb>> \o FlattenSeq([i \in 1 .. Len(r.path) |-> <<"_">> \o SanitizeSegment(r.path[i])])
TypeOperationID(r) ==
  LET t == WordsOf(r.does.type)
  IN  IF "" \in {r.does.type, r.does.name} THEN <<>>
      ELSE (IF Len(t) > 1 /\ Last(t) \in TypeSuffixes THEN Front(t) ELSE t) \o WordsOf(r.does.name)
OperationID(r) == IF r.does.name # "" THEN WordsOf(r.does.name) ELSE PathOperationID(r)
\* A variant of OperationIDs: the first claimant keeps the name.
FirstKeepsID(routes) ==
  [i \in DOMAIN routes |->
     IF \E j \in DOMAIN routes : j < i /\ OperationID(routes[j]) = OperationID(routes[i])
     THEN TypeOperationID(routes[i]) ELSE OperationID(routes[i])]
\* A contested name is given up by every route that claimed it.
OperationIDs(routes) ==
  LET claimed(id) == Cardinality({i \in DOMAIN routes : OperationID(routes[i]) = id})
      contested(r) == claimed(OperationID(r)) > 1
      qualified(id) == Cardinality({i \in DOMAIN routes :
                                      contested(routes[i]) /\ TypeOperationID(routes[i]) = id})
      byType(r) == /\ TypeOperationID(r) # <<>> /\ qualified(TypeOperationID(r)) = 1
                   /\ claimed(TypeOperationID(r)) = 0
  IN  [i \in DOMAIN routes |->
         LET r == routes[i]
         IN  IF ~contested(r) THEN OperationID(r)
             ELSE IF byType(r) THEN TypeOperationID(r) ELSE PathOperationID(r)]

(***************************************************************************)
(* Schemas: what the operations name and what those refer to.  A type the  *)
(* scan never saw is an object without members.                            *)
(***************************************************************************)
Has(schemas, typ) == typ.n \in DOMAIN schemas
RECURSIVE Reference(_, _)
Reference(schemas, used) ==
  LET more == used \union ((UNION {Range(schemas[t]) : t \in used}) \intersect DOMAIN schemas)
  IN  IF more = used THEN used ELSE Reference(schemas, more)
PruneDanglingRefs(schemas, used) == [t \in used |-> Range(schemas[t]) \intersect used]

(***************************************************************************)
(* One operation.  A parameter is <<in, name>>, with the type if it is a   *)
(* query's; one the guards share is <<"ref", key>>.                        *)
(***************************************************************************)
PathParams(path) == {path[i][2] : i \in {j \in DOMAIN path : path[j][1] = "par"}}
SecurityFor(r) == Schemes(r.mw)
\* A header's key in components: its words without the hyphens.
ParameterKey(header) == FoldLeft(LAMBDA acc, word : acc \o word, "", header)
Body(schemas, typ) == IF Has(schemas, typ) THEN Plain(typ) ELSE NoType
ResponsesOf(schemas, r) ==
  LET said == r.does.responses
  IN  IF DOMAIN said = {} THEN 200 :> NoType ELSE [s \in DOMAIN said |-> Body(schemas, said[s])]
QueryType(r, name) == IF name \in DOMAIN r.does.queryTypes THEN r.does.queryTypes[name] ELSE "string"
\* The headers of the guards that become parameters: not those whose name
\* the handler's own parameter has, wherever it is sent.
Demanded(r) ==
  LET named(h) == h \in DOMAIN Folded /\ Folded[h] \in PathParams(r.path) \union r.does.query
  IN  {h \in UNION {Describe(r.mw[i]).headers : i \in DOMAIN r.mw} : h \notin r.does.headers /\ ~named(h)}
\* The handler's own account of a header or a status stands.
Operation(schemas, r, id) ==
  LET own == {<<"path", n>> : n \in PathParams(r.path)} \union {<<"header", h>> : h \in r.does.headers}
             \union {<<"query", n, QueryType(r, n)>> : n \in r.does.query}
      refusals == (UNION {Describe(r.mw[i]).statuses : i \in DOMAIN r.mw}) \ DOMAIN ResponsesOf(schemas, r)
  IN  [id |-> id, security |-> SecurityFor(r), middleware |-> ToSet(r.mw),
       params |-> own \union {<<"ref", ParameterKey(h)>> : h \in Demanded(r)},
       request |-> Body(schemas, r.does.request),
       responses |-> ResponsesOf(schemas, r) @@ [s \in refusals |-> NoType]]
SharedHeaders(routes) ==
  LET headers == UNION {Demanded(routes[i]) : i \in DOMAIN routes}
  IN  [k \in {ParameterKey(h) : h \in headers} |-> CHOOSE h \in headers : ParameterKey(h) = k]
Build(schemas, routes) ==
  LET ids == OperationIDs(routes)
      add(ops, i) == (Key(routes[i]) :> Operation(schemas, routes[i], ids[i])) @@ ops
      named == UNION {{routes[i].does.request} \union Range(routes[i].does.responses) : i \in DOMAIN routes}
  IN  [ops |-> FoldLeft(add, <<>>, [i \in DOMAIN routes |-> i]),
       params |-> SharedHeaders(routes), schemes |-> <<>>, default |-> {},
       schemas |-> PruneDanglingRefs(schemas, Reference(schemas, {t.n : t \in {u \in named : Has(schemas, u)}}))]

(***************************************************************************)
(* The passes over the whole document, in the order Generate makes them.   *)
(***************************************************************************)
ApplyInferredSchemes(doc, routes) ==
  LET names == UNION {SecurityFor(routes[i]) : i \in DOMAIN routes}
  IN  [doc EXCEPT !.schemes = @ @@ [n \in names |-> SchemeDefinition(n)]]
\* What the operator states replaces what was guessed.
ApplyDeclared(doc, p) ==
  [doc EXCEPT !.schemes = p.declared @@ @, !.default = DOMAIN p.declared]
SecurityOf(doc, op) == IF op.security # {} THEN op.security ELSE doc.default
SchemeHeader(s) ==
  CASE s.type = "http" -> {<<"Authorization">>}
    [] s.type = "apiKey" /\ s.in = "header" -> {s.name}
    [] OTHER -> {}
ParamOf(doc, prm) == IF prm[1] = "ref" THEN <<"header", doc.params[prm[2]]>> ELSE prm
Covered(doc, op) == UNION {SchemeHeader(doc.schemes[n]) : n \in SecurityOf(doc, op) \cap DOMAIN doc.schemes}
PruneSharedParameters(doc) ==
  LET used == UNION {{prm[2] : prm \in {x \in doc.ops[k].params : x[1] = "ref"}} : k \in DOMAIN doc.ops}
  IN  [doc EXCEPT !.params = [k \in DOMAIN @ \cap used |-> @[k]]]
DropSchemeHeaders(doc) ==
  LET kept(op) == {prm \in op.params : ~(/\ ParamOf(doc, prm)[1] = "header"
                                         /\ ParamOf(doc, prm)[2] \in Covered(doc, op))}
      dropped == [doc EXCEPT !.ops = [k \in DOMAIN @ |-> [@[k] EXCEPT !.params = kept(doc.ops[k])]]]
  IN  IF DOMAIN doc.schemes = {} THEN doc ELSE PruneSharedParameters(dropped)
Assemble(p, routes) ==
  LET schemas == FoldLeft(LAMBDA acc, r : acc @@ r.does.schemas, p.types, routes)
  IN  DropSchemeHeaders(ApplyDeclared(ApplyInferredSchemes(Build(schemas, routes), routes), p))
Inspected(p, routes) == [i \in DOMAIN routes |-> routes[i] @@ [does |-> Inspect(p, routes[i].h)]]
Generate(p, found) == Assemble(p, Inspected(p, found.routes)) @@ [diags |-> found.diags]
=============================================================================
