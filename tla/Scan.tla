-------------------------------- MODULE Scan --------------------------------
(***************************************************************************)
(* A program is scanned and then run, and its document is held against the *)
(* routes it really serves.  The run executes the registrations statement  *)
(* by statement and answers requests; what a statement does to a router is *)
(* the router library's business, modelled from how the adapters' sources  *)
(* and tests use it.                                                       *)
(***************************************************************************)
EXTENDS Lint, Execution

CONSTANTS Programs, NoDoc, Nobody

VARIABLES app,      \* the program
          doc,      \* the document of its scan
          stack,    \* its call stack: [fn, pc, env: name -> router, str: name -> path, via]
          routers,  \* [prefix, chain, parent, from]: what a router has been given so far
          table,    \* [kind, at, on, path, mw, via]: what has been registered
          served,   \* [on, mw] once it listens
          answer    \* what a request last got
vars == <<app, doc, stack, routers, table, served, answer>>

LocalNames(p) == {s.var : s \in UNION {Lets(p, p.fns[k]) : k \in DOMAIN p.fns}}
Orders(p) == {o \in [1 .. Cardinality(LocalNames(p)) -> LocalNames(p)] : IsInjective(o)}
\* What Go makes of the constants, whatever their order.
RECURSIVE ConstantOf(_)
ConstantOf(name) == LET e == app.consts[CHOOSE i \in DOMAIN app.consts : app.consts[i].var = name].path
                    IN  IF e.v = "" THEN e.lit ELSE ConstantOf(e.v) \o e.lit
PackageNames == [name \in {app.consts[i].var : i \in DOMAIN app.consts} |-> ConstantOf(name)]
Frame(fn, env, str, via) == [fn |-> fn, pc |-> 1, env |-> env, str |-> str, via |-> via]
Init == /\ app \in Programs
        /\ doc = NoDoc
        /\ stack = <<Frame(app.fns[1], <<>>, PackageNames, {})>>
        /\ routers = <<>> /\ table = <<>> /\ served = Nobody /\ answer = Nobody
\* The scan, in any order of the names Go's map gives them.
ScanSource == /\ doc = NoDoc
              /\ doc' \in {Generate(app, found) @@ [lint |-> LintAll(found)] : found \in {Scan(app, o) : o \in Orders(app)}}
              /\ UNCHANGED <<app, stack, routers, table, served, answer>>

(***************************************************************************)
(* The router libraries.                                                   *)
(***************************************************************************)
Top == Last(stack)
Here == <<Top.fn, Top.pc>>
Current == Stmt(app, Here)
On == Top.env[Current.on]
Value_(e) == CASE e.v = "" -> e.lit
               [] e.v = "?" -> <<Lit("configured")>> \o e.lit
               [] OTHER -> Top.str[e.v] \o e.lit
PathHere == routers[On].prefix \o Value_(Current.path)
\* A group starts with what its router has; echo and gorilla/mux look at the
\* router when a request comes, fiber at what was registered before.
Inherits(fw, i) == \/ fw \in {"gin", "chi", "bunrouter"}
                   \/ fw = "echo" /\ i # 1
NewGroup(path, mw) ==
  [prefix |-> path, parent |-> On, from |-> routers[On].from \union {Here},
   chain |-> (IF Inherits(app.fw, On) THEN routers[On].chain ELSE <<>>)
               \o (IF app.fw = "fiber" THEN <<>> ELSE mw)]
Entry(kind, on, path, mw) ==
  [kind |-> kind, at |-> Here, on |-> on, path |-> path, mw |-> mw, via |-> Top.via]
Before(path) ==
  LET uses == SelectSeq(table, LAMBDA e : e.kind = "use" /\ IsPrefix(e.path, path))
  IN  FlattenSeq([i \in 1 .. Len(uses) |-> uses[i].mw])
AtRegistration(path) ==
  CASE Inherits(app.fw, On) -> routers[On].chain
    [] app.fw = "fiber" -> Before(path)
    [] OTHER -> <<>>
RECURSIVE Ancestors(_)
Ancestors(i) == IF i = 0 THEN <<>> ELSE Ancestors(routers[i].parent) \o routers[i].chain
AtRequest(on) == CASE app.fw = "echo" -> routers[1].chain
                   [] app.fw = "gorillamux" -> Ancestors(on)
                   [] OTHER -> <<>>

(***************************************************************************)
(* One statement.                                                          *)
(***************************************************************************)
Next_(env, str) == [stack EXCEPT ![Len(stack)] = [@ EXCEPT !.pc = @ + 1, !.env = env @@ @, !.str = str @@ @]]
Running(op) == doc # NoDoc /\ stack # <<>> /\ served = Nobody /\ Top.pc <= Len(app.code[Top.fn]) /\ Current.op = op
Construct == /\ Running("new")
             /\ routers' = Append(routers, [prefix |-> <<>>, parent |-> 0, from |-> {Here}, chain |-> Current.mw])
             /\ stack' = Next_(Current.var :> Len(routers'), <<>>)
             /\ UNCHANGED <<app, doc, table, served, answer>>
Registers(mw) ==
  table' = IF app.fw = "fiber" /\ mw # <<>> THEN Append(table, Entry("use", Len(routers'), PathHere, mw)) ELSE table
MakeGroup == /\ Running("group")
             /\ routers' = Append(routers, NewGroup(PathHere, Current.mw))
             /\ Registers(Current.mw)
             /\ stack' = Next_(Current.var :> Len(routers'), <<>>)
             /\ UNCHANGED <<app, doc, served, answer>>
UseMiddleware ==
  /\ Running("use")
  /\ IF app.fw = "fiber"
     THEN table' = Append(table, Entry("use", On, routers[On].prefix, Current.mw)) /\ UNCHANGED routers
     ELSE routers' = [routers EXCEPT ![On].chain = @ \o Current.mw] /\ UNCHANGED table
  /\ stack' = Next_(<<>>, <<>>)
  /\ UNCHANGED <<app, doc, served, answer>>
RegisterRoute == /\ Running("route")
            /\ table' = Append(table, Entry("route", On, PathHere, AtRegistration(PathHere) \o Current.mw))
            /\ stack' = Next_(<<>>, <<>>)
            /\ UNCHANGED <<app, doc, routers, served, answer>>
MountSub == /\ Running("mount")
            /\ table' = Append(table, Entry("mount", On, Value_(Current.path), Current.mw))
            /\ stack' = Next_(<<>>, <<>>)
            /\ UNCHANGED <<app, doc, routers, served, answer>>
\* A closure sees the names around it, a function only what it is handed.
EnterBlock == /\ Running("block")
              /\ routers' = Append(routers, NewGroup(PathHere, Current.mw))
              /\ stack' = Append(Next_(<<>>, <<>>),
                                 Frame(Current.fn, (app.param[Current.fn] :> Len(routers')) @@ Top.env, Top.str, Top.via))
              /\ UNCHANGED <<app, doc, table, served, answer>>
EnterFunction ==
  /\ Running("call")
  /\ routers' = IF Current.sub THEN Append(routers, NewGroup(PathHere, <<>>)) ELSE routers
  /\ stack' = Append(Next_(<<>>, <<>>),
                     Frame(Current.fn, app.param[Current.fn] :> (IF Current.sub THEN Len(routers') ELSE On),
                           PackageNames, Top.via \union {Here}))
  /\ UNCHANGED <<app, doc, table, served, answer>>
\* A declaration in an inner block is gone when the block ends.
Declare == /\ Running("let")
           /\ stack' = Next_(<<>>, IF Current.inner THEN <<>> ELSE Current.var :> Value_(Current.path))
           /\ UNCHANGED <<app, doc, routers, table, served, answer>>
Return == /\ doc # NoDoc /\ stack # <<>> /\ served = Nobody
          /\ Top.pc > Len(app.code[Top.fn])
          /\ stack' = Front(stack)
          /\ UNCHANGED <<app, doc, routers, table, served, answer>>
Listen == /\ Running("serve")
          /\ served' = [on |-> On, mw |-> Current.mw]
          /\ UNCHANGED <<app, doc, stack, routers, table, answer>>

(***************************************************************************)
(* What is served: an entry, its path, the guards in front of it and the   *)
(* statements it comes from.  A mounted mux answers under its mount.       *)
(***************************************************************************)
MuxOf(e) == LET c == Stmt(app, e.at) IN stack[1].env[c.var]
RECURSIVE ReachedFrom(_, _, _, _)
ReachedFrom(on, prefix, guards, from) ==
  LET of(kind) == {i \in DOMAIN table : table[i].kind = kind /\ (app.fw # "stdlib" \/ table[i].on = on)}
      route(i) == LET e == table[i] IN
        [at |-> e.at, nr |-> i, path |-> prefix \o e.path, guards |-> AtRequest(e.on) \o guards \o e.mw,
         from |-> from \union e.via \union routers[e.on].from \union {e.at}]
      below(e) == ReachedFrom(MuxOf(e), prefix \o e.path, guards \o e.mw, from \union {e.at})
  IN  {route(i) : i \in of("route")} \union UNION {below(table[i]) : i \in of("mount")}
Reached == IF served = Nobody THEN {} ELSE ReachedFrom(served.on, <<>>, served.mw, {})
\* fiber gives a request to the first registration that matches, the others
\* of these routers to the one that says most.
FirstMatch == {"fiber"}
Takes(r, verb) == verb \in ToSet(Stmt(app, r.at).verbs) \/ Stmt(app, r.at).verbs \in {<<>>, <<"any">>}
Matches(pattern, path) ==
  Len(pattern) = Len(path) /\ \A i \in DOMAIN pattern : pattern[i][1] # "lit" \/ pattern[i] = path[i]
Winner(r, verb) ==
  IF app.fw \notin FirstMatch THEN r
  ELSE LET able == {x \in Reached : Takes(x, verb) /\ Matches(x.path, r.path)}
       IN  CHOOSE x \in able : \A y \in able : x.nr <= y.nr
\* A guard refuses, or the handler answers.
Refusals(r) == UNION {{[status |-> st, typ |-> NoType, done |-> TRUE, reads |-> {}] :
                         st \in {e[2] : e \in Ware[r.guards[i]].ends}} : i \in DOMAIN r.guards}
Request == \E r \in Reached, v \in ToSet(Common) :
             /\ Takes(r, v)
             /\ answer' \in {[to |-> r, verb |-> v, got |-> a] :
                               a \in Refusals(Winner(r, v)) \union Answers(app, Stmt(app, Winner(r, v).at).h)}
             /\ UNCHANGED <<app, doc, stack, routers, table, served>>

Next == \/ ScanSource \/ Construct \/ MakeGroup \/ UseMiddleware \/ RegisterRoute \/ MountSub
        \/ EnterBlock \/ EnterFunction \/ Declare \/ Return \/ Listen \/ Request
Spec == Init /\ [][Next]_vars

(***************************************************************************)
(* Properties.                                                             *)
(***************************************************************************)
\* A path template: where its parameters are, whatever they are called and
\* whether or not it ends in a slash.
Template(path) ==
  LET p == Trimmed(path) IN [i \in DOMAIN p |-> IF p[i][1] = "lit" THEN p[i] ELSE <<"par", "">>]
Documented(path, verbs) == {k \in DOMAIN doc.ops : Template(k[1]) = Template(path) /\ k[2] \in verbs}
Verbs(r) == LET vs == Stmt(app, r.at).verbs
            IN  IF vs \in {<<>>, <<"any">>} THEN {ToSet(Common)} ELSE {{v} : v \in ToSet(vs)}
Diagnosed(r) == r.from \cap doc.diags # {}
\* Another registration answers for it, says the lint, or one of the two was
\* documented over the other.
Lost(r) == \E f \in doc.lint : f.kind # "unresolved-route" /\ f.at = r.at
Overwritten(r) == \E f \in doc.lint : f.kind = "duplicate-route" /\ f.by = r.at
OpsOf(r) == UNION {Documented(r.path, vs) : vs \in Verbs(r)}

\* Every route the program serves is in the document, under the path and the
\* method it is served at, or a statement it comes from is reported as one
\* the scan could not read.
RoutesAreDocumented ==
  \A r \in Reached : Diagnosed(r) \/ \A vs \in Verbs(r) : Documented(r.path, vs) # {}

\* The document has no operation the program does not serve, unless the scan
\* says what it could not read.  A function a closure's router is handed to
\* is also read on its own, and is left out of this.
NothingElseIsDocumented ==
  served # Nobody /\ doc.diags = {} /\ (app.fw \notin ByClosure \/ Sites(app, "call") = <<>>)
  => \A k \in DOMAIN doc.ops : \E r \in Reached : k \in OpsOf(r)

\* The middleware an operation lists is what stands in front of its handler
\* at run time; each credential it asks for is required, and each header it
\* reads is a parameter or carried by a scheme.  Lost is only a header named
\* like a parameter of the path or the query, which stands for it.
GuardsAreDocumented ==
  \A r \in {x \in Reached : ~Diagnosed(x)} : \A k \in OpsOf(r) :
     LET op == doc.ops[k] IN
     /\ op.middleware = ToSet(r.guards)
     /\ \A i \in DOMAIN r.guards :
          /\ Describe(r.guards[i]).scheme \in op.security \union {""}
          /\ \A h \in {x[2] : x \in {y \in Ware[r.guards[i]].reads : y[1] # "Query.Get"}} :
               \/ h \in Covered(doc, op)
               \/ \E prm \in op.params : ParamOf(doc, prm) = <<"header", h>>
               \/ \E prm \in op.params : prm[1] \in {"path", "query"} /\ h \in DOMAIN Folded /\ prm[2] = Folded[h]

\* The document can be used: no two operations share an id, what a reference
\* names is there and is used, a path's parameters are declared, and no
\* credential is described both as a scheme and as a parameter.
DocumentIsSound ==
  doc # NoDoc =>
    /\ \A j, k \in DOMAIN doc.ops : doc.ops[j].id = doc.ops[k].id => j = k
    /\ \A k \in DOMAIN doc.ops :
         LET op == doc.ops[k] IN
         /\ op.security \subseteq DOMAIN doc.schemes
         /\ {t.n : t \in Range(op.responses) \union {op.request}} \subseteq DOMAIN doc.schemas \union {""}
         /\ PathParams(k[1]) = {prm[2] : prm \in {x \in op.params : x[1] = "path"}}
         /\ \A prm \in op.params : prm[1] = "ref" => prm[2] \in DOMAIN doc.params
         /\ \A prm \in op.params : ParamOf(doc, prm)[1] = "header"
              => ParamOf(doc, prm)[2] \notin Covered(doc, op)
    /\ \A t \in DOMAIN doc.schemas : doc.schemas[t] \subseteq DOMAIN doc.schemas
    /\ \A key \in DOMAIN doc.params : \E k \in DOMAIN doc.ops : <<"ref", key>> \in doc.ops[k].params

\* A value the document describes: the schema of its type, or the one of the
\* envelope around its payload.
Shown(typ) == IF typ.of # <<>> THEN [Type(EnvelopeName(typ)) EXCEPT !.many = typ.many] ELSE typ
\* The lint names the routes another registration answers for, and no others.
LintNamesLostRoutes ==
  app.fw \in FirstMatch => \A r \in {x \in Reached : ~Diagnosed(x)} :
    Lost(r) <=> \E v \in {x \in ToSet(Common) : Takes(r, x)} : Winner(r, v) # r

\* What a request gets is an answer its operation lists, with the type that
\* is listed, whoever gave it, unless the lint says whose it is; and what the
\* handler read from it (body, headers, query parameters with the type it
\* converts them to) is what the operation asks for.
AnswersAreDocumented ==
  answer # Nobody /\ ~Diagnosed(answer.to) /\ ~Lost(answer.to) /\ ~Overwritten(answer.to) =>
    \A k \in Documented(answer.to.path, {answer.verb}) :
       LET op == doc.ops[k] got == answer.got IN
       /\ \/ /\ got.status \in DOMAIN op.responses
             /\ got.typ.n \in DOMAIN app.types => op.responses[got.status] = Shown(got.typ)
          \/ 0 \in DOMAIN op.responses
       /\ \A r \in got.reads :
            CASE r[1] = "body" -> op.request = Type(r[2])
              [] r[1] = "header" -> <<"header", r[2]>> \in op.params \/ r[2] \in Covered(doc, op)
              [] r[1] = "query" -> \E prm \in op.params : prm[1] = "query" /\ prm[2] = r[2] /\ r[3] \in {"", prm[3]}
=============================================================================
