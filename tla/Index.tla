-------------------------------- MODULE Index --------------------------------
(***************************************************************************)
(* Which declaration an expression names, and what path a string spells    *)
(* (internal/adapter/astutil: index.go, scope.go, resolver.go).  p.decls   *)
(* is the sequence of declarations in file order, each [pkg, recv, self,   *)
(* name, params, results, body]; a lookup                                  *)
(* yields the set of the one it found, or {}.  An expression is a tuple    *)
(* whose first member says what it is:                                     *)
(*   <<"id", x>>  <<"sel", e, name>>  <<"paren", e>>  <<"spread", e>>      *)
(*   <<"addr", e>>  <<"make", type>>  <<"index", e>>  <<"func", body>>     *)
(*   <<"lit", type, <<key, e>> ...>>  <<"call", fun, args, to>>            *)
(*   <<"code", n>>  <<"str", s>>  <<"other">>                              *)
(* where to is the declaration Go calls there, <<>> for a library's, which *)
(* the scan does not know.  A type is [n, many, of], of the payload of an  *)
(* envelope.                                                               *)
(***************************************************************************)
EXTENDS Program, TLC

CONSTANT Words  \* the words of an identifier or a path segment that has several

WordsOf(name) == IF name \in DOMAIN Words THEN Words[name] ELSE <<name>>
Id(x) == <<"id", x>>
Sel(e, name) == <<"sel", e, name>>
Calls(fun, args) == <<"call", fun, args, <<>>>>
CallTo(fun, args, to) == <<"call", fun, args, to>>
NoType == [n |-> "", many |-> FALSE, of |-> <<>>]
Type(n) == [NoType EXCEPT !.n = n]

HandlerUnwrapDepth == 8
RecvTypeDepth == 8

Some(S) == CHOOSE x \in S : TRUE
Decls(p) == DOMAIN p.decls
Earliest(S) == IF S = {} THEN {} ELSE {Min(S)}
Latest(S) == IF S = {} THEN {} ELSE {Max(S)}
Unique(S) == IF Cardinality(S) = 1 THEN S ELSE {}
FirstOf(sets) == LET some == SelectSeq(sets, LAMBDA S : S # {}) IN IF some = <<>> THEN {} ELSE some[1]
FindFirst(s, Test(_)) == LET some == SelectSeq(s, Test) IN IF some = <<>> THEN <<>> ELSE <<some[1]>>

(***************************************************************************)
(* What the index holds.                                                   *)
(***************************************************************************)
Funcs(p, pkg, name) ==
  Earliest({k \in Decls(p) : p.decls[k].pkg = pkg /\ p.decls[k].recv = "" /\ p.decls[k].name = name})
MethodsOf(p, pkg, recv, name) ==
  Earliest({k \in Decls(p) : p.decls[k].pkg = pkg /\ p.decls[k].recv = recv /\ p.decls[k].name = name})
Named(p, name) == {k \in Decls(p) : p.decls[k].name = name}
GlobalMethods(p, recv, name) == {k \in Named(p, name) : p.decls[k].recv = recv}
MethodByBareName(p, pkg, name) ==
  Unique({k \in Named(p, name) : p.decls[k].pkg = pkg /\ p.decls[k].recv # ""})
\* The first result that is not an error.
FirstResult(d) == LET r == FindFirst(d.results, LAMBDA t : t.n \notin {"", "error"})
                  IN  IF r = <<>> THEN NoType ELSE [NoType EXCEPT !.n = r[1].n, !.many = r[1].many]

(***************************************************************************)
(* The expression of a registration that names the handler: past           *)
(* parentheses, slices and the calls that build one.                       *)
(***************************************************************************)
SliceBuilders == {"append", "Concat"}
CalleeName(fun) == CASE fun[1] = "id" -> fun[2] [] fun[1] = "sel" -> fun[3] [] OTHER -> ""
RECURSIVE HandlerExprSpread(_, _, _)
HandlerExprSpread(e, spread, left) ==
  CASE left = 0 -> e
    [] e[1] = "paren" -> HandlerExprSpread(e[2], spread, left - 1)
    [] e[1] = "spread" -> HandlerExprSpread(e[2], TRUE, left - 1)
    [] e[1] = "lit" /\ e[3] # <<>> -> HandlerExprSpread(Last(e[3])[2], FALSE, left - 1)
    [] e[1] = "call" /\ e[3] # <<>> /\ (spread \/ CalleeName(e[2]) \in SliceBuilders) ->
         HandlerExprSpread(Last(e[3]), FALSE, left - 1)
    [] OTHER -> e
HandlerExpr(e) == HandlerExprSpread(e, FALSE, HandlerUnwrapDepth)

\* A declaration that takes a request's context or returns a handler.
LooksLikeHandler(p, found) ==
  \E k \in found : \/ \E i \in DOMAIN p.decls[k].params : p.decls[k].params[i].t \in {"Context", "Ctx", "ResponseWriter"}
                   \/ \E i \in DOMAIN p.decls[k].results : {"Handler", "Handlers"} \intersect ToSet(WordsOf(p.decls[k].results[i].n)) # {}

(***************************************************************************)
(* Lookup, from the function the expression stands in.                     *)
(***************************************************************************)
LookupPlain(p, pkg, name) == FirstOf(<<Funcs(p, pkg, name), Unique(Named(p, name))>>)
DeclaredType(at, x) ==
  LET ps == SelectSeq(<<[x |-> at.self, t |-> at.recv]>> \o at.params, LAMBDA q : q.x = x /\ q.t # "")
  IN  IF ps = <<>> THEN <<>> ELSE <<at.pkg, ps[1].t>>
\* The first value assigned to it, if one name is assigned one value.
AssignedValue(at, x) ==
  FindFirst([i \in DOMAIN at.body |-> IF at.body[i].op = "let" /\ at.body[i].xs = <<x>> THEN <<at.body[i].e>> ELSE <<>>],
            LAMBDA v : v # <<>>)
\* A qualified type outside the tree keeps its name alone.
LitType(p, at, typ) ==
  CASE typ.pkg = "" -> <<at.pkg, typ.n>>
    [] typ.pkg \in p.imports[at.pkg] -> <<typ.pkg, typ.n>>
    [] OTHER -> <<"", typ.n>>

RECURSIVE LookupAt(_, _, _, _), LookupSelector(_, _, _, _), RecvTypeAt(_, _, _, _)
LookupAt(p, at, e, depth) ==
  LET h == HandlerExpr(e)
  IN  CASE depth >= RecvTypeDepth -> {}
        [] h[1] = "id" -> LookupPlain(p, at.pkg, h[2])
        [] h[1] = "sel" -> LookupSelector(p, at, h, depth)
        [] h[1] = "call" -> LookupAt(p, at, h[2], depth + 1)
        [] OTHER -> {}
LookupSelector(p, at, h, depth) ==
  LET x == h[2] name == h[3]
      own == RecvTypeAt(p, at, x, depth + 1)
  IN  FirstOf(<< IF x[1] = "id" /\ x[2] \in p.imports[at.pkg] THEN Funcs(p, x[2], name) ELSE {},
                 IF own # <<>> THEN MethodsOf(p, own[1], own[2], name) ELSE {},
                 IF own # <<>> THEN Unique(GlobalMethods(p, own[2], name)) ELSE {},
                 Funcs(p, at.pkg, name), MethodByBareName(p, at.pkg, name), Unique(Named(p, name)) >>)
\* The package and the type of a value: <<>> when the source does not say.
RecvTypeAt(p, at, e, depth) ==
  CASE depth >= RecvTypeDepth -> <<>>
    [] e[1] = "call" ->
         LET fd == LookupAt(p, at, e[2], depth + 1)
         IN  IF fd = {} \/ FirstResult(p.decls[Some(fd)]).n = "" THEN <<>>
             ELSE <<p.decls[Some(fd)].pkg, FirstResult(p.decls[Some(fd)]).n>>
    [] e[1] = "addr" -> RecvTypeAt(p, at, e[2], depth + 1)
    [] e[1] = "lit" -> LitType(p, at, e[2])
    [] e[1] = "id" ->
         IF DeclaredType(at, e[2]) # <<>> THEN DeclaredType(at, e[2])
         ELSE LET v == AssignedValue(at, e[2]) IN IF v = <<>> THEN <<>> ELSE RecvTypeAt(p, at, v[1][1], depth + 1)
    [] OTHER -> <<>>

(***************************************************************************)
(* The handler of a registration, and the blocks that serve its requests.  *)
(***************************************************************************)
HandlerName(e) ==
  LET h == HandlerExpr(e) IN CASE h[1] = "id" -> h[2] [] h[1] = "sel" -> h[3] [] OTHER -> ""
\* The last resort, by bare name: gin lets a function own it.
HandlerTable(p, name) ==
  LET plain == {k \in Named(p, name) : p.decls[k].recv = ""}
  IN  IF p.fw = "gin" /\ plain # {} THEN Latest(plain) ELSE Unique(Named(p, name))
Resolved(p, e) == FirstOf(<<LookupAt(p, p.registrar, e, 0), HandlerTable(p, HandlerName(e))>>)
\* A helper that is handed the handler gives way to it.
HandlerDecl(p, e) ==
  LET h == HandlerExpr(e)
      fd == Resolved(p, e)
      handed == h[1] = "call" /\ h[3] # <<>> /\ ~LooksLikeHandler(p, fd)
      inner == IF handed THEN Resolved(p, Last(h[3])) ELSE {}
  IN  IF LooksLikeHandler(p, inner) THEN inner ELSE fd
HandlerFuncNames == {"HandlerFunc", "Handler", "HandlersChain"}
ReturnsFunc(d) ==
  /\ d.results # <<>>
  /\ \/ d.results[1].via = "func"
     \/ d.results[1].via = "sel" /\ d.results[1].n \in HandlerFuncNames
     \/ d.results[1].via = "id" /\ d.results[1].n = "HandlerFunc"
HandlerBody(d) ==
  LET made == SelectSeq(d.body, LAMBDA st : st.op = "return" /\ st.e[1] = "func")
  IN  IF ReturnsFunc(d) /\ made # <<>> THEN [i \in DOMAIN made |-> made[i].e[2]] ELSE <<d.body>>
\* The names a handler's helpers are looked up by when the index has no answer.
PkgFuncs(p, d, name) ==
  LET imported == {pkg \in p.imports[d.pkg] : Funcs(p, pkg, name) # {}}
      plain == {k \in Named(p, name) : p.decls[k].recv = ""}
      own == Funcs(p, d.pkg, name)
  IN  FirstOf(<< IF own = {} /\ imported # {} THEN Funcs(p, Some(imported), name) ELSE {},
                 MethodByBareName(p, d.pkg, name), own, Earliest(plain), Earliest(Named(p, name)) >>)

-----------------------------------------------------------------------------
(* The string a path expression stands for, without running the program    *)
(* (resolver.go): package constants, local variables of every enclosing    *)
(* function and concatenations.  A map in Go yields its keys in any order: *)
(* ord is the order in which this scan meets the local names.              *)

Masked == [ok |-> FALSE, val |-> <<>>]
Value(path) == [ok |-> TRUE, val |-> path]

Eval(e, env) ==
  CASE e.v = "" -> Value(e.lit)
    [] e.v \notin DOMAIN env -> Masked
    [] OTHER -> IF env[e.v].ok THEN Value(env[e.v].val \o e.lit) ELSE Masked

Lets(p, f) == {s \in ToSet(p.code[f]) : s.op = "let"}
Candidates(p, f, name) == {s.path : s \in {x \in Lets(p, f) : x.var = name}}
NestedDeclared(p, f) == {s.var : s \in {x \in Lets(p, f) : x.inner}}

\* One round over the pending names: a name is settled once all that is
\* assigned to it has one value.
Round(p, f, ord, w) ==
  LET settle(acc, name) ==
        LET vals == {Eval(e, acc.env) : e \in Candidates(p, f, name)}
        IN  IF name \in acc.pending /\ Cardinality(vals) = 1 /\ \A v \in vals : v.ok
            THEN [env |-> (name :> CHOOSE v \in vals : TRUE) @@ acc.env, pending |-> acc.pending \ {name}]
            ELSE acc
  IN  FoldLeft(settle, w, ord)
RECURSIVE Settled(_, _, _, _)
Settled(p, f, ord, w) ==
  LET next == Round(p, f, ord, w)
  IN  IF next.pending = w.pending THEN [n \in w.pending |-> Masked] @@ w.env
      ELSE Settled(p, f, ord, next)
ApplyLocalBindings(p, f, ord, env) ==
  LET nested == NestedDeclared(p, f)
  IN  Settled(p, f, ord, [env |-> [n \in nested |-> Masked] @@ env,
                          pending |-> {s.var : s \in Lets(p, f)} \ nested])

\* The constants of the packages: passes in file order until nothing new is
\* known, so that one may stand before what it is made of.
RECURSIVE StringConsts(_, _)
StringConsts(p, env) ==
  LET pass(acc, c) == IF c.var \in DOMAIN acc \/ ~Eval(c.path, acc).ok THEN acc
                      ELSE (c.var :> Eval(c.path, acc)) @@ acc
      next == FoldLeft(pass, env, p.consts)
  IN  IF next = env THEN env ELSE StringConsts(p, next)

RECURSIVE EnvFor(_, _, _)
EnvFor(p, f, ord) ==
  ApplyLocalBindings(p, f, ord,
    IF p.outer[f] = "" THEN StringConsts(p, <<>>) ELSE EnvFor(p, p.outer[f], ord))
Resolve(p, s, ord) == Eval(Stmt(p, s).path, EnvFor(p, s[1], ord))
=============================================================================
