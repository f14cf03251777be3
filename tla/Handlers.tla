------------------------------ MODULE Handlers ------------------------------
(***************************************************************************)
(* From the handler a registration names to what it reads and answers      *)
(* (internal/adapter/astutil: astutil.go, envelope.go, wrapfields.go): its *)
(* body and the helpers it calls are read call by call, carrying the types *)
(* and statuses of the arguments into the parameters.  A statement is      *)
(*   [op, xs, e, exit]:                                                    *)
(* "let" gives the value of e to the names xs, "do" calls, "return" hands  *)
(* a factory's handler out; exit when it stands in an if that returns.     *)
(***************************************************************************)
EXTENDS Index

MaxHelperDepth == 3

(***************************************************************************)
(* The type of an expression, as far as the source says it.                *)
(***************************************************************************)
Plain(typ) == [NoType EXCEPT !.n = typ.n, !.many = typ.many]
RECURSIVE ExprType(_)
ExprType(e) ==
  CASE e[1] \in {"lit", "make"} -> Plain(e[2])
    [] e[1] = "addr" -> ExprType(e[2])
    [] OTHER -> NoType
\* The first of several guesses that is one.
Typed(ts) == LET t == FindFirst(ts, LAMBDA u : u # NoType) IN IF t = <<>> THEN NoType ELSE t[1]
\* By the bare name of what is called: of two of a name the last one counts.
Returns(p, recv, name) ==
  LET ks == {k \in Named(p, name) : FirstResult(p.decls[k]).n # "" /\ recv \in {"", p.decls[k].recv}}
  IN  IF ks = {} THEN NoType ELSE FirstResult(p.decls[Max(ks)])
CallType(p, e) ==
  IF e[1] # "call" THEN NoType ELSE
  LET fun == e[2]
  IN  Typed(<<IF fun[1] = "sel" /\ fun[2][1] = "id" THEN Returns(p, fun[2][2], fun[3]) ELSE NoType,
              Returns(p, "", CalleeName(fun))>>)
\* fields: the elements of the handler's own containers.
IndexType(fields, e) ==
  IF e[1] = "index" /\ e[2][1] = "sel" /\ e[2][3] \in DOMAIN fields THEN fields[e[2][3]] ELSE NoType
Elems(p, d) == IF <<d.pkg, d.recv>> \in DOMAIN p.elems THEN p.elems[<<d.pkg, d.recv>>] ELSE <<>>
LocalTypes(p, fields, body) ==
  LET guess(st) == Typed((IF Len(st.xs) = 1 THEN <<ExprType(st.e)>> ELSE <<>>)
                         \o <<CallType(p, st.e), IndexType(fields, st.e)>>)
      to(st) == FindFirst(st.xs, LAMBDA x : Len(st.xs) = 1 \/ x \notin {"_", "err"})
      give(types, xs, t) == IF t = NoType \/ xs = <<>> THEN types ELSE (xs[1] :> t) @@ types
      put(types, st) == IF st.op # "let" THEN types ELSE give(types, to(st), guess(st))
  IN  FoldLeft(put, <<>>, body)
\* The payload of an envelope: the first member given a name of known type.
Wrapped(e, types) ==
  LET payload(kv) == kv[2][1] = "id" /\ kv[2][2] \in DOMAIN types /\ types[kv[2][2]].n \notin {"", e[2].n}
      kv == IF e[1] = "lit" THEN FindFirst(e[3], LAMBDA x : payload(x)) ELSE <<>>
  IN  IF kv = <<>> THEN <<>> ELSE <<kv[1][1], Plain(types[kv[1][2][2]])>>
ArgType(p, e, types) ==
  LET bare == IF e[1] = "addr" THEN e[2] ELSE e
      carrying(t, of) == IF t # NoType /\ of # <<>> THEN [t EXCEPT !.of = of] ELSE t
  IN  carrying(Typed(<<ExprType(bare),
                       IF bare[1] = "id" /\ bare[2] \in DOMAIN types THEN types[bare[2]] ELSE NoType,
                       CallType(p, e)>>),
               Wrapped(e, types))
\* 0: a status only a run knows.
StatusValue(e, status) ==
  CASE e[1] = "id" /\ e[2] \in DOMAIN status -> status[e[2]]
    [] e[1] = "code" -> e[2]
    [] OTHER -> 0
StatusOr(status, def) == IF status = 0 THEN def ELSE status

(***************************************************************************)
(* Reading a body, and the helpers it calls, call by call.                 *)
(***************************************************************************)
RECURSIVE CallsIn(_), CallsOf(_)
CallsIn(e) ==
  CASE e[1] = "call" -> <<e>> \o CallsIn(e[2]) \o FlattenSeq([i \in DOMAIN e[3] |-> CallsIn(e[3][i])])
    [] e[1] \in {"sel", "paren", "addr", "index", "spread"} -> CallsIn(e[2])
    [] e[1] = "lit" -> FlattenSeq([i \in DOMAIN e[3] |-> CallsIn(e[3][i][2])])
    [] e[1] = "func" -> CallsOf(e[2])
    [] OTHER -> <<>>
CallsOf(body) == FlattenSeq([i \in DOMAIN body |-> CallsIn(body[i].e)])

Json == {"JSON", "IndentedJSON", "AbortWithStatusJSON", "PureJSON", "XML", "YAML"}
Bare == {"Status", "AbortWithStatus", "NoContent", "SendStatus"}
Decodes == {"Decode", "DecodeJSON", "Unmarshal"}
Binds == {"ShouldBindJSON", "BindJSON", "ShouldBind", "Bind", "BodyParser"}
BindsWith == {"ShouldBindWith", "BindWith", "MustBindWith", "ShouldBindBodyWith", "ShouldBindBodyWithJSON"}
Queries == {"Query", "DefaultQuery", "GetQuery", "QueryArray", "FormValue", "QueryParam", "QueryParams"}
Verb(call) == IF call[2][1] = "sel" THEN call[2][3] ELSE ""
Receiver(call) == call[2][2]
Arity(call) == Len(call[3])
\* r.URL.Query().Get(name) and r.Header.Get(name).
QueryGet(call) == Verb(call) = "Get" /\ Receiver(call)[1] = "call" /\ Verb(Receiver(call)) = "Query"
HeaderGet(call) == Verb(call) = "Get" /\ Receiver(call)[1] = "sel" /\ Receiver(call)[3] = "Header"
Name(call) == IF Arity(call) > 0 /\ call[3][1][1] = "str" THEN {call[3][1][2]} ELSE {}
\* c.Status(201).JSON(x)
ChainedStatus(on) == IF on[1] = "call" /\ Verb(on) = "Status" /\ Arity(on) = 1 THEN StatusValue(on[3][1], <<>>) ELSE 0
Payload(call) ==
  CASE Verb(call) \in Decodes /\ Arity(call) > 0 -> <<Last(call[3])>>
    [] Verb(call) \in Binds /\ Arity(call) = 1 -> <<call[3][1]>>
    [] Verb(call) = "Bind" /\ Arity(call) = 2 -> <<call[3][2]>>
    [] Verb(call) \in BindsWith /\ Arity(call) > 0 -> <<call[3][1]>>
    [] OTHER -> <<>>

\* What the parameters of a helper are, from the arguments it is given.
Bind(p, fields, d, args, sc) ==
  LET given == {i \in DOMAIN args : i \in DOMAIN d.params /\ d.params[i].x \notin {"", "_"}}
      typ == {i \in given : ArgType(p, args[i], sc.types) # NoType}
      codes == {i \in given : StatusValue(args[i], sc.status) # 0}
      at(x) == CHOOSE i \in given : d.params[i].x = x
  IN  [types |-> [x \in {d.params[i].x : i \in typ} |-> ArgType(p, args[at(x)], sc.types)]
                   @@ LocalTypes(p, fields, d.body),
       status |-> [x \in {d.params[i].x : i \in codes} |-> StatusValue(args[at(x)], sc.status)]]
\* A call is followed by the rules a handler is found by; a bare name is
\* enough only for a plain call.
Callee(p, handler, at, call) ==
  FirstOf(<<LookupAt(p, at, call[2], 0),
            IF call[2][1] = "id" THEN PkgFuncs(p, handler, call[2][2]) ELSE {}>>)
RECURSIVE Walk(_, _, _, _, _, _, _, _)
Walk(p, handler, at, body, sc, depth, seen, found) ==
  LET fields == Elems(p, handler)
      descend(acc, call, fd) ==
        IF depth >= MaxHelperDepth \/ fd = {} \/ fd \subseteq seen THEN acc
        ELSE [acc EXCEPT !.found = Walk(p, handler, p.decls[Some(fd)], p.decls[Some(fd)].body,
                                        Bind(p, fields, p.decls[Some(fd)], call[3], sc),
                                        depth + 1, seen \union fd, @)]
      speak(acc, call) ==
        LET v == Verb(call)
            typ(e) == ArgType(p, e, sc.types)
            respond(code, t) == [acc EXCEPT !.found.responses = Append(@, <<code, t>>)]
            code == IF Arity(call) = 0 THEN 0 ELSE StatusValue(call[3][1], sc.status)
        IN  CASE Payload(call) # <<>> ->
                   IF acc.found.request = NoType THEN [acc EXCEPT !.found.request = typ(Payload(call)[1])] ELSE acc
              [] v = "Encode" /\ Arity(call) = 1 ->
                   [respond(StatusOr(acc.pending, 200), typ(call[3][1])) EXCEPT !.pending = 0]
              [] v \in Json /\ Arity(call) >= 2 -> respond(code, typ(Last(call[3])))
              [] v \in Json /\ Arity(call) = 1 -> respond(StatusOr(ChainedStatus(Receiver(call)), 200), typ(call[3][1]))
              [] v \in Bare /\ Arity(call) = 1 /\ code # 0 -> respond(code, NoType)
              [] v = "WriteHeader" /\ Arity(call) = 1 /\ code # 0 -> [respond(code, NoType) EXCEPT !.pending = code]
              [] v \in Queries \/ QueryGet(call) -> [acc EXCEPT !.found.query = @ \union Name(call)]
              [] v = "GetHeader" \/ HeaderGet(call) -> [acc EXCEPT !.found.headers = @ \union Name(call)]
              [] OTHER -> acc
  IN  FoldLeft(LAMBDA acc, call : speak(descend(acc, call, Callee(p, handler, at, call)), call), [found |-> found, pending |-> 0], CallsOf(body)).found

(***************************************************************************)
(* A query value is a string, unless the handler converts it.              *)
(***************************************************************************)
StrconvTypes == "Atoi" :> "integer" @@ "ParseInt" :> "integer" @@ "ParseUint" :> "integer"
                @@ "ParseFloat" :> "number" @@ "ParseBool" :> "boolean"
QueryRead(e, known) ==
  IF e[1] = "call" /\ (Verb(e) \in Queries \ {"GetQuery", "QueryArray", "QueryParams"} \/ QueryGet(e))
  THEN Name(e) \intersect known ELSE {}
QueryTypes(body, known) ==
  LET reads(x) == {i \in DOMAIN body : /\ body[i].op = "let" /\ body[i].xs = <<x>>
                                       /\ QueryRead(body[i].e, known) # {}}
      from(x) == UNION {QueryRead(body[i].e, known) : i \in Latest(reads(x))}
      converted(call) ==
        LET arg == call[3][1] IN
        IF Receiver(call) # Id("strconv") \/ Verb(call) \notin DOMAIN StrconvTypes THEN {}
        ELSE IF QueryRead(arg, known) # {} THEN QueryRead(arg, known)
        ELSE IF arg[1] = "id" THEN from(arg[2]) ELSE {}
      put(types, call) == types @@ [n \in converted(call) |-> StrconvTypes[Verb(call)]]
  IN  FoldLeft(put, <<>>, SelectSeq(CallsOf(body), LAMBDA call : Verb(call) # "" /\ Arity(call) > 0))

(***************************************************************************)
(* An envelope around a payload is a schema of its own.                    *)
(***************************************************************************)
Wire(p, pkg, typ) ==
  LET declared == {k \in DOMAIN p.wire : k[2] = typ}
  IN  IF <<pkg, typ>> \in declared THEN p.wire[<<pkg, typ>>]
      ELSE IF Cardinality(declared) = 1 THEN p.wire[Some(declared)] ELSE <<>>
EnvelopeName(t) == t.n \o "Of" \o t.of[2].n \o (IF t.of[2].many THEN "List" ELSE "")
\* The schemas it adds: one, or none.
Register(p, pkg, t) ==
  LET wire == IF t.of = <<>> THEN <<>> ELSE Wire(p, pkg, t.n)
      known == /\ t.of # <<>> /\ t.n \in DOMAIN p.types /\ t.of[2].n \in DOMAIN p.types
               /\ t.of[1] \in DOMAIN wire /\ wire[t.of[1]] \in DOMAIN p.types[t.n]
  IN  IF known THEN EnvelopeName(t) :> [p.types[t.n] EXCEPT ![wire[t.of[1]]] = t.of[2].n] ELSE <<>>
Enveloped(p, pkg, t) ==
  IF Register(p, pkg, t) = <<>> THEN Plain(t) ELSE [NoType EXCEPT !.n = EnvelopeName(t), !.many = t.many]

\* A variant of DedupeResponses: the first of a status wins.
FirstResponses(rs) ==
  [s \in {rs[i][1] : i \in DOMAIN rs} |-> SelectSeq(rs, LAMBDA r : r[1] = s)[1][2]]
\* One response per status; one that names a body wins.
DedupeResponses(rs) ==
  [s \in {rs[i][1] : i \in DOMAIN rs} |->
     Typed([i \in 1 .. Len(SelectSeq(rs, LAMBDA r : r[1] = s)) |-> SelectSeq(rs, LAMBDA r : r[1] = s)[i][2]])]
Nothing == [responses |-> <<>>, request |-> NoType, headers |-> {}, query |-> {}]
\* What a route's handler is known to do; one nobody finds has no body.
Unknown == [pkg |-> "", recv |-> "", name |-> "", results |-> <<>>, body |-> <<>>]
Declaration(p, fd) == IF fd = {} THEN Unknown ELSE p.decls[Some(fd)]
WalkBodies(p, d, bodies) ==
  LET walk(found, body) ==
        Walk(p, d, d, body, [types |-> LocalTypes(p, Elems(p, d), body), status |-> <<>>], 0, {}, found)
  IN  FoldLeft(walk, Nothing, bodies)
Account(p, e, d, bodies, found) ==
  LET types == DedupeResponses(found.responses)
      typed(acc, body) == acc @@ QueryTypes(body, found.query)
  IN  [name |-> IF HandlerName(e) = "" /\ p.fw = "gin" THEN d.name ELSE HandlerName(e),
       type |-> d.recv, request |-> found.request, headers |-> found.headers, query |-> found.query,
       queryTypes |-> FoldLeft(typed, <<>>, bodies),
       responses |-> [s \in DOMAIN types |-> Enveloped(p, d.pkg, types[s])],
       schemas |-> FoldLeft(LAMBDA acc, s : acc @@ Register(p, d.pkg, types[s]), <<>>, SetToSeq(DOMAIN types))]
InspectDecl(p, e, d) == Account(p, e, d, HandlerBody(d), WalkBodies(p, d, HandlerBody(d)))
Inspect(p, e) == InspectDecl(p, e, Declaration(p, HandlerDecl(p, e)))
=============================================================================
