------------------------------ MODULE Execution ------------------------------
(***************************************************************************)
(* What the compiled handler does with a request, in Go's own terms: a     *)
(* call runs the declaration it names (the to of a call), a name holds the *)
(* value it was last given, and an if is taken or not.  A value is         *)
(*   [typ, code, query]:                                                   *)
(* its type, the status it is and the query parameter it was read from.    *)
(* A run's state is [status, typ, done, reads].                            *)
(***************************************************************************)
EXTENDS Handlers

OnlyAtRunTime == 0
NoValue == [typ |-> NoType, code |-> OnlyAtRunTime, query |-> {}]
Codes(v) == IF v.code = OnlyAtRunTime THEN {200, 409} ELSE {v.code}
DeclOf(p, to) == p.decls[CHOOSE k \in Decls(p) : <<p.decls[k].pkg, p.decls[k].recv, p.decls[k].name>> = to]

RECURSIVE ValueOf(_, _, _, _)
ValueOf(p, d, e, env) ==
  LET held(kv) == kv[2][1] = "id" /\ kv[2][2] \in DOMAIN env /\ env[kv[2][2]].typ # NoType
  IN  CASE e[1] = "id" /\ e[2] \in DOMAIN env -> env[e[2]]
        [] e[1] = "code" -> [NoValue EXCEPT !.code = e[2]]
        [] e[1] = "addr" -> ValueOf(p, d, e[2], env)
        [] e[1] = "make" -> [NoValue EXCEPT !.typ = Plain(e[2])]
        [] e[1] = "lit" ->
             LET kv == FindFirst(e[3], LAMBDA x : held(x))
             IN  [NoValue EXCEPT !.typ = IF kv = <<>> THEN Plain(e[2])
                                         ELSE [Plain(e[2]) EXCEPT !.of = <<kv[1][1], Plain(env[kv[1][2][2]].typ)>>]]
        [] e[1] = "index" -> [NoValue EXCEPT !.typ = Elems(p, d)[e[2][3]]]
        [] e[1] = "call" /\ e[4] # <<>> -> [NoValue EXCEPT !.typ = FirstResult(DeclOf(p, e[4]))]
        [] e[1] = "call" /\ (Verb(e) \in Queries \/ QueryGet(e)) -> [NoValue EXCEPT !.query = Name(e)]
        [] OTHER -> NoValue
\* What evaluating an expression takes from the request.
Reads(p, d, e, env) ==
  LET read(call) ==
        CASE Verb(call) \in Queries \/ QueryGet(call) -> {<<"query", n, "">> : n \in Name(call)}
          [] Verb(call) = "GetHeader" \/ HeaderGet(call) -> {<<"header", n, "">> : n \in Name(call)}
          [] Verb(call) \in DOMAIN StrconvTypes ->
               {<<"query", n, StrconvTypes[Verb(call)]>> : n \in ValueOf(p, d, call[3][1], env).query}
          [] Payload(call) # <<>> -> {<<"body", ValueOf(p, d, Payload(call)[1], env).typ.n, "">>}
          [] OTHER -> {}
  IN  UNION {read(call) : call \in {c \in ToSet(CallsIn(e)) : c[4] = <<>>}}

RECURSIVE Run(_, _, _, _, _, _)
\* The states one statement leads to.
Effects(p, d, e, env, s) ==
  LET v(k) == ValueOf(p, d, e[3][k], env)
      answer(codes, typ) == {[s EXCEPT !.status = c, !.typ = typ, !.done = TRUE] : c \in codes}
      chained == ChainedStatus(Receiver(e))
  IN  CASE e[1] # "call" -> {s}
        [] e[4] # <<>> ->
             LET callee == DeclOf(p, e[4])
                 given == [x \in {callee.params[i].x : i \in DOMAIN callee.params} |->
                             v(CHOOSE i \in DOMAIN callee.params : callee.params[i].x = x)]
             IN  Run(p, callee, callee.body, 1, given, s)
        [] Verb(e) \in Json /\ Arity(e) >= 2 -> answer(Codes(v(1)), v(Arity(e)).typ)
        [] Verb(e) \in Json -> answer({StatusOr(chained, 200)}, v(1).typ)
        [] Verb(e) \in Bare -> answer(Codes(v(1)), NoType)
        [] Verb(e) = "WriteHeader" -> {[s EXCEPT !.status = c] : c \in Codes(v(1))}
        [] Verb(e) = "Encode" -> answer({StatusOr(s.status, 200)}, v(1).typ)
        [] OTHER -> {s}
\* A body from statement i on.  Once it has answered it returns.
Run(p, d, body, i, env, s) ==
  IF i > Len(body) \/ s.done THEN {s} ELSE
  LET st == body[i]
      read == [s EXCEPT !.reads = @ \union Reads(p, d, st.e, env)]
      after == Effects(p, d, st.e, env, read)
      named == [x \in ToSet(st.xs) |-> ValueOf(p, d, st.e, env)] @@ env
  IN  CASE st.op = "return" -> {read}
        [] st.exit -> {[a EXCEPT !.done = TRUE] : a \in after} \union Run(p, d, body, i + 1, env, read)
        [] OTHER -> UNION {Run(p, d, body, i + 1, named, a) : a \in after}
\* What a route's handler may do: h.is names the declaration that runs.
Answers(p, h) ==
  LET d == DeclOf(p, h.is)
      body == HandlerBody(d)[1]
      start == [status |-> 0, typ |-> NoType, done |-> FALSE, reads |-> {}]
  IN  {[a EXCEPT !.status = StatusOr(@, 200)] : a \in Run(p, d, body, 1, <<>>, start)}
=============================================================================
