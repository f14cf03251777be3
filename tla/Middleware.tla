----------------------------- MODULE Middleware -----------------------------
(***************************************************************************)
(* What stands in front of a route, read from the source                   *)
(* (internal/middleware): what a middleware is, from its name and then     *)
(* from its body, and which of them a registration on a router variable    *)
(* is behind, by the order of the statements.                              *)
(***************************************************************************)
EXTENDS Program

CONSTANT Ware  \* name -> [words: the patterns its name contains, reads: <<how, name>>,
               \*          ends: <<how, status>>], one per declared middleware

\* What a body refuses with: an abort, or an answer it returns right after.
AbortStatus(e) == e[1] \in {"abort", "http.Error", "NewHTTPError"}
ReturnedRejection(e) == e[1] \in {"return", "WriteHeader+return"} /\ e[2] >= 400
HeaderRead(r) == r[1] \in {"GetHeader", "Header.Get"}
Patterns ==
  << <<"jwt", "auth", "bearerAuth">>, <<"oauth", "auth", "oauth2">>,
     <<"basicauth", "auth", "basicAuth">>, <<"apikey", "auth", "apiKeyAuth">>,
     <<"session", "auth", "sessionAuth">>,
     <<"auth", "auth", "bearerAuth">>, <<"cors", "cors", "">>, <<"logger", "logging", "">> >>
Classify(name) ==
  LET hits == SelectSeq(Patterns, LAMBDA pat : pat[1] \in Ware[name].words)
  IN  IF hits = <<>> THEN [kind |-> "", scheme |-> ""]
      ELSE [kind |-> hits[1][2], scheme |-> hits[1][3]]
Statuses(name) == {e[2] : e \in {x \in Ware[name].ends : AbortStatus(x) \/ ReturnedRejection(x)}}
Headers(name) == {r[2] : r \in {x \in Ware[name].reads : HeaderRead(x)}}
AuthFromHeaders(headers) ==
  IF <<"Authorization">> \in headers THEN "bearerAuth"
  ELSE IF \E h \in headers : \E k \in DOMAIN h : h[k] \in {"Sign", "Key", "Token", "Secret"}
  THEN "signature" ELSE ""
Describe(name) ==
  LET c == Classify(name)
      byBody == IF c.kind = "" THEN AuthFromHeaders(Headers(name)) ELSE ""
  IN  [name |-> name, scheme |-> IF byBody # "" THEN byBody ELSE c.scheme,
       headers |-> Headers(name), statuses |-> Statuses(name)]
\* A middleware named twice runs once.
Chain(names) ==
  LET add(acc, n) == IF Contains(acc, n) THEN acc ELSE Append(acc, n)
  IN  FoldLeft(add, <<>>, names)

\* The credentials a chain asks for, and the scheme each is defined as.
Schemes(names) == {Describe(names[i]).scheme : i \in DOMAIN names} \ {""}
SchemeDefinition(name) ==
  CASE name = "apiKeyAuth" -> [type |-> "apiKey", in |-> "header", name |-> <<"X", "API", "Key">>]
    [] name = "sessionAuth" -> [type |-> "apiKey", in |-> "cookie", name |-> <<"session">>]
    [] OTHER -> [type |-> "http", in |-> "header", name |-> <<"Authorization">>]

(***************************************************************************)
(* The index keeps Use calls and groups by the bare name of the variable.  *)
(***************************************************************************)
UsesOf(p, recv) == SelectSeq(Sites(p, "use"), LAMBDA s : Stmt(p, s).on = recv)
GroupsOf(p, var) ==
  IF p.fw = "gorillamux" THEN <<>>      \* a Subrouter is none of its spellings
  ELSE SelectSeq(Sites(p, "group"), LAMBDA s : Stmt(p, s).var = var)

\* A variant of Inherited: every Use call counts, wherever it stands.
InheritedFromAnywhere(p, recv, pos, visited) ==
  LET gs == GroupsOf(p, recv)
  IN  (IF gs = <<>> THEN <<>> ELSE Stmt(p, Last(gs)).mw)
      \o FlattenSeq([i \in 1 .. Len(UsesOf(p, recv)) |-> Stmt(p, UsesOf(p, recv)[i]).mw])
RECURSIVE Inherited(_, _, _, _)
Inherited(p, recv, pos, visited) ==
  IF recv \in visited THEN <<>> ELSE
  LET gs == GroupsOf(p, recv)
      g == Last(gs)
      above == IF gs = <<>> THEN <<>>
               ELSE Inherited(p, Stmt(p, g).on, Pos(p, g), visited \union {recv}) \o Stmt(p, g).mw
      before == SelectSeq(UsesOf(p, recv), LAMBDA s : Pos(p, s) < pos)
  IN  above \o FlattenSeq([i \in 1 .. Len(before) |-> Stmt(p, before[i]).mw])
\* The middleware in front of a route registered on recv at a position.
For(p, recv, pos, inline) == Chain(Inherited(p, recv, pos, {}) \o inline)

=============================================================================
