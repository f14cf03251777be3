----------------------------- MODULE MCClients -----------------------------
EXTENDS Clients

MCSegments == <<"1", "a?b", "key", "mine", "owner", "pets", "search", "token", "{id}">>
MCParams   == [p \in {"{id}"} |-> "id"]
MCMethods  == <<"GET", "PUT">>
MCWhole    == [t \in {"1"} |-> t]
MCNone     == [t \in {} |-> t]
MCEscaped  == ("1" :> <<"1">>) @@ ("mine" :> <<"mine">>) @@ ("a?b" :> <<"a?b">>) @@
              ("a/owner" :> <<"a", "owner">>) @@ ("" :> <<"">>)
MCPieces   == ("a?b" :> <<"a">>) @@ MCEscaped

Text(t)     == Scalar("string", t)
Flag(t)     == Scalar("boolean", t)
Of(type)    == [Untyped EXCEPT !.type = type]
To(name)    == [Untyped EXCEPT !.ref = name]
ListOf(s)   == [Of("array") EXCEPT !.items = <<s>>]
Struct(p, req) == [Of("object") EXCEPT !.props = p, !.required = req]

Kind  == [Of("string") EXCEPT !.enum = <<Text("cat"), Text("dog")>>]
Owner == Struct([name |-> Of("string"), kind |-> Kind], {"kind"})
Pet   == Struct([name |-> Of("string"), kind |-> Kind, flag |-> Of("boolean"), owner |-> To("Owner"),
                 labels |-> ListOf(To("Owner")), extra |-> Of("object")], {"name"})
(* type Dog struct { Base; ... }, and a part written out where it is used. *)
Base  == Struct([name |-> Of("string"), size |-> Of("integer")], {})
Dog   == [Struct([flag |-> Of("boolean")], {"flag"}) EXCEPT
            !.allOf = <<To("Base"), Struct([breed |-> Of("string")], {})>>]
(* A name for an enumeration, a name for a struct, and a struct in itself. *)
Node  == Struct([kind |-> To("Kind"), next |-> To("Node"), owner |-> To("Same")], {"kind"})
Same  == [Untyped EXCEPT !.allOf = <<To("Owner")>>]

Id     == [in |-> "path", name |-> "id", required |-> TRUE, schema |-> Of("string")]
Query  == [in |-> "query", name |-> "q", required |-> TRUE, schema |-> Of("integer")]
Header == [in |-> "header", name |-> "X-Tenant", required |-> TRUE, schema |-> Of("string")]
Json(s) == [content |-> <<s>>]
None    == [content |-> << >>]
Op(params, body, responses) == [params |-> params, body |-> body, responses |-> responses, security |-> {}]
Over(type, components) ==
    [paths |->
       (<<"pets", "{id}">> :> (("GET" :> Op(<<Id>>, << >>, (200 :> Json(type)) @@ (404 :> None))) @@
                               ("PUT" :> Op(<<Id>>, <<type>>, (200 :> Json(type)) @@ (201 :> None))))) @@
       (<<"pets", "mine">> :> ("GET" :> Op(<< >>, << >>, (0 :> Json(ListOf(type)))))) @@
       (<<"pets", "search">> :> ("GET" :> Op(<<Query>>, << >>, (200 :> Json(ListOf(type)))))) @@
       (<<"pets", "{id}", "owner">> :> ("GET" :> Op(<<Id, Header>>, << >>, (204 :> None)))),
     components |-> components,
     schemes |-> [key |-> [type |-> "apiKey", scheme |-> "", in |-> "header", name |-> "X-Key"],
                  token |-> [type |-> "http", scheme |-> "bearer", in |-> "", name |-> ""]],
     security |-> {{"key"}, {"token"}}]
Bearer(doc) == [doc EXCEPT !.schemes = [n \in {"token"} |-> @[n]], !.security = {{"token"}}]

BigPet == Object([name |-> Text("a"), kind |-> Text("cat"), flag |-> Flag("false"), extra |-> Object(<< >>),
                  owner |-> Object([kind |-> Text("dog")]),
                  labels |-> List(<<Object([name |-> Text("b"), kind |-> Text("cat")])>>)])
SmallPet == Object([name |-> Text("a")])
ADog  == Object([name |-> Text("a"), size |-> Scalar("number", "2"), flag |-> Flag("true"), breed |-> Text("b")])
ANode == Object([kind |-> Text("cat"), next |-> Object([kind |-> Text("dog")]), owner |-> Object([kind |-> Text("cat")])])

MCDocs == {[doc |-> Over(To("Pet"), [Pet |-> Pet, Owner |-> Owner]), type |-> To("Pet"), values |-> {BigPet, SmallPet}],
           [doc |-> Bearer(Over(To("Dog"), [Dog |-> Dog, Base |-> Base])), type |-> To("Dog"), values |-> {ADog}],
           [doc |-> Over(To("Node"), [Node |-> Node, Kind |-> Kind, Owner |-> Owner, Same |-> Same]),
            type |-> To("Node"), values |-> {ANode}]}
MCEdits == {<<"flag", Flag("true")>>, <<"name", Text("")>>, <<"kind", Text("dog")>>}
MCGateway == {[status |-> 502, body |-> Garbled], [status |-> 404, body |-> Problem],
              [status |-> 204, body |-> EmptyBody], [status |-> 200, body |-> Garbled]}
============================================================================
