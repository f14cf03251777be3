---------------------------- MODULE MCDocuments ----------------------------
EXTENDS Documents, Samples

MCSegments == <<"42", "7", "NaN", "me", "open", "orders", "users", "{id}", "{status}", "{tenant}">>
MCParams   == [p \in {"{id}", "{status}", "{tenant}"} |->
                 CASE p = "{id}" -> "id" [] p = "{status}" -> "status" [] OTHER -> "tenant"]
MCMethods  == <<"GET", "POST">>
MCIdLike   == {"42", "7"}
MCWhole    == [t \in {"42", "7"} |-> t]
MCFloats   == [t \in {"NaN"} |-> t]
MCBools    == [t \in {"true"} |-> t]

Typed(type)      == [Untyped EXCEPT !.type = type]
To(name)         == [Untyped EXCEPT !.ref = name]
ListOf(s)        == [Typed("array") EXCEPT !.items = <<s>>]
Struct(p, req)   == [Typed("object") EXCEPT !.props = p, !.required = req]
OneOf(type, vs)  == [Typed(type) EXCEPT !.enum = vs]

Statuses == OneOf("string", <<Scalar("string", "open"), Scalar("string", "closed")>>)
User == Struct([id |-> Typed("integer"), name |-> Typed("string"), boss |-> To("User"),
                state |-> To("State")], {"id"})
(* type Admin struct { User; ... }: an embedded type, and a recursive one. *)
Admin == [Struct([reports |-> ListOf(To("Admin"))], {}) EXCEPT !.allOf = <<To("User")>>]
Order == Struct([status |-> Statuses, total |-> Typed("number"), paid |-> Typed("boolean")], {"status"})
Echo  == Struct([status |-> To("State"), id |-> OneOf("integer", <<Scalar("number", "1")>>)], {})
MCComponents == [User |-> User, Admin |-> Admin, Order |-> Order, State |-> Statuses,
                 Loop |-> [Untyped EXCEPT !.allOf = <<To("Loop")>>]]

Json(s) == [content |-> <<s>>]
Operation(responses) ==
    [params |-> << >>, responses |-> responses, security |-> {}, observed |-> FALSE, manual |-> FALSE]
Get(s) == [m \in {"GET"} |-> Operation([c \in {200} |-> Json(s)])]
Secured == [NewDocument(<<>>) EXCEPT !.components = MCComponents,
              !.schemes = [key |-> [type |-> "apiKey", scheme |-> "", in |-> "header", name |-> "X-Key"],
                           token |-> [type |-> "http", scheme |-> "bearer", in |-> "", name |-> ""]],
              !.security = {{"key"}, {"token"}}]

One == [Secured EXCEPT !.paths =
    (<<"users", "{id}">> :> Get(To("User"))) @@ (<<"users", "me">> :> Get(To("Admin"))) @@
    (<<"{tenant}", "me">> :> Get(ListOf(To("User")))) @@ (<<"orders", "{status}">> :> Get(To("Order"))) @@
    (<<"users">> :> [m \in {"POST"} |-> Operation([c \in {0} |-> Json(To("Loop"))])])]
(* The same service after an edit: the user's operations are gone.         *)
Other == [Secured EXCEPT !.paths =
    (<<"{tenant}", "me">> :> Get(ListOf(To("User")))) @@ (<<"orders", "">> :> Get(ListOf(To("Order"))))]
MCSources == {One, Other}
MCManual == <<[path |-> <<"orders">>, method |-> "POST", codes |-> {}],
              [path |-> <<"users", "me">>, method |-> "GET", codes |-> {200, 404}]>>

Ask(m, p, auth) == [method |-> m, path |-> p, status |-> 0, auth |-> auth, keys |-> {}, origin |-> NoOrigin]
MCRequests == {Ask("GET", <<"users", "42">>, "none"), Ask("GET", <<"users", "me">>, "bearer"),
               Ask("GET", <<"orders", "open">>, "none"), Ask("GET", <<"orders", "NaN">>, "bearer"),
               Ask("POST", <<"users", "">>, "none"), Ask("POST", <<"users", "7", "orders">>, "none")}

Reply(c, json, body) == [status |-> c, json |-> json, body |-> body]
Whole(t) == Scalar("number", t)
MCReplies == {Reply(200, TRUE, Object([id |-> Whole("7"), name |-> Null])),
              Reply(200, TRUE, List(<<Whole("1.5"), Scalar("string", "x")>>)),
              Reply(500, TRUE, Object([id |-> Whole("7"), list |-> List(<<Whole("1")>>)])),
              Reply(500, FALSE, NoBody)}
Setting(os, cred, auth) == [origins |-> os, credentials |-> cred, enforceAuth |-> auth]
MCOptions == {Setting({}, FALSE, FALSE), Setting({}, TRUE, TRUE),
              Setting({"a", "b"}, FALSE, TRUE), Setting({"a", "b"}, TRUE, FALSE)}

(* Documents whose responses echo a parameter behind a $ref, past an       *)
(* integer's enum, or as a float that JSON cannot hold.                    *)
Price == Struct([status |-> Typed("number")], {})
MCEchoSources == {[Secured EXCEPT !.paths = <<"orders", "{status}">> :> Get(Price)],
                  [Secured EXCEPT !.paths = <<"orders", "{status}">> :> Get(Echo)],
                  [Secured EXCEPT !.paths = <<"users", "{id}">> :> Get(Echo)]}
============================================================================
