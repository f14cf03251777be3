------------------------------ MODULE MCEvolve ------------------------------
EXTENDS EvolveRun, Evolve

Typed(type)    == [Untyped EXCEPT !.type = type]
To(name)       == [Untyped EXCEPT !.ref = name]
Text(t)        == Scalar("string", t)
Struct(p, req) == [Typed("object") EXCEPT !.props = p, !.required = req]
OneOf(ts)      == [Typed("string") EXCEPT !.enum = ts]
ListOf(s)      == [Typed("array") EXCEPT !.items = <<s>>]

States == OneOf(<<Text("open"), Text("closed")>>)
Point(type, req) == Struct([x |-> Typed(type)], req)
Body == Struct([state |-> States, pos |-> Point("integer", {"x"}),
                way |-> ListOf(Point("integer", {"x"})), next |-> To("Node")], {"state"})
(* One body, and everything an edit does to it. *)
BodyEdits == {
    Body,
    [Body EXCEPT !.props.state = OneOf(<<Text("open"), Text("closed"), Text("gone")>>)],
    [Body EXCEPT !.props.state = OneOf(<<Text("open")>>)],
    [Body EXCEPT !.required = {}], [Body EXCEPT !.required = {"state", "pos"}],
    [Body EXCEPT !.props = @ @@ [note |-> Typed("string")], !.required = {"state", "note"}],
    [Body EXCEPT !.props.pos = Point("string", {"x"})], [Body EXCEPT !.props.pos = Point("integer", {})],
    [Body EXCEPT !.props.way = ListOf(Point("integer", {}))],
    [Body EXCEPT !.props.way = ListOf(Point("string", {"x"}))],
    [Body EXCEPT !.props.pos = Struct([x |-> Typed("integer"), y |-> Typed("integer")], {"x", "y"})],
    Struct([pos |-> Point("integer", {"x"})], {})}

Param(required, s) == <<[in |-> "query", name |-> "p", required |-> required, schema |-> s]>>
ParamEdits == {<< >>, Param(FALSE, States), Param(TRUE, States), Param(TRUE, OneOf(<<Text("open")>>)),
               Param(FALSE, Typed("integer"))}

Op(params, body, out, codes) ==
    [deprecated |-> FALSE, params |-> params, body |-> <<body>>,
     responses |-> [c \in codes |-> <<out>>]]
Node == Struct([state |-> States, next |-> To("Node")], {})
Doc(ops) == [ops |-> ops, components |-> [Node |-> Node]]
Get == <<"GET", "/a">>
One(params, body, out, codes) == Doc(Get :> Op(params, body, out, codes))
MCTrees == {One(Param(FALSE, States), b, Body, {"200"}) : b \in BodyEdits} \cup
           {One(Param(FALSE, States), Body, b, {"200"}) : b \in BodyEdits} \cup
           {One(p, Body, Body, {"200"}) : p \in ParamEdits} \cup
           {One(<< >>, Body, Body, {"200", "404"}), Doc(<< >>)}
MCRevisions == {One(Param(FALSE, States), Body, Body, {"200"}), One(<< >>, Body, Body, {"200"}),
                One(Param(TRUE, States), Body, Struct([pos |-> Point("integer", {"x"})], {}), {"200", "404"})}

Number(t) == Scalar("number", t)
Optional(n, vs) == {<< >>} \cup {n :> v : v \in vs}
Points == {Object(<< >>), Object([x |-> Number("1")]), Object([x |-> Text("open")])}
MCBodies == {Object(s @@ p @@ o) :
               s \in Optional("state", {Text("open"), Text("gone")}), p \in Optional("pos", Points),
               o \in Optional("way", {List(<<q>>) : q \in Points}) \cup Optional("note", {Text("open")})
                     \cup Optional("next", {Object([state |-> Text("gone")])})}
MCArguments == {Text("open"), Text("closed"), Number("1")}

(* A component that is edited in place and referred to from a field.       *)
Priced(money) == [ops |-> Get :> Op(<< >>, Body, Struct([pos |-> To("Money")], {}), {"200"}),
                  components |-> [Money |-> money]]
MCNestedTrees == {Priced(Point("string", {"x"})), Priced(Point("integer", {}))}
MCNestedRevisions == {Priced(Point("integer", {"x"}))}
============================================================================
