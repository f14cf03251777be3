------------------------------- MODULE Evolve -------------------------------
(***************************************************************************)
(* What changed between two documents and what it does to a client of the  *)
(* old one (internal/evolve, Compare).                                     *)
(*                                                                         *)
(* A document is [ops, components]; ops maps <<method, path>> to an        *)
(* operation [deprecated, params, body, responses], where params is a      *)
(* sequence of [in, name, required, schema], and body and each response    *)
(* are none or one schema (of application/json).  A change is its          *)
(* severity, its kind, its operation and the name it is about; the path    *)
(* the code prints before a nested name is left out.                       *)
(***************************************************************************)
EXTENDS Conform, FiniteSets

CONSTANTS Bodies,      \* request and response bodies, for the properties
          Arguments    \* parameter values, for the properties

RefHops == 20
ToOld(c, s) == Follow(c.old.components, s, RefHops)
ToNew(c, s) == Follow(c.new.components, s, RefHops)

(* A nested schema: the old document's components are tried first,         *)
(* whichever document the schema is from.                                  *)
Resolve(c, s) ==
    CASE s.ref = ""           -> s
      [] ~ IsNil(ToOld(c, s)) -> ToOld(c, s)
      [] ~ IsNil(ToNew(c, s)) -> ToNew(c, s)
      [] OTHER                -> s

Changes(severity, kind, names) ==
    {[severity |-> severity, kind |-> kind, name |-> n] : n \in names}
Breaking(kind, names)   == Changes("breaking", kind, names)
Compatible(kind, names) == Changes("compatible", kind, names)

(* The scalar facts of one field or parameter.                             *)
\* variant of CompareLeaf, with a slip
CompareLeafOneWay(dir, o, n, name) ==
    LET texts(s) == {s.enum[i].text : i \in DOMAIN s.enum}
        when(cond) == IF cond THEN {name} ELSE {}
    IN IF IsNil(o) \/ IsNil(n) THEN {} ELSE
       Breaking("type-changed", when(o.type # n.type /\ "" \notin {o.type, n.type})) \cup
       Breaking("request-enum-narrowed", when(~ texts(o) \subseteq texts(n)))
CompareLeaf(dir, o, n, name) ==
    LET texts(s) == {s.enum[i].text : i \in DOMAIN s.enum}
        when(cond) == IF cond THEN {name} ELSE {}
    IN IF IsNil(o) \/ IsNil(n) THEN {} ELSE
       Breaking("type-changed", when(o.type # n.type /\ "" \notin {o.type, n.type})) \cup
       IF dir = "request"
       THEN Breaking("request-enum-narrowed", when(~ texts(o) \subseteq texts(n)))
       ELSE Breaking("response-enum-widened", when(~ texts(n) \subseteq texts(o)))

(* Two object schemas, their own fields only.                              *)
CompareFields(c, dir, o, n) ==
    LET both  == DOMAIN o.props \cap DOMAIN n.props
        gone  == DOMAIN o.props \ DOMAIN n.props
        fresh == DOMAIN n.props \ DOMAIN o.props
        leaf(x) == CompareLeaf(dir, Resolve(c, o.props[x]), Resolve(c, n.props[x]), x)
    IN UNION {leaf(x) : x \in both} \cup
       IF dir = "response"
       THEN Breaking("response-field-removed", gone) \cup
            Breaking("response-field-now-optional", (both \cap o.required) \ n.required) \cup
            Compatible("response-field-added", fresh)
       ELSE Breaking("request-field-now-required",
                     (both \cap (n.required \ o.required)) \cup (fresh \cap n.required)) \cup
            Compatible("request-field-added", fresh \ n.required)

(* The pairs of schemas right below a pair: the members of two objects,    *)
(* the elements of two arrays.  Below an allOf nothing is compared.        *)
Below(c, pair) ==
    LET o == Resolve(c, pair[1]) n == Resolve(c, pair[2]) IN
    CASE IsNil(o) \/ IsNil(n) -> {}
      [] o.type = "array" /\ n.type = "array" -> {<<OrNil(o.items), OrNil(n.items)>>}
      [] OTHER -> {<<o.props[x], n.props[x]>> : x \in DOMAIN o.props \cap DOMAIN n.props}

RECURSIVE Reach(_, _)
(* Every pair the walk comes to, each once: a self-referential schema ends.*)
Reach(c, met) ==
    LET more == UNION {Below(c, p) : p \in met} \ met
    IN IF more = {} THEN met ELSE Reach(c, met \cup more)

CompareSchema(c, dir, o, n) ==
    LET members(p, q) == {<<p.props[x], q.props[x]>> : x \in DOMAIN p.props \cap DOMAIN q.props}
        nested == {<<Resolve(c, p[1]), Resolve(c, p[2])>> : p \in Reach(c, members(o, n))}
        compared == {p \in nested : /\ ~ IsNil(p[1]) /\ ~ IsNil(p[2])
                                    /\ ~ (p[1].type = "array" /\ p[2].type = "array")
                                    /\ p[1].props # << >> /\ p[2].props # << >>}
    IN IF IsNil(o) \/ IsNil(n) THEN {}
       ELSE UNION {CompareFields(c, dir, p[1], p[2]) : p \in compared \cup {<<o, n>>}}

(* By place and name; of two with one key the last counts.                 *)
ParamMap(params) ==
    LET key(i) == <<params[i].in, params[i].name>>
        last(k) == CHOOSE i \in DOMAIN params :
                      key(i) = k /\ \A j \in DOMAIN params : key(j) = k => j <= i
    IN [k \in {key(i) : i \in DOMAIN params} |-> params[last(k)]]

CompareParameters(c, op, np) ==
    LET o == ParamMap(op.params) n == ParamMap(np.params)
        both  == DOMAIN o \cap DOMAIN n
        fresh == DOMAIN n \ DOMAIN o
        that(S, cond(_)) == {k[2] : k \in {x \in S : cond(x)}}
        needed(k) == n[k].required
    IN Breaking("required-param-added", that(fresh, needed)) \cup
       Compatible("optional-param-added", that(fresh, LAMBDA k : ~ needed(k))) \cup
       Breaking("param-now-required", that(both, LAMBDA k : needed(k) /\ ~ o[k].required)) \cup
       Compatible("param-now-optional", that(both, LAMBDA k : o[k].required /\ ~ needed(k))) \cup
       UNION {CompareLeaf("request", ToOld(c, o[k].schema), ToNew(c, n[k].schema), k[2]) : k \in both} \cup
       Compatible("param-removed", {k[2] : k \in DOMAIN o \ DOMAIN n})

CompareRequestBody(c, op, np) ==
    CompareSchema(c, "request", ToOld(c, OrNil(op.body)), ToNew(c, OrNil(np.body)))

CompareResponses(c, op, np) ==
    LET o == op.responses n == np.responses IN
    Breaking("status-removed", DOMAIN o \ DOMAIN n) \cup
    Compatible("status-added", DOMAIN n \ DOMAIN o) \cup
    UNION {CompareSchema(c, "response", ToOld(c, OrNil(o[s])), ToNew(c, OrNil(n[s]))) :
             s \in DOMAIN o \cap DOMAIN n}

CompareOperation(c, op, np) ==
    Compatible("operation-deprecated", IF np.deprecated /\ ~ op.deprecated THEN {"deprecated"} ELSE {}) \cup
    CompareParameters(c, op, np) \cup CompareRequestBody(c, op, np) \cup CompareResponses(c, op, np)

(* The changes of every operation, each with its key.                      *)
Compare(old, new) ==
    LET c == [old |-> old, new |-> new]
        at(k, changes) == {<<k, ch>> : ch \in changes}
    IN UNION {at(k, IF k \in DOMAIN new.ops THEN CompareOperation(c, old.ops[k], new.ops[k])
                    ELSE Breaking("endpoint-removed", {"endpoint"})) : k \in DOMAIN old.ops} \cup
       UNION {at(k, Changes("addition", "endpoint-added", {"endpoint"})) :
                k \in DOMAIN new.ops \ DOMAIN old.ops}
----------------------------------------------------------------------------
(* What a client sees of a document, without comparing anything.  A        *)
(* request is [op, params, body], an answer [op, status, body]; a value is *)
(* judged as the checker judges one.                                       *)
Accepts(doc, r) ==
    /\ r.op \in DOMAIN doc.ops
    /\ LET op == doc.ops[r.op] params == ParamMap(op.params) IN
       /\ \A k \in DOMAIN params :
            IF k \in DOMAIN r.params THEN Check(doc.components, params[k].schema, r.params[k]) = {}
            ELSE ~ params[k].required
       /\ Check(doc.components, OrNil(op.body), r.body) = {}

Promises(doc, a) ==
    /\ a.op \in DOMAIN doc.ops
    /\ a.status \in DOMAIN doc.ops[a.op].responses
    /\ LET s == OrNil(doc.ops[a.op].responses[a.status]) IN
       Check(doc.components, s, a.body) = {} /\ Undocumented(doc.components, s, a.body) = {}

Understands(doc, a) ==
    a.status \in DOMAIN doc.ops[a.op].responses =>
        Check(doc.components, OrNil(doc.ops[a.op].responses[a.status]), a.body) = {}

(* Who relied on one document is served by another: what the one accepted  *)
(* the other accepts, and what the other may answer can be understood by   *)
(* who knows the one.                                                      *)
Requests(doc) ==
    UNION {[op : {k}, params : [DOMAIN ParamMap(doc.ops[k].params) -> Arguments], body : Bodies] :
             k \in DOMAIN doc.ops}
Without(r) == {[r EXCEPT !.params = [k \in S |-> r.params[k]]] : S \in SUBSET DOMAIN r.params}
Answers(doc) ==
    UNION {[op : {k}, status : DOMAIN doc.ops[k].responses, body : Bodies] : k \in DOMAIN doc.ops}
ServesClientsOf(old, new) ==
    /\ \A r \in Requests(old) : \A q \in Without(r) : Accepts(old, q) => Accepts(new, q)
    /\ \A a \in Answers(new) :
          a.op \in DOMAIN old.ops /\ Promises(new, a) => Understands(old, a)
============================================================================
