-------------------------------- MODULE Sdk --------------------------------
(***************************************************************************)
(* The clients spector generates from a document (internal/sdk), by what a *)
(* call of one does: the request its methods send, how its runtime takes   *)
(* the answer, and what becomes of a value that is read into its types and *)
(* written back.  TypeScript and JavaScript hand the parsed JSON through;  *)
(* the other languages decode it into types and encode those.              *)
(*                                                                         *)
(* An operation of a client is [name, method, path, pathParams, body,      *)
(* result]; body and result are none or one schema.  Summaries, query      *)
(* arguments and the spelling of identifiers are left out.                 *)
(***************************************************************************)
EXTENDS Route, Conform

CONSTANTS Pieces,    \* argument -> the segments it is, put into a path as it is
          Escaped,   \* argument -> the segments it is, escaped, once the server has decoded the path
          EmptyBody, \* an empty body
          Garbled    \* a body that is not JSON

Langs == {"go", "ts", "js", "python", "ruby", "php", "csharp", "rust", "kotlin", "java"}
----------------------------------------------------------------------------
(* The document flattened into operations.                                 *)
JsonSchemaOf(r) == r.content
SuccessSchema(op) ==
    LET carrying == {code \in DOMAIN op.responses \cap 200 .. 299 :
                       JsonSchemaOf(op.responses[code]) # << >>}
    IN CASE carrying # {} -> JsonSchemaOf(op.responses[CHOOSE c \in carrying :
                                            \A d \in carrying : c <= d])
         [] 0 \in DOMAIN op.responses -> JsonSchemaOf(op.responses[0])
         [] OTHER -> << >>

Operation(paths, rt) ==
    LET op == paths[rt.path][rt.method] IN
    [method |-> rt.method, path |-> rt.path, body |-> op.body, result |-> SuccessSchema(op),
     pathParams |-> {p.name : p \in {q \in ToSet(op.params) : q.in = "path"}}]
Flatten(paths) == {Operation(paths, rt) : rt \in {r \in RoutesOf(paths) : Documents(paths, r)}}

(* Which components become classes, and the fields of those.               *)
IsStruct(s) == DOMAIN s.props # {} \/ s.allOf # << >>
IsAlias(s)  == /\ Len(s.allOf) = 1 /\ DOMAIN s.props = {}
               /\ s.type # "object" /\ s.allOf[1].ref # ""
Classed(components, s) ==
    /\ s.ref \in DOMAIN components
    /\ IsStruct(components[s.ref]) /\ ~ IsAlias(components[s.ref])

OwnFields(s) == [n \in DOMAIN s.props |-> [schema |-> s.props[n], required |-> n \in s.required]]
\* variant of ResolvedFields, with a slip
ResolvedFieldsOwn(components, s) == OwnFields(s)
RECURSIVE ResolvedFields(_, _)
(* The composed parts' fields first; of two with one name the first stays. *)
ResolvedFields(components, s) ==
    LET base(a) == IF a.ref \in DOMAIN components THEN components[a.ref] ELSE a
    IN FoldLeft(LAMBDA known, a : known @@ ResolvedFields(components, base(a)), << >>, s.allOf)
       @@ OwnFields(s)

RECURSIVE GoPromoted(_, _, _)
(* Go embeds the parts given by reference, via being the way down to one;  *)
(* an alias is the type itself.                                            *)
GoPromoted(components, s, via) ==
    LET parts == {a.ref : a \in ToSet(s.allOf)} \cap DOMAIN components
        below(r) == GoPromoted(components, components[r], IF IsAlias(s) THEN via ELSE Append(via, r))
    IN {[name |-> n, via |-> via, field |-> OwnFields(s)[n]] : n \in DOMAIN s.props}
       \cup UNION {below(r) : r \in parts}
(* The shallowest field of a name is promoted; of two as deep, neither is. *)
GoFields(components, s) ==
    LET all == GoPromoted(components, s, << >>)
        nearest(n) == {f \in all : f.name = n /\ \A g \in all : g.name = n => Len(f.via) <= Len(g.via)}
        lone == {n \in {f.name : f \in all} : Cardinality(nearest(n)) = 1}
    IN [n \in lone |-> (CHOOSE f \in nearest(n) : TRUE).field]

Fields(lang, components, s) ==
    IF lang = "go" THEN GoFields(components, s) ELSE ResolvedFields(components, s)
----------------------------------------------------------------------------
(* Reading a member of schema s that the answer leaves out or gives as     *)
(* null, and writing it again: what is on the wire then, Absent if nothing *)
(* is.  Every language has its own idea; a struct is left to Resent.       *)
Absent == Scalar("absent", "")
IsMissing(v) == v.kind \in {"absent", "null"}
IsList(s) == s.type = "array" /\ s.items # << >>
Zero(s) ==
    CASE s.type = "string"  -> Scalar("string", "")
      [] s.type \in {"integer", "number"} -> Scalar("number", "0")
      [] s.type = "boolean" -> Scalar("boolean", "false")
      [] OTHER -> Null

GoUnread(s)     == Zero(s)
\* variant of PyUnread, with a slip
PyUnreadDefault(s) == IF IsList(s) THEN List(<< >>) ELSE Zero(s)
PyUnread(s)     == IF IsList(s) THEN List(<< >>) ELSE Null
RubyUnread(s)   == IF IsList(s) THEN List(<< >>) ELSE Null
PhpUnread(s)    == IF IsList(s) THEN List(<< >>) ELSE Null
CsUnread        == Absent
RustUnread(required) == IF required THEN Null ELSE Absent
KotlinUnread(s) == IF s.type = "array" THEN List(<< >>) ELSE Zero(s)
JavaUnread(s)   == CASE s.type = "array"  -> List(<< >>)
                     [] s.type = "string" -> Null
                     [] OTHER -> Zero(s)

Unread(lang, s, required) ==
    CASE lang = "go"     -> GoUnread(s)
      [] lang = "python" -> PyUnread(s)
      [] lang = "ruby"   -> RubyUnread(s)
      [] lang = "php"    -> PhpUnread(s)
      [] lang = "csharp" -> CsUnread
      [] lang = "rust"   -> RustUnread(required)
      [] lang = "kotlin" -> KotlinUnread(s)
      [] lang = "java"   -> JavaUnread(s)

(* Go drops an optional field that is empty for its type: nothing, a zero, *)
(* a list or map without members; a struct never is, nor what an any holds.*)
GoEmpty(s) ==
    CASE s.type = "array"  -> {List(<< >>)}
      [] s.type = "object" -> {Object(<< >>)}
      [] OTHER -> {Zero(s)}
GoOmits(s, required, v) == ~ required /\ (IsMissing(v) \/ v \in GoEmpty(s))
(* PHP decodes an object without members into the array an empty list is.  *)
PhpPlain(v) == IF v = Object(<< >>) THEN List(<< >>) ELSE v

(* The schema a reference is typed by: some languages see through an alias,*)
(* the others pass the value of one on as it is.                           *)
Target(lang, components, s) ==
    LET t == components[s.ref]
    IN IF IsAlias(t) /\ lang \in {"go", "rust", "kotlin", "java"} THEN t.allOf[1] ELSE t

Member(v, n) == IF n \in DOMAIN v.fields THEN v.fields[n] ELSE Absent

(* A struct of each language on its way back, sent being its members.  Go  *)
(* and Kotlin hold one by value and make it up if it was not there.        *)
Present(sent) == [n \in {m \in DOMAIN sent : sent[m] # Absent} |-> sent[n]]
GoStruct(v, sent)     == Object(Present(sent))
PyStruct(v, sent)     == IF IsMissing(v) THEN Null ELSE Object(sent)
RubyStruct(v, sent)   == IF IsMissing(v) THEN Null ELSE Object(sent)
PhpStruct(v, sent)    == IF IsMissing(v) THEN Null ELSE Object(sent)
CsStruct(v, sent)     == IF IsMissing(v) THEN Absent ELSE Object(Present(sent))
RustStruct(v, required, sent) == IF IsMissing(v) THEN RustUnread(required) ELSE Object(Present(sent))
KotlinStruct(v, sent) == Object(sent)
JavaStruct(v, sent)   == IF IsMissing(v) THEN Null ELSE Object(sent)

StructOf(lang, v, required, sent) ==
    CASE lang = "go"     -> GoStruct(v, sent)
      [] lang = "python" -> PyStruct(v, sent)
      [] lang = "ruby"   -> RubyStruct(v, sent)
      [] lang = "php"    -> PhpStruct(v, sent)
      [] lang = "csharp" -> CsStruct(v, sent)
      [] lang = "rust"   -> RustStruct(v, required, sent)
      [] lang = "kotlin" -> KotlinStruct(v, sent)
      [] lang = "java"   -> JavaStruct(v, sent)

RECURSIVE Resent(_, _, _, _, _)
(* What goes back for what was read. *)
Resent(lang, components, s, required, v) ==
    LET fields == Fields(lang, components, components[s.ref])
        sent   == [n \in DOMAIN fields |->
                     Resent(lang, components, fields[n].schema, fields[n].required, Member(v, n))]
        typed  == CASE Classed(components, s) -> StructOf(lang, v, required, sent)
                    [] s.ref \in DOMAIN components ->
                         Resent(lang, components, Target(lang, components, s), required, v)
                    [] IsMissing(v) -> Unread(lang, s, required)
                    [] IsList(s) -> List([i \in DOMAIN v.items |->
                                             Resent(lang, components, s.items[1], TRUE, v.items[i])])
                    [] lang = "php" -> PhpPlain(v)
                    [] OTHER -> v
    IN CASE lang \in {"ts", "js"} -> v
         [] lang = "go" /\ GoOmits(s, required, typed) -> Absent
         [] OTHER -> typed

(* Reading fails where a type has no place for what is missing.            *)
FreeForm(s) == s.ref = "" /\ s.type \in {"object", ""}
RustTakes(s, required, v)   == required => v.kind # "absent" /\ (v.kind = "null" => FreeForm(s))
KotlinTakes(s, v)           == v.kind = "null" => FreeForm(s)
PhpTakes(s, required, v)    == required /\ IsMissing(v) => IsList(s) \/ (s.ref = "" /\ s.type = "")
Takes(lang, s, required, v) == CASE lang = "rust"   -> RustTakes(s, required, v)
                                 [] lang = "kotlin" -> KotlinTakes(s, v)
                                 [] lang = "php"    -> PhpTakes(s, required, v)
                                 [] OTHER -> TRUE

RECURSIVE Reads(_, _, _, _, _)
Reads(lang, components, s, required, v) ==
    LET fields == Fields(lang, components, components[s.ref]) IN
    /\ Takes(lang, s, required, v)
    /\ \/ IsMissing(v)
       \/ Classed(components, s) /\ \A n \in DOMAIN fields :
             Reads(lang, components, fields[n].schema, fields[n].required, Member(v, n))
       \/ IsList(s) /\ \A i \in DOMAIN v.items : Reads(lang, components, s.items[1], TRUE, v.items[i])
       \/ ~ Classed(components, s) /\ ~ IsList(s)
----------------------------------------------------------------------------
(* Whether what was generated compiles: a type may not hold itself by      *)
(* value, and where only structs become classes a reference to anything    *)
(* else names a class nobody declares.  Kotlin's defaults never end.       *)
HeldBy(s) == {s.ref} \cup {s.props[n].ref : n \in DOMAIN s.props} \cup {a.ref : a \in ToSet(s.allOf)}
RECURSIVE Below(_, _, _)
Below(components, name, seen) ==
    LET next == (HeldBy(components[name]) \cap DOMAIN components) \ seen
    IN FoldSet(LAMBDA n, acc : Below(components, n, acc \cup next), seen, next)
HoldsItself(components) == \E n \in DOMAIN components : n \in Below(components, n, {})
ListedBy(s) == UNION {{i.ref : i \in ToSet(s.props[n].items)} : n \in DOMAIN s.props}
OnlyClasses(components) ==
    \A n \in DOMAIN components :
      \A r \in (HeldBy(components[n]) \cup ListedBy(components[n])) \cap DOMAIN components :
        Classed(components, [Untyped EXCEPT !.ref = r])

GoBuilds(components)     == ~ HoldsItself(components)
RustBuilds(components)   == ~ HoldsItself(components)
KotlinBuilds(components) == ~ HoldsItself(components)
CsBuilds(components)     == OnlyClasses(components)
PhpRuns(components)      == OnlyClasses(components)
Builds(lang, components) ==
    CASE lang = "go"     -> GoBuilds(components)
      [] lang = "rust"   -> RustBuilds(components)
      [] lang = "kotlin" -> KotlinBuilds(components)
      [] lang = "csharp" -> CsBuilds(components)
      [] lang = "php"    -> PhpRuns(components)
      [] OTHER -> TRUE
----------------------------------------------------------------------------
(* What a method of each client asks for with its arguments, as the server *)
(* reads it.  Only Go escapes an argument: what would end the path stays   *)
(* in it.  A slash is a slash again when the server has decoded the path.  *)
Request(op, path) == [method |-> op.method, path |-> path, body |-> op.body # << >>]
Placed(op, seg) == IsParam(seg) /\ Params[seg] \in op.pathParams
Spliced(op, args, pieces) ==
    FlattenSeq([i \in DOMAIN op.path |->
        IF Placed(op, op.path[i]) THEN pieces[args[Params[op.path[i]]]] ELSE <<op.path[i]>>])
\* variant of GoMethod, with a slip
GoMethodBare(op, args) == Request(op, Spliced(op, args, Pieces))
GoMethod(op, args)     == Request(op, Spliced(op, args, Escaped))
TsMethod(op, args)     == Request(op, Spliced(op, args, Pieces))
JsMethod(op, args)     == Request(op, Spliced(op, args, Pieces))
PyMethod(op, args)     == Request(op, Spliced(op, args, Pieces))
RubyMethod(op, args)   == Request(op, Spliced(op, args, Pieces))
PhpMethod(op, args)    == Request(op, Spliced(op, args, Pieces))
CsMethod(op, args)     == Request(op, Spliced(op, args, Pieces))
RustMethod(op, args)   == Request(op, Spliced(op, args, Pieces))
KotlinMethod(op, args) == Request(op, Spliced(op, args, Pieces))
JavaMethod(op, args)   == Request(op, Spliced(op, args, Pieces))

Method(lang, op, args) ==
    CASE lang = "go"     -> GoMethod(op, args)
      [] lang = "ts"     -> TsMethod(op, args)
      [] lang = "js"     -> JsMethod(op, args)
      [] lang = "python" -> PyMethod(op, args)
      [] lang = "ruby"   -> RubyMethod(op, args)
      [] lang = "php"    -> PhpMethod(op, args)
      [] lang = "csharp" -> CsMethod(op, args)
      [] lang = "rust"   -> RustMethod(op, args)
      [] lang = "kotlin" -> KotlinMethod(op, args)
      [] lang = "java"   -> JavaMethod(op, args)
----------------------------------------------------------------------------
(* How each runtime takes an answer [status, body] to an operation with a  *)
(* result: the call returns a value, fails with the error that carries the *)
(* status, or breaks with something else.  The order of parsing and looking*)
(* at the status differs.                                                  *)
Good(status) == status \in 200 .. 299
Returned(v) == [kind |-> "returned", value |-> v, status |-> 200]
ApiError(status, v) == [kind |-> "apiError", value |-> v, status |-> status]
Broken == [kind |-> "broken", value |-> Absent, status |-> 0]
Parsed(a) == IF a.body = EmptyBody THEN Null ELSE a.body

(* What a Go method returns when nothing was written into its result, as  *)
(* for no body at all: the zero of the type, for a struct one that no      *)
(* member was read into.                                                   *)
GoResult(components, s) ==
    LET t == IF s.ref \in DOMAIN components THEN Target("go", components, s) ELSE s
    IN IF Classed(components, s) \/ Classed(components, t) THEN Object(<< >>) ELSE Zero(t)
\* variant of GoDo, with a slip
GoDoEager(components, s, a) ==
    CASE a.body = Garbled   -> Broken
      [] ~ Good(a.status)   -> ApiError(a.status, a.body)
      [] Parsed(a) = Null   -> Returned(GoResult(components, s))
      [] OTHER              -> Returned(a.body)
GoDo(components, s, a) ==
    CASE ~ Good(a.status)   -> ApiError(a.status, a.body)
      [] a.body = Garbled   -> Broken
      [] Parsed(a) = Null   -> Returned(GoResult(components, s))
      [] OTHER              -> Returned(a.body)
TsRequest(a) ==
    CASE a.body = Garbled   -> Broken
      [] ~ Good(a.status)   -> ApiError(a.status, Parsed(a))
      [] OTHER              -> Returned(Parsed(a))
JsRequest(a) == TsRequest(a)
PyRequest(a) ==
    CASE ~ Good(a.status)   -> ApiError(a.status, Parsed(a))
      [] a.body = Garbled   -> Broken
      [] OTHER              -> Returned(Parsed(a))
RubyRequest(a) ==
    CASE a.body = Garbled   -> Broken
      [] ~ Good(a.status)   -> ApiError(a.status, Parsed(a))
      [] OTHER              -> Returned(Parsed(a))
PhpRequest(a) ==
    LET data == IF a.body = Garbled THEN Null ELSE Parsed(a)
    IN IF Good(a.status) THEN Returned(data) ELSE ApiError(a.status, data)
CsRequest(a) ==
    CASE ~ Good(a.status)   -> ApiError(a.status, Parsed(a))
      [] a.body = Garbled   -> Broken
      [] OTHER              -> Returned(Parsed(a))
(* A body that is no JSON, or none, is null, and null is no struct.        *)
RustRequest(a) ==
    LET data == IF a.body = Garbled THEN Null ELSE Parsed(a)
    IN CASE ~ Good(a.status) -> ApiError(a.status, data)
         [] data = Null -> Broken
         [] OTHER -> Returned(data)
KotlinRequest(a) ==
    CASE ~ Good(a.status) -> ApiError(a.status, a.body)
      [] a.body = Garbled \/ Parsed(a) = Null -> Broken
      [] OTHER -> Returned(a.body)
JavaRequest(a) ==
    CASE a.body = Garbled   -> Broken
      [] ~ Good(a.status)   -> ApiError(a.status, Parsed(a))
      [] OTHER              -> Returned(Parsed(a))

Taken(lang, components, s, a) ==
    CASE lang = "go"     -> GoDo(components, s, a)
      [] lang = "ts"     -> TsRequest(a)
      [] lang = "js"     -> JsRequest(a)
      [] lang = "python" -> PyRequest(a)
      [] lang = "ruby"   -> RubyRequest(a)
      [] lang = "php"    -> PhpRequest(a)
      [] lang = "csharp" -> CsRequest(a)
      [] lang = "rust"   -> RustRequest(a)
      [] lang = "kotlin" -> KotlinRequest(a)
      [] lang = "java"   -> JavaRequest(a)
============================================================================
