------------------------------ MODULE Conform ------------------------------
(***************************************************************************)
(* Comparing a decoded JSON value with the schema a document gives for it  *)
(* (internal/conform): the one checker the proxy and the generated         *)
(* contract tests run.  A problem is the place where it was met and what   *)
(* is wrong there; the wording, and the index in a place inside an array,  *)
(* are left out.                                                           *)
(***************************************************************************)
EXTENDS Schemas, SequencesExt, TLC

CONSTANT Fractions   \* texts of numbers that are not whole

RECURSIVE Follow(_, _, _)
(* A $ref followed at most "hops" times; a name nobody defined is nil.     *)
Follow(components, s, hops) ==
    IF s.ref = "" \/ hops = 0 THEN s
    ELSE Follow(components, IF s.ref \in DOMAIN components THEN components[s.ref] ELSE NoSchema,
                hops - 1)

MaxHops == 10
Deref(components, s) == Follow(components, s, MaxHops)

(* What a type says of the kind of a value; anything else is not checked.  *)
KindFits(type, v) ==
    CASE type = "string"  -> v.kind = "string"
      [] type = "number"  -> v.kind = "number"
      [] type = "integer" -> v.kind = "number" /\ v.text \notin Fractions
      [] type = "boolean" -> v.kind = "boolean"
      [] type = "array"   -> v.kind = "array"
      [] type = "object"  -> v.kind = "object"
      [] OTHER            -> TRUE

RECURSIVE CheckIn(_, _, _, _, _)
(* "applied" holds the schemas already applied to this same value through  *)
(* allOf, and ends a cycle of them.                                        *)
CheckIn(components, schema, v, place, applied) ==
    LET s == Deref(components, schema)
        in(sub, x, step) == CheckIn(components, sub, x, Append(place, step), {})
        missing == {<<Append(place, n), "missing">> : n \in s.required \ DOMAIN v.fields}
        members == UNION {in(s.props[n], v.fields[n], n) : n \in DOMAIN s.props \cap DOMAIN v.fields}
        parts   == UNION {CheckIn(components, s.allOf[i], v, place, applied \cup {s}) :
                            i \in DOMAIN s.allOf}
    IN CASE s \in applied \/ IsNil(s) \/ v.kind = "null" -> {}
         [] s.enum # << >> /\ \A i \in DOMAIN s.enum : s.enum[i].text # v.text ->
                {<<place, "not a documented value">>}
         [] ~ KindFits(s.type, v) -> {<<place, "kind">>}
         [] s.type = "array" ->
                UNION {in(OrNil(s.items), v.items[i], "[]") : i \in DOMAIN v.items}
         [] s.type \in {"object", ""} /\ v.kind = "object" -> missing \cup members \cup parts
         [] OTHER -> {}

Check(components, schema, v) == CheckIn(components, schema, v, << >>, {})

RECURSIVE Gather(_, _, _)
(* The properties a schema documents, its own and those of its parts; a    *)
(* later part's win.  acc: [known |-> found so far, seen |-> visited].     *)
Gather(components, s, acc) ==
    IF IsNil(s) \/ s \in acc.seen THEN acc
    ELSE FoldLeft(LAMBDA a, part : Gather(components, Deref(components, part), a),
                  [known |-> s.props @@ acc.known, seen |-> acc.seen \cup {s}], s.allOf)
DocumentedProperties(components, s) == Gather(components, s, [known |-> << >>, seen |-> {}]).known

RECURSIVE UndocumentedIn(_, _, _, _)
(* Members the schema does not mention; of an array only the first element *)
(* is looked at.                                                           *)
UndocumentedIn(components, schema, v, place) ==
    LET s == Deref(components, schema)
        known == DocumentedProperties(components, s)
    IN CASE IsNil(s) -> {}
         [] v.kind = "array" /\ v.items # << >> ->
                UndocumentedIn(components, OrNil(s.items), v.items[1], Append(place, "[]"))
         [] v.kind = "object" /\ ~ (s.props = << >> /\ s.allOf = << >>) ->
                {<<Append(place, n), "undocumented">> : n \in DOMAIN v.fields \ DOMAIN known} \cup
                UNION {UndocumentedIn(components, known[n], v.fields[n], Append(place, n)) :
                         n \in DOMAIN v.fields \cap DOMAIN known}
         [] OTHER -> {}

Undocumented(components, schema, v) == UndocumentedIn(components, schema, v, << >>)
============================================================================
