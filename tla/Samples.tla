------------------------------ MODULE Samples ------------------------------
(***************************************************************************)
(* From a schema to a value and back: the sample the mock serves           *)
(* (internal/mock/sample.go) and the schema the learner infers from a body *)
(* (internal/proxy/learn.go).  Formats, lengths and bounds are left out of *)
(* a sample: the checker knows nothing of them.                            *)
(***************************************************************************)
EXTENDS Mock, Conform

CONSTANTS WholeTexts,   \* text ParseInt accepts -> how the number prints
          FloatTexts,   \* other text ParseFloat accepts -> how it prints
          BoolTexts,    \* text ParseBool accepts -> "true" or "false"
          NoNumber      \* prints of a float that JSON cannot hold

MaxDepth == 20

(* A path parameter as the type a schema declares, if it can be one.       *)
\* variant of Coerce, with a slip
CoerceRaw(s, raw) == <<Scalar("string", raw)>>
Coerce(s, raw) ==
    CASE s.type = "integer" /\ raw \in DOMAIN WholeTexts ->
            <<Scalar("number", WholeTexts[raw])>>
      [] s.type = "number" /\ raw \in DOMAIN (WholeTexts @@ FloatTexts) ->
            <<Scalar("number", (WholeTexts @@ FloatTexts)[raw])>>
      [] s.type = "boolean" /\ raw \in DOMAIN BoolTexts ->
            <<Scalar("boolean", BoolTexts[raw])>>
      [] s.type \in {"", "string", "nil"} /\
            (s.enum = << >> \/ Scalar("string", raw) \in ToSet(s.enum)) ->
            <<Scalar("string", raw)>>
      [] OTHER -> << >>

RECURSIVE SampleIn(_, _, _, _, _)
(* seen: the components being sampled, depth: how deep; both end a cycle.  *)
SampleIn(components, s, params, seen, depth) ==
    LET down(sub) == SampleIn(components, sub, params, seen, depth + 1)
        echo(n)   == IF n \in DOMAIN params THEN Coerce(s.props[n], params[n]) ELSE << >>
        part(i)   == down(s.allOf[i])
        fill(flds, i) == IF part(i).kind = "object" THEN part(i).fields @@ flds ELSE flds
    IN CASE IsNil(s) \/ depth > MaxDepth -> Null
         [] s.ref # "" ->
              CASE s.ref \in seen -> Null
                [] s.ref \notin DOMAIN components -> Object(<< >>)
                [] OTHER -> SampleIn(components, components[s.ref], params,
                                     seen \cup {s.ref}, depth + 1)
         [] s.allOf # << >> ->
              Object([n \in DOMAIN s.props |-> down(s.props[n])] @@
                     FoldLeft(fill, << >>, [i \in DOMAIN s.allOf |-> i]))
         [] s.example # << >> -> s.example[1]
         [] s.enum # << >> -> s.enum[1]
         [] s.type = "object" ->
              Object([n \in DOMAIN s.props |->
                        IF echo(n) = << >> THEN down(s.props[n]) ELSE echo(n)[1]])
         [] s.type = "array"   -> List(<<down(OrNil(s.items))>>)
         [] s.type = "integer" -> Scalar("number", "1")
         [] s.type = "number"  -> Scalar("number", "1.5")
         [] s.type = "boolean" -> Scalar("boolean", "true")
         [] s.type = "string"  -> Scalar("string", "string")
         [] OTHER -> Null

Sample(components, s, params) == SampleIn(components, s, params, {}, 0)

RECURSIVE HoldsNoNumber(_)
(* The encoder refuses such a value after the header is out: no body.      *)
HoldsNoNumber(v) ==
    \/ v.kind = "number" /\ v.text \in NoNumber
    \/ \E i \in DOMAIN v.items : HoldsNoNumber(v.items[i])
    \/ \E n \in DOMAIN v.fields : HoldsNoNumber(v.fields[n])
Encoded(v) == IF HoldsNoNumber(v) THEN NoBody ELSE v
EncodedSample(components, s, params) == Encoded(Sample(components, s, params))
----------------------------------------------------------------------------
RECURSIVE InferSchema(_)
(* The schema of one value; what it held is required, a null says nothing. *)
InferSchema(v) ==
    LET said == {n \in DOMAIN v.fields : v.fields[n].kind # "null"}
        typed(type) == [Untyped EXCEPT !.type = type]
    IN CASE v.kind = "number" -> typed(IF v.text \in Fractions THEN "number" ELSE "integer")
         [] v.kind \in {"boolean", "string"} -> typed(v.kind)
         [] v.kind = "array" ->
              [typed("array") EXCEPT
                 !.items = IF v.items = << >> THEN << >> ELSE Opt(InferSchema(v.items[1]))]
         [] v.kind = "object" ->
              [typed("object") EXCEPT !.props = [n \in said |-> InferSchema(v.fields[n])],
                                      !.required = said]
         [] OTHER -> NoSchema

RECURSIVE Homogeneous(_)
(* Every element of every array has the first one's schema, and no member  *)
(* is null: a sample from which the whole schema can be inferred.          *)
Homogeneous(v) ==
    /\ v.kind # "null"
    /\ \A i \in DOMAIN v.items :
         Homogeneous(v.items[i]) /\ InferSchema(v.items[i]) = InferSchema(v.items[1])
    /\ \A n \in DOMAIN v.fields : Homogeneous(v.fields[n])
============================================================================
