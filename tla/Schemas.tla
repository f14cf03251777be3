------------------------------ MODULE Schemas ------------------------------
(***************************************************************************)
(* Decoded JSON values and the schemas a document gives for them.          *)
(*                                                                         *)
(* A value has one shape whatever its kind: "text" is how fmt prints a     *)
(* scalar, "items" an array's elements, "fields" an object's members.      *)
(***************************************************************************)
EXTENDS Naturals, Sequences

Scalar(kind, text) == [kind |-> kind, text |-> text, items |-> << >>, fields |-> << >>]
Null         == Scalar("null", "<nil>")
List(items)  == [Scalar("array", "[...]") EXCEPT !.items = items]
Object(flds) == [Scalar("object", "map[...]") EXCEPT !.fields = flds]

(* Schema: core.Schema's part that the checker, the mock and the learner   *)
(* use.  A pointer that may be nil is a sequence of none or one.           *)
Untyped == [ref |-> "", type |-> "", items |-> << >>, props |-> << >>, required |-> {},
            enum |-> << >>, allOf |-> << >>, example |-> << >>]
NoSchema == [Untyped EXCEPT !.type = "nil"]
IsNil(s) == s.type = "nil"
OrNil(option) == IF option = << >> THEN NoSchema ELSE option[1]
Opt(s) == IF IsNil(s) THEN << >> ELSE <<s>>
============================================================================
