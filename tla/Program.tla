------------------------------- MODULE Program -------------------------------
(***************************************************************************)
(* The Go code a scan reads, as far as it registers routes.  A program is  *)
(*   [fw, fns, code, param, outer, consts, decls, types]:                  *)
(* its router, its functions in file order (each in a file of its own),    *)
(* the statements of each, the name each gives the router it is handed,    *)
(* the function a literal is written in ("" for a declaration), the string *)
(* constants, the handler declarations and the fields of each struct.      *)
(* A path is a sequence of segments <<kind, name>>; a path expression      *)
(* [v, lit] is the variable v ("" for none, "?" for a value only a run     *)
(* knows) followed by literal segments.                                    *)
(***************************************************************************)
EXTENDS Naturals, Sequences, SequencesExt, FiniteSets, FiniteSetsExt

Lit(s) == <<"lit", s>>
Par(s) == <<"par", s>>
Path(segs) == [v |-> "", lit |-> segs]
Under(v, segs) == [v |-> v, lit |-> segs]

New(var, mw) == [op |-> "new", var |-> var, mw |-> mw]
Group(var, on, path, mw) == [op |-> "group", var |-> var, on |-> on, path |-> path, mw |-> mw]
Use(on, mw) == [op |-> "use", on |-> on, mw |-> mw]
Route(on, verbs, path, mw, h) ==
  [op |-> "route", on |-> on, verbs |-> verbs, path |-> path, mw |-> mw, h |-> h]
Block(on, path, mw, fn) == [op |-> "block", on |-> on, path |-> path, mw |-> mw, fn |-> fn]
Call(fn, on) == [op |-> "call", fn |-> fn, on |-> on, sub |-> FALSE, path |-> Path(<<>>)]
CallSub(fn, on, path) == [op |-> "call", fn |-> fn, on |-> on, sub |-> TRUE, path |-> path]
Mount(on, path, var, mw) == [op |-> "mount", on |-> on, path |-> path, var |-> var, mw |-> mw]
Serve(on, mw) == [op |-> "serve", on |-> on, mw |-> mw]
Let(var, path) == [op |-> "let", var |-> var, path |-> path, inner |-> FALSE]
InnerLet(var, path) == [op |-> "let", var |-> var, path |-> path, inner |-> TRUE]

Stmt(p, s) == p.code[s[1]][s[2]]
\* Where a statement stands in the order the files are read.
Pos(p, s) == 100 * SelectInSeq(p.fns, LAMBDA f : f = s[1]) + s[2]
\* The statements of one kind, in that order.
Sites(p, op) ==
  SelectSeq(FlattenSeq([k \in 1 .. Len(p.fns) |->
              [i \in 1 .. Len(p.code[p.fns[k]]) |-> <<p.fns[k], i>>]]),
            LAMBDA s : Stmt(p, s).op = op)
=============================================================================
