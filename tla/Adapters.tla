------------------------------ MODULE Adapters ------------------------------
(***************************************************************************)
(* The routes a scan finds, for each of the eight routers.  Four name a    *)
(* group with a variable (gin, echo, fiber, gorilla/mux), two scope it to  *)
(* a closure (chi, bunrouter), two wrap handlers (net/http, httprouter).   *)
(* A scan yields [routes, diags]: a sequence of                            *)
(* [verb, path, mw, h, at] and the places it could not read.               *)
(***************************************************************************)
EXTENDS Middleware, Index

ByVariable == {"gin", "echo", "fiber", "gorillamux"}
ByClosure == {"chi", "bunrouter"}

(***************************************************************************)
(* What a registration says: its methods and its path.                     *)
(***************************************************************************)
Common == <<"get", "post", "put", "patch", "delete">>
Methods == ToSet(Common) \union {"head", "options"}
Only(c, methods) == SelectSeq(c.verbs, LAMBDA v : v \in methods)
Says(verbs, mw, h) == [verbs |-> verbs, mw |-> mw, h |-> h]
\* gin has no word for any method here, and does not know OPTIONS.
GinRoute(c) == Says(Only(c, Methods \ {"options"}), c.mw, c.h.e)
EchoRoute(c) == Says(IF c.verbs = <<"any">> THEN Common ELSE Only(c, Methods), c.mw, c.h.e)
FiberRoute(c) == Says(IF c.verbs = <<"any">> THEN Common ELSE Only(c, Methods), c.mw, c.h.e)
\* A route without Methods answers everything, and get is said; what wraps a
\* handler is not looked at.
GorillaRoute(c) == Says(IF c.verbs = <<>> THEN <<"get">> ELSE Only(c, Methods), <<>>, c.h.e)
ChiRoute(c) == Says(Only(c, Methods), c.mw, c.h.e)
BunrouterRoute(c) == Says(Only(c, Methods), c.mw, c.h.e)
\* Middleware is what a handler is wrapped in, plumbing apart.
StdlibTransparent(fun) ==
  fun[1] = "sel" /\ fun[2] = Id("http") /\ fun[3] \in {"HandlerFunc", "StripPrefix", "Handler"}
HttprouterTransparent(fun) ==
  \/ StdlibTransparent(fun)
  \/ fun[1] = "sel" /\ fun[2] = Id("httprouter") /\ fun[3] \in {"Handler", "HandlerFunc"}
RECURSIVE Unwrap(_, _)
Unwrap(fw, e) ==
  IF e[1] # "call" \/ e[3] = <<>> THEN [h |-> e, mw |-> <<>>] ELSE
  LET inner == Unwrap(fw, Last(e[3]))
      plumbing == IF fw = "stdlib" THEN StdlibTransparent(e[2]) ELSE HttprouterTransparent(e[2])
  IN  [inner EXCEPT !.mw = (IF plumbing THEN <<>> ELSE <<CalleeName(e[2])>>) \o @]
\* A pattern without a method is not read.
StdlibRoute(c) == LET u == Unwrap("stdlib", c.h.e) IN Says(Only(c, Methods), u.mw, u.h)
HttprouterRoute(c) == LET u == Unwrap("httprouter", c.h.e) IN Says(Only(c, Methods), u.mw, u.h)
Read(fw, c) ==
  CASE fw = "gin" -> GinRoute(c)
    [] fw = "echo" -> EchoRoute(c)
    [] fw = "fiber" -> FiberRoute(c)
    [] fw = "gorillamux" -> GorillaRoute(c)
    [] fw = "chi" -> ChiRoute(c)
    [] fw = "bunrouter" -> BunrouterRoute(c)
    [] fw = "stdlib" -> StdlibRoute(c)
    [] fw = "httprouter" -> HttprouterRoute(c)

\* A path segment in OpenAPI's spelling: an expression or a mark after the
\* name, the rest of a path with a name and without.
ColonSegment(seg) == IF seg[1] = "rest" THEN Par(seg[2]) ELSE seg
EchoSegment(seg) == IF seg[1] = "star" THEN Par("wildcard") ELSE ColonSegment(seg)
FiberSegment(seg) == CASE seg[1] = "opt" -> Par(seg[2])
                       [] seg[1] = "star" -> Par("wildcard")
                       [] OTHER -> seg
GorillaSegment(seg) == IF seg[1] = "re" THEN Par(seg[2]) ELSE seg
StdlibSegment(seg) == IF seg[1] = "rest" THEN Par(seg[2]) ELSE seg
\* chi's path is taken as it is written.
ChiSegment(seg) == CASE seg[1] = "re" -> Par(seg[2] \o ":[0-9]+")
                     [] seg[1] = "star" -> Lit("*")
                     [] OTHER -> seg
\* No path ends in a slash.
RECURSIVE Trimmed(_)
Trimmed(path) == IF path # <<>> /\ Last(path) = Lit("") THEN Trimmed(Front(path)) ELSE path
NormalizePath(fw, path) ==
  LET segment(seg) == CASE fw = "echo" -> EchoSegment(seg)
                        [] fw = "fiber" -> FiberSegment(seg)
                        [] fw = "gorillamux" -> GorillaSegment(seg)
                        [] fw = "stdlib" -> StdlibSegment(seg)
                        [] fw = "chi" -> ChiSegment(seg)
                        [] OTHER -> ColonSegment(seg)
  IN  [i \in 1 .. Len(path) |-> segment(path[i])]
Found(p, s, prefix, path, mw) ==
  LET said == Read(p.fw, Stmt(p, s))
  IN  [i \in DOMAIN said.verbs |->
         [verb |-> said.verbs[i], path |-> Trimmed(NormalizePath(p.fw, prefix \o path)),
          mw |-> mw, h |-> said.h, at |-> s]]

(***************************************************************************)
(* Group variables.  A name means what its function says it means; a group *)
(* handed to a function is known there by the parameter's name.            *)
(***************************************************************************)
GroupDefs(p, f, name, val) ==
  SelectSeq([i \in 1 .. Len(p.code[f]) |-> <<f, i>>],
            LAMBDA s : /\ Stmt(p, s).op = "group" /\ Stmt(p, s).var = name
                       /\ val[s].ok)
\* A variant of Prefix: a group's own segment only.
PrefixOfOne(p, params, f, name, seen, val) ==
  LET defs == GroupDefs(p, f, name, val)
  IN  IF <<f, name>> \in DOMAIN params THEN params[<<f, name>>]
      ELSE IF defs = <<>> THEN <<>> ELSE val[defs[1]].val
RECURSIVE Prefix(_, _, _, _, _, _)
Prefix(p, params, f, name, seen, val) ==
  LET defs == GroupDefs(p, f, name, val)
  IN  IF <<f, name>> \in DOMAIN params THEN params[<<f, name>>]
      ELSE IF defs = <<>> \/ name \in seen THEN <<>>
      ELSE Prefix(p, params, f, Stmt(p, defs[1]).on, seen \union {name}, val)
             \o val[defs[1]].val
Known(p, params, f, name, val) ==
  <<f, name>> \in DOMAIN params \/ GroupDefs(p, f, name, val) # <<>>
\* The prefix a call hands on, if its argument is a group.
GroupArgPrefix(p, params, s, val) ==
  LET on == Stmt(p, s).on
      arg(known, base) == IF Stmt(p, s).sub THEN IF val[s].ok THEN Value(base \o val[s].val) ELSE Masked
                          ELSE IF known THEN Value(base) ELSE Masked
      \* Prefix is empty for a name that is no group
  IN  arg(Known(p, params, s[1], on, val), Prefix(p, params, s[1], on, {}, val))
\* Call sites in file order, again until nothing new is known: the first
\* prefix a parameter gets stays.
RECURSIVE GroupParams(_, _, _)
GroupParams(p, params, val) ==
  LET give(acc, s, to, got) ==
        IF got.ok /\ to[1] # s[1] /\ to \notin DOMAIN acc THEN (to :> got.val) @@ acc ELSE acc
      pass(acc, s) == give(acc, s, <<Stmt(p, s).fn, p.param[Stmt(p, s).fn]>>, GroupArgPrefix(p, acc, s, val))
      again(next) == IF next = params THEN params ELSE GroupParams(p, next, val)
  IN  again(FoldLeft(pass, params, Sites(p, "call")))
\* A parameter given two prefixes is reported once, where it is first seen.
Conflicts(p, params, val) ==
  LET differs(s, f) == LET got == GroupArgPrefix(p, params, s, val) IN
        /\ Stmt(p, s).fn = f /\ got.ok /\ f # s[1]
        /\ params[<<f, p.param[f]>>] # got.val
      sites(f) == SelectSeq(Sites(p, "call"), LAMBDA s : differs(s, f))
  IN  {ss[1] : ss \in {sites(to[1]) : to \in DOMAIN params} \ {<<>>}}
ScanGroups(p, params, val) ==
  LET found(s) == LET path == val[s] r == Stmt(p, s) IN
        IF path.ok THEN Found(p, s, Prefix(p, params, s[1], r.on, {}, val), path.val,
                              For(p, r.on, Pos(p, s), Read(p.fw, r).mw))
        ELSE <<>>
      sites == Sites(p, "route")
      paths == sites \o Sites(p, "group") \o SelectSeq(Sites(p, "call"), LAMBDA s : Stmt(p, s).sub)
  IN  [routes |-> FlattenSeq([i \in 1 .. Len(sites) |-> found(sites[i])]),
       diags |-> {s \in ToSet(paths) : ~val[s].ok} \union Conflicts(p, params, val)]

ScanVariables(p, val) == ScanGroups(p, GroupParams(p, <<>>, val), val)

(***************************************************************************)
(* Closures: the walk carries the prefix, the middleware in scope and the  *)
(* names the router has inside them; every declared function is also       *)
(* walked on its own, at no prefix.                                        *)
(***************************************************************************)
\* Only a call of another package or of a value's method is followed: those
\* are the calls a program for these two routers has here.
Handoff(p, s, routers, entered) ==
  /\ Stmt(p, s).op = "call" /\ ~Stmt(p, s).sub
  /\ Stmt(p, s).on \in routers /\ Stmt(p, s).fn \notin entered
\* chi does not look at what a group closure hangs off.
GroupMiddleware(p, c) == IF p.fw = "bunrouter" THEN c.mw ELSE <<>>
RECURSIVE Collect(_, _, _, _, _, _, _)
Collect(p, f, prefix, scope, routers, entered, val) ==
  LET step(acc, i) ==
        LET s == <<f, i>>
            c == Stmt(p, s)
            into(inner) == [acc EXCEPT !.routes = @ \o inner.routes, !.diags = @ \union inner.diags]
            path == val[s]
            lost == [acc EXCEPT !.diags = @ \union {s}]
        IN  CASE c.op = "use" -> [acc EXCEPT !.scope = @ \o c.mw]
              [] c.op = "block" /\ path.ok ->
                   into(Collect(p, c.fn, prefix \o path.val, acc.scope \o GroupMiddleware(p, c),
                                routers \union {p.param[c.fn]}, entered, val))
              [] c.op = "block" /\ ~path.ok ->     \* the literal is read as if it stood here
                   LET inner == Collect(p, c.fn, prefix, acc.scope \o GroupMiddleware(p, c), routers, entered, val)
                   IN  [into(inner) EXCEPT !.scope = inner.scope, !.diags = @ \union {s}]
              [] Handoff(p, s, routers, entered) ->
                   into(Collect(p, c.fn, prefix, acc.scope, {p.param[c.fn]}, entered \union {c.fn}, val))
              [] c.op = "route" ->
                   IF path.ok THEN [acc EXCEPT !.routes = @ \o Found(p, s, prefix, path.val, Chain(acc.scope \o c.mw))]
                   ELSE lost
              [] OTHER -> acc
  IN  FoldLeft(step, [routes |-> <<>>, diags |-> {}, scope |-> scope], [i \in 1 .. Len(p.code[f]) |-> i])
ConstructorMiddleware(p, f) ==
  IF p.fw # "bunrouter" THEN <<>>
  ELSE LET news == SelectSeq(p.code[f], LAMBDA c : c.op = "new")
       IN  FlattenSeq([i \in 1 .. Len(news) |-> news[i].mw])
ScanClosures(p, val) ==
  LET tops == SelectSeq(p.fns, LAMBDA f : p.outer[f] = "")
      walks == [k \in 1 .. Len(tops) |-> Collect(p, tops[k], <<>>, ConstructorMiddleware(p, tops[k]), {}, {}, val)]
  IN  [routes |-> FlattenSeq([k \in 1 .. Len(tops) |-> walks[k].routes]),
       diags |-> UNION {walks[k].diags : k \in 1 .. Len(tops)}]

(***************************************************************************)
(* Wrapping: a sub-mux hangs where it is mounted, by name, up to the mux   *)
(* that is served; what wraps it there is in front of its routes.          *)
(***************************************************************************)
\* What wraps a router where it is served.
RouterWraps(p, var) ==
  LET sites == SelectSeq(Sites(p, "serve"), LAMBDA s : Stmt(p, s).on = var)
  IN  FlattenSeq([i \in 1 .. Len(sites) |-> Stmt(p, sites[i]).mw])
MountOf(p, var, val) ==
  SelectSeq(Sites(p, "mount"), LAMBDA s : Stmt(p, s).var = var /\ val[s].ok)
ServedBehind(p, var) == RouterWraps(p, var)
\* A variant of ResolveMount: a mount is followed once.
ResolveMountOnce(p, var, seen, val) ==
  LET ms == MountOf(p, var, val)
  IN  [prefix |-> IF ms = <<>> THEN <<>> ELSE val[Last(ms)].val,
       served |-> ServedBehind(p, var), wraps |-> IF ms = <<>> THEN <<>> ELSE Stmt(p, Last(ms)).mw]
RECURSIVE ResolveMount(_, _, _, _)
ResolveMount(p, var, seen, val) ==
  LET ms == MountOf(p, var, val)
      up == ResolveMount(p, Stmt(p, Last(ms)).on, seen \union {var}, val)
  IN  IF ms = <<>> \/ var \in seen THEN [prefix |-> <<>>, served |-> ServedBehind(p, var), wraps |-> <<>>]
      ELSE [prefix |-> up.prefix \o val[Last(ms)].val,
            served |-> up.served \o ServedBehind(p, var),
            wraps |-> up.wraps \o Stmt(p, Last(ms)).mw]
ScanWrapped(p, val) ==
  LET found(s) == LET r == Stmt(p, s) path == val[s]
                      up == IF p.fw = "stdlib" THEN ResolveMount(p, r.on, {}, val)
                            ELSE [prefix |-> <<>>, served |-> RouterWraps(p, r.on), wraps |-> <<>>]
                  IN  IF path.ok THEN Found(p, s, up.prefix, path.val, Chain(up.served \o up.wraps \o Read(p.fw, r).mw))
                      ELSE <<>>
      sites == Sites(p, "route")
  IN  [routes |-> FlattenSeq([i \in 1 .. Len(sites) |-> found(sites[i])]),
       diags |-> {s \in ToSet(sites \o Sites(p, "mount")) : ~val[s].ok}]

ScanResolved(p, val) ==
  CASE p.fw \in ByVariable -> ScanVariables(p, val)
    [] p.fw \in ByClosure -> ScanClosures(p, val)
    [] OTHER -> ScanWrapped(p, val)
\* What each path of the program is taken for.
Resolutions(p, ord) ==
  [s \in UNION {ToSet(Sites(p, op)) : op \in {"group", "route", "block", "call", "mount"}} |-> Resolve(p, s, ord)]
Scan(p, ord) == ScanResolved(p, Resolutions(p, ord))
=============================================================================
