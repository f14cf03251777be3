------------------------------- MODULE MCScan -------------------------------
(***************************************************************************)
(* A shop behind each of the eight routers: a root, a group with guards, a *)
(* group inside it, a function that is handed a group, and every way its   *)
(* prefix is spelled.                                                      *)
(***************************************************************************)
EXTENDS Scan

MCWare ==
  "jwtAuth" :> [words |-> {"jwt", "auth"}, reads |-> {<<"GetHeader", <<"Authorization">>>>}, ends |-> {<<"abort", 401>>}]
  @@ "checkSign" :> [words |-> {}, reads |-> {<<"Header.Get", <<"X", "Sign">>>>}, ends |-> {<<"return", 488>>}]
  @@ "tenant" :> [words |-> {}, reads |-> {<<"GetHeader", <<"X", "Tenant">>>>, <<"GetHeader", <<"Id">>>>}, ends |-> {<<"return", 404>>}]
  @@ "logger" :> [words |-> {"logger"}, reads |-> {<<"Query.Get", <<"trace">>>>}, ends |-> {}]
  @@ "sessions" :> [words |-> {"session"}, reads |-> {}, ends |-> {<<"http.Error", 403>>}]
MCFolded == <<"Id">> :> "id"
MCWords ==
  "line-items" :> <<"line", "_", "items">> @@ "listUsers" :> <<"list", "Users">>
  @@ "createUser" :> <<"create", "User">> @@ "ProductHandler" :> <<"product", "Handler">>
  @@ "OrderHandler" :> <<"order", "Handler">> @@ "HandlerFunc" :> <<"Handler", "Func">>

(***************************************************************************)
(* The handlers, as a project spells them.                                 *)
(***************************************************************************)
C == Id("c")
Of(verb, args) == Calls(Sel(C, verb), args)
Do(e) == [op |-> "do", xs |-> <<>>, e |-> e, exit |-> FALSE]
Leave(e) == [Do(e) EXCEPT !.exit = TRUE]
Let_(xs, e) == [Do(e) EXCEPT !.op = "let", !.xs = xs]
Out(e) == [Do(e) EXCEPT !.op = "return"]
Prm(x, t) == [x |-> x, t |-> t]
Res(n, many, via) == [n |-> n, many |-> many, via |-> via]
Struct(typ) == [pkg |-> "", n |-> typ, many |-> FALSE]
New_(typ) == <<"addr", <<"lit", Struct(typ), <<>>>>>>
Code(n) == <<"code", n>>
Str(x) == <<"str", x>>
Decl(pkg, recv, name, params, results, body) ==
  [pkg |-> pkg, recv |-> recv, self |-> "h", name |-> name, params |-> params, results |-> results, body |-> body]
Ctx == Prm("c", "Context")
Tenant == Calls(Sel(Sel(Id("r"), "Header"), "Get"), <<Str(<<"X", "Tenant">>)>>)
Encode(e) == Calls(Sel(Calls(Sel(Id("json"), "NewEncoder"), <<Id("w")>>), "Encode"), <<e>>)
MCDecls == <<
  \* a list: through the store, a converted parameter and an envelope
  Decl("app", "", "listUsers", <<Ctx>>, <<>>,
       <<Let_(<<"page">>, Of("Query", <<Str("page")>>)),
         Let_(<<"n", "err">>, Calls(Sel(Id("strconv"), "Atoi"), <<Id("page")>>)), Do(Tenant),
         Let_(<<"users", "err">>, CallTo(Sel(Sel(Id("h"), "repo"), "List"), <<Id("n")>>, <<"store", "Repo", "List">>)),
         Do(CallTo(Sel(Id("httpx"), "OK"), <<C, Id("users")>>, <<"httpx", "", "OK">>))>>),
  \* out of the handler's own map, answered by a helper
  Decl("app", "ProductHandler", "Get", <<Ctx>>, <<>>,
       <<Let_(<<"item", "ok">>, <<"index", Sel(Id("h"), "items")>>),
         Leave(CallTo(Id("respond"), <<C, Code(404), New_("Problem")>>, <<"app", "", "respond">>)),
         Do(CallTo(Id("respond"), <<C, Code(200), Id("item")>>, <<"app", "", "respond">>))>>),
  Decl("app", "", "respond", <<Ctx, Prm("code", "int"), Prm("body", "any")>>, <<>>,
       <<Do(Of("JSON", <<Id("code"), Id("body")>>))>>),
  \* another method of the same name, with a status nobody can read
  Decl("app", "OrderHandler", "Get", <<Ctx>>, <<>>, <<Do(Of("JSON", <<<<"other">>, New_("Order")>>))>>),
  Decl("app", "", "newOrders", <<>>, <<Res("OrderHandler", FALSE, "id")>>, <<>>),
  \* bound by a helper, refused, or written the way net/http does
  Decl("app", "", "createUser", <<Ctx>>, <<>>,
       <<Let_(<<"req">>, <<"lit", Struct("NewUser"), <<>>>>),
         Do(CallTo(Sel(Id("httpx"), "BindJSON"), <<C, <<"addr", Id("req")>>>>, <<"httpx", "", "BindJSON">>)),
         Leave(Of("AbortWithStatus", <<Code(400)>>)), Do(Calls(Sel(Id("w"), "WriteHeader"), <<Code(201)>>)),
         Do(Encode(<<"make", Struct("User")>>))>>),
  \* a factory: what it returns is the handler
  Decl("app", "", "verify", <<>>, <<Res("HandlerFunc", FALSE, "sel")>>,
       <<Let_(<<"limit">>, Code(3)), Out(<<"func", <<Do(Of("JSON", <<Code(202), New_("Order")>>))>>>>)>>),
  \* wrappers around a handler
  Decl("app", "", "chain", <<Prm("hs", "HandlerFunc")>>, <<Res("HandlerFunc", TRUE, "other")>>, <<>>),
  Decl("app", "", "secured", <<Prm("next", "")>>, <<Res("", FALSE, "func")>>, <<>>),
  Decl("httpx", "", "OK", <<Ctx, Prm("data", "any")>>, <<>>,
       <<Do(Of("JSON", <<Code(200), <<"lit", Struct("Envelope"), <<<<"Data", Id("data")>>>>>>>>))>>),
  Decl("httpx", "", "BindJSON", <<Ctx, Prm("out", "any")>>, <<Res("error", FALSE, "id")>>,
       <<Do(Of("ShouldBindJSON", <<Id("out")>>))>>),
  Decl("store", "Repo", "List", <<Prm("n", "int")>>, <<Res("User", TRUE, "other"), Res("error", FALSE, "id")>>, <<>>) >>
MCTypes == "Envelope" :> ("data" :> "" @@ "meta" :> "Meta") @@ "Meta" :> <<>> @@ "User" :> ("lock" :> "Mutex")
           @@ "Product" :> <<>> @@ "Order" :> ("items" :> "Product") @@ "NewUser" :> <<>> @@ "Problem" :> <<>>
\* The function that registers: what its names hold.
Registrar == Decl("app", "", "main", <<>>, <<>>, <<Let_(<<"products">>, New_("ProductHandler"))>>)
Handler(e, recv, name) == [e |-> e, is |-> <<"app", recv, name>>]
ListUsers == Handler(Id("listUsers"), "", "listUsers")
CreateUser == Handler(<<"paren", Id("createUser")>>, "", "createUser")
GetProduct == Handler(Sel(Id("products"), "Get"), "ProductHandler", "Get")
GetOrder == Handler(Sel(Calls(Id("newOrders"), <<>>), "Get"), "OrderHandler", "Get")
Verify == Handler(Calls(Id("verify"), <<>>), "", "verify")
\* How a handler is handed over: in a slice, to a helper, under middleware.
Guarded(h, names) == [h EXCEPT !.e = FoldRight(LAMBDA n, e : Calls(Id(n), <<e>>), names, Calls(Sel(Id("http"), "HandlerFunc"), <<@>>))]
Handed(fw, h) ==
  CASE fw = "gin" -> [h EXCEPT !.e = <<"spread", Calls(Id("chain"), <<Id("guards"), @>>)>>]
    [] fw = "fiber" -> [h EXCEPT !.e = <<"spread", Calls(Id("append"), <<Id("guards"), @>>)>>]
    [] OTHER -> [h EXCEPT !.e = Calls(Id("secured"), <<@>>)]

Text(fw, code, param, outer, declared) ==
  [fw |-> fw, code |-> code, param |-> "main" :> "" @@ param, outer |-> outer @@ [f \in DOMAIN code |-> ""],
   declared |-> declared,
   fns |-> SelectSeq(<<"main", "outer", "inner", "register">>, LAMBDA f : f \in DOMAIN code),
   consts |-> <<Let("latest", Under("base", <<Lit("v2")>>)), Let("base", Path(<<Lit("pkg")>>))>>, decls |-> MCDecls, types |-> MCTypes, registrar |-> Registrar,
   imports |-> "app" :> {"httpx"} @@ "httpx" :> {} @@ "store" :> {},
   elems |-> <<"app", "ProductHandler">> :> ("items" :> Type("Product")),
   wire |-> <<"httpx", "Envelope">> :> ("Data" :> "data" @@ "Meta" :> "meta")]
Item == Path(<<Lit("items"), Par("id")>>)
\* What each router can say of the last segment of a path.
Files(fw) == Path(<<Lit("files"), CASE fw \in {"chi", "gorillamux"} -> <<"re", "n">>
                                    [] fw = "fiber" -> <<"opt", "n">>
                                    [] fw = "echo" -> <<"star", "n">>
                                    [] OTHER -> <<"rest", "n">> >>)
Users == Path(<<Lit("users")>>)
Orders_ == Path(<<Lit("orders"), Par("id")>>)
Admin == Path(<<Lit("admin")>>)
Lines == Path(<<Lit("line-items")>>)
None == <<>>

\* How a prefix is spelled, after the declarations it needs.
Api == Path(<<Lit("api")>>)
Spellings ==
  {[lets |-> <<>>, path |-> Api],
   [lets |-> <<>>, path |-> Under("latest", <<Lit("v1")>>)],
   [lets |-> <<Let("root", Api), Let("sub", Under("root", <<Lit("v1")>>))>>, path |-> Under("sub", <<>>)],
   [lets |-> <<Let("root", Api), InnerLet("root", Path(<<Lit("v1")>>))>>, path |-> Under("root", <<>>)],
   [lets |-> <<Let("root", Under("?", <<>>))>>, path |-> Under("root", <<>>)]}
Signed == <<"checkSign", "tenant">>
\* [root, mw]: what the router and the group have in front of them.
Fronts == {<<None, None>>, <<<<"jwtAuth">>, Signed>>}
Declared == {None, "signature" :> [type |-> "apiKey", in |-> "header", name |-> <<"X", "Sign">>]}

\* Routers with group variables; handed to a function: nothing, the group
\* under its own name, a new group, two groups.
Shop(fw, sp, front, handed, dcl) ==
  LET part == IF handed = "same" THEN "api" ELSE "part"
      gorilla == fw = "gorillamux"   \* the guards of a subrouter stay on its own routes here
      group == IF gorilla THEN <<Group("api", "r", sp.path, None)>>
               ELSE <<Use("r", front[1]), Group("api", "r", sp.path, SelectSeq(front[2], LAMBDA n : n = "checkSign"))>>
      \* a guard that comes after a route is not in front of it
      late == IF gorilla THEN <<>> ELSE <<Use("api", SelectSeq(front[2], LAMBDA n : n = "tenant"))>>
      calls == (IF handed \in {"sub", "twice"} THEN <<CallSub("register", "r", Path(<<Lit("shop")>>))>> ELSE <<>>)
               \o (IF handed \in {"same", "twice"} THEN <<Call("register", "api")>> ELSE <<>>)
      main == sp.lets \o <<New("r", None)>> \o group
              \o <<Route("api", <<"get">>, Item, None, Handed(fw, GetProduct))>> \o late
              \o <<Group("admin", "api", Admin, None), Use("admin", IF gorilla THEN front[2] ELSE <<"logger", "sessions">>),
                   Route("admin", IF fw \in {"echo", "fiber"} THEN <<"any">> ELSE <<"post">>, Users, None, CreateUser),
                   Route("r", <<"delete">>, Lines, None, Verify)>>
              \o (IF handed = "none" /\ ~gorilla THEN <<Route("r", <<"get">>, Path(<<Par("page")>>), None, Verify)>> ELSE <<>>)
              \o (IF handed = "none" /\ fw = "fiber" THEN <<Route("r", <<"delete">>, Lines, None, GetOrder)>> ELSE <<>>)
              \o <<Route("r", <<"get">>, Users, None, ListUsers),
                   Route("r", IF gorilla THEN <<>> ELSE <<"get">>, Files(fw), None, GetOrder)>>
              \o calls \o <<Serve("r", None)>>
  IN  Text(fw, "main" :> main @@ (IF handed = "none" THEN <<>>
                                  ELSE "register" :> <<Route(part, <<"get">>, Orders_, None, GetOrder)>>),
           "register" :> part, <<>>, dcl)
ByVariables ==
  {Shop(fw, sp, front, handed, dcl) : fw \in ByVariable, sp \in Spellings,
     front \in {<<None, None>>}, handed \in {"sub", "twice"}, dcl \in {None}}
  \union {Shop(fw, sp, front, handed, dcl) : fw \in ByVariable, sp \in Spellings,
            front \in Fronts, handed \in {"none", "same"}, dcl \in Declared}

\* Routers with closures.
Closed(fw, sp, front, handed, dcl) ==
  LET chi == fw = "chi"
      main == sp.lets \o <<New("r", IF chi THEN None ELSE front[1])>>
              \o (IF chi THEN <<Use("r", front[1])>> ELSE <<>>)
              \o <<Route("r", <<"get">>, Users, None, ListUsers), Route("r", <<"get">>, Files(fw), None, GetOrder),
                   Block("r", sp.path, None, "outer"),
                   Serve("r", None)>>
      outer == <<Use("api", front[2]), Route("api", <<"get">>, Item, <<"logger">>, Handed(fw, GetProduct)),
                 Route("api", <<"put">>, IF chi THEN Path(<<Lit("")>>) ELSE Lines, None, Verify),
                 Block("api", Admin, IF chi THEN None ELSE <<"logger">>, "inner")>>
               \o (IF handed THEN <<Call("register", "api")>> ELSE <<>>)
  IN  Text(fw, "main" :> main @@ "outer" :> outer
               @@ "inner" :> <<Route("admin", <<"post">>, Users, None, CreateUser)>>
               @@ (IF handed THEN "register" :> <<Route("part", <<"get">>, Orders_, None, GetOrder)>> ELSE <<>>),
           "register" :> "part" @@ "outer" :> "api" @@ "inner" :> "admin",
           "outer" :> "main" @@ "inner" :> "outer", dcl)
ByClosures == {Closed(fw, sp, front, handed, dcl) : fw \in ByClosure, sp \in Spellings,
                 front \in Fronts, handed \in BOOLEAN, dcl \in Declared}

\* Routers with wrapped handlers: a mux on a mux on the mux that is served.
Muxed(fw, sp, front, dcl) ==
  LET std == fw = "stdlib"
      sub == IF std THEN "sub" ELSE "r"
      main == sp.lets \o <<New("r", None)>>
              \o (IF std THEN <<New("sub", None), New("deep", None), Route("deep", <<"post">>, Users, <<"logger">>, Guarded(CreateUser, <<"logger">>)),
                                Mount("r", sp.path, "sub", front[2]), Mount("sub", Admin, "deep", None)>> ELSE <<>>)
              \o <<Route(sub, <<"get">>, Item, front[2], Guarded(GetProduct, front[2])),
                   Route("r", <<"get">>, Users, None, Guarded(ListUsers, None)),
                   Route("r", <<"get">>, [sp.path EXCEPT !.lit = @ \o <<Lit("orders")>>], None, GetOrder),
                   Route("r", <<"put">>, Files(fw), None, Verify), Serve("r", front[1])>>
  IN  Text(fw, "main" :> main, <<>>, <<>>, dcl)
ByWrapping == {Muxed(fw, sp, front, dcl) : fw \in {"stdlib", "httprouter"}, sp \in Spellings,
                 front \in Fronts, dcl \in Declared}

MCPrograms == ByVariables \union ByClosures \union ByWrapping
\* A variable of the function in front of a constant of the package.
MCShadowed == {Shop("gin", [lets |-> <<Let("base", Api), Let("sub", Under("base", <<Lit("v1")>>))>>, path |-> Under("sub", <<>>)],
                    <<None, None>>, "none", None)}
=============================================================================
