------------------------------ MODULE Clients ------------------------------
(***************************************************************************)
(* What is generated from one document, at work against a service that     *)
(* follows it: clients of any of the languages read one resource, change a *)
(* member and write the whole of it back, one after the other, with a      *)
(* gateway in between that may answer anything instead; and the generated  *)
(* tests are run against the mock and against the service.                 *)
(***************************************************************************)
EXTENDS Sdk, Contract

CONSTANTS Docs,        \* [doc, type, values]: a document, its resource's schema, what it may hold
          Edits,       \* <<member, value>>: changes a client makes
          Gateway,     \* answers [status, body] that do not come from the service
          Arguments,   \* texts for the placeholders of a path
          MaxWrites    \* bound on the writes of a behaviour

VARIABLES api,       \* the document, one of Docs
          original,  \* the resource at first, or as a client wrote it that was never told it
          resource,  \* the resource now
          client,    \* none or <<[lang, read, held]>>: what one was told, and what it has now
          wrote,     \* the Respellers whose writes were taken since
          writes,    \* how many writes there were
          touched,   \* members some client changed since
          last       \* the last call: [lang, read, sent, answer, outcome]
vars == <<api, original, resource, client, wrote, writes, touched, last>>

Respellers == {"go", "php"}  \* languages that may say a value differently
NoCall == [lang |-> "", read |-> Absent, sent |-> Absent,
           answer |-> [status |-> 0, body |-> EmptyBody], outcome |-> Broken]

Init == /\ api \in Docs
        /\ original \in api.values /\ resource = original
        /\ client = << >> /\ wrote = {} /\ writes = 0 /\ touched = {}
        /\ last = NoCall

(* A client calls, and takes what it is answered; a value it cannot decode *)
(* breaks the call.  No value at all each runtime has dealt with.          *)
Outcome(lang, answer) ==
    LET taken == Taken(lang, api.doc.components, api.type, answer)
    IN IF /\ taken.kind = "returned" /\ ~ IsMissing(taken.value)
          /\ ~ Reads(lang, api.doc.components, api.type, TRUE, taken.value)
       THEN Broken ELSE taken
Read(lang, answer) ==
    /\ client = << >>
    /\ Builds(lang, api.doc.components)
    /\ last' = [lang |-> lang, read |-> Absent, sent |-> Absent, answer |-> answer,
                 outcome |-> Outcome(lang, answer)]
    /\ client' = IF last'.outcome.kind = "returned" /\ last'.outcome.value.kind = "object"
                 THEN <<[lang |-> lang, read |-> Parsed(answer), held |-> last'.outcome.value]>>
                 ELSE << >>
    /\ UNCHANGED <<api, original, resource, wrote, writes, touched>>

Get(lang) == Read(lang, [status |-> 200, body |-> resource])
Interrupted(lang) == \E a \in Gateway : Read(lang, a)

(* The program around the client sets a documented member.                 *)
Change(n, v) ==
    /\ client # << >>
    /\ n \in DOMAIN Fields(client[1].lang, api.doc.components, api.doc.components[api.type.ref])
    /\ client' = <<[client[1] EXCEPT !.held.fields = (n :> v) @@ @]>>
    /\ touched' = touched \cup {n}
    /\ UNCHANGED <<api, original, resource, wrote, writes, last>>

(* It writes the resource back; the service checks it by the document.  A  *)
(* client that was told nothing puts a resource of its own in its place.   *)
Put ==
    /\ client # << >> /\ writes < MaxWrites
    /\ LET lang   == client[1].lang
           sent   == Resent(lang, api.doc.components, api.type, TRUE, client[1].held)
           taken  == Check(api.doc.components, api.type, sent) = {}
           answer == IF taken THEN [status |-> 200, body |-> sent]
                     ELSE [status |-> 400, body |-> Problem]
           anew   == taken /\ IsMissing(client[1].read)
       IN /\ resource' = IF taken THEN sent ELSE resource
          /\ original' = IF anew THEN sent ELSE original
          /\ touched' = IF anew THEN {} ELSE touched
          /\ wrote' = CASE anew  -> {}
                       [] taken -> wrote \cup ({lang} \cap Respellers)
                       [] OTHER -> wrote
          /\ last' = [lang |-> lang, read |-> client[1].read, sent |-> sent, answer |-> answer,
                      outcome |-> Outcome(lang, answer)]
    /\ writes' = writes + 1 /\ client' = << >>
    /\ UNCHANGED api

(* It gives up. *)
Leave == /\ client # << >> /\ client' = << >>
         /\ UNCHANGED <<api, original, resource, wrote, writes, touched, last>>

Next == \/ \E lang \in Langs : Get(lang)
        \/ \E lang \in Langs : Interrupted(lang)
        \/ \E e \in Edits : Change(e[1], e[2])
        \/ Put
        \/ Leave

Spec == Init /\ [][Next]_vars
----------------------------------------------------------------------------
(* What the document has of a schema, as the checker reads it. *)
Schema(s) == Deref(api.doc.components, s)
Known(s)  == DocumentedProperties(api.doc.components, Schema(s))
RECURSIVE Demanded(_)
Demanded(s) == Schema(s).required \cup UNION {Demanded(a) : a \in ToSet(Schema(s).allOf)}

(* b still says what a said, as far as the document describes it; the ways *)
(* a client may say it differently are the two the generators have: Go     *)
(* leaves out an optional empty value, PHP writes {} as [].                *)
RECURSIVE Agrees(_, _, _, _)
Agrees(s, required, a, b) ==
    CASE IsMissing(a) -> TRUE
      [] "go" \in wrote /\ GoOmits(IF Classed(api.doc.components, s) THEN s ELSE Schema(s), required, a)
         /\ IsMissing(b) -> TRUE
      [] "php" \in wrote /\ a = Object(<< >>) /\ b = List(<< >>) -> TRUE
      [] a.kind = "object" -> /\ b.kind = "object"
                              /\ \A n \in DOMAIN Known(s) :
                                   Agrees(Known(s)[n], n \in Demanded(s), Member(a, n), Member(b, n))
      [] a.kind = "array" -> /\ Len(a.items) = Len(b.items)
                             /\ \A i \in DOMAIN a.items :
                                  Agrees(OrNil(Schema(s).items), TRUE, a.items[i], b.items[i])
      [] OTHER -> a = b

(* Clients in ten languages take turns reading the resource, changing a    *)
(* member and writing it all back: a documented member that nobody changed *)
(* still has the value it had, whoever came in between (resolvedFields and *)
(* the encode and decode pairs of the generators, internal/sdk).  Lost are *)
(* only an optional empty value that went through Go, what a part composed *)
(* inline documents, which Go has no field for, and the whole resource to  *)
(* a Go client that was answered without a body: it holds a zero value and *)
(* no error, and what it writes back is the resource from then on.         *)
UntouchedMembersStay ==
    LET inGo == DOMAIN GoFields(api.doc.components, Schema(api.type)) IN
    \A n \in DOMAIN Known(api.type) \ touched :
      \/ Agrees(Known(api.type)[n], n \in Demanded(api.type), Member(original, n), Member(resource, n))
      \/ "go" \in wrote /\ n \notin inGo

(* Whoever reads a documented resource, changes it by the document and     *)
(* writes it back is not refused, unless the client had to make up what it *)
(* read: the zero of a member that was left out, which a Go struct or a    *)
(* Kotlin default is, in Go that of the whole resource when the answer had *)
(* no body, or PHP's [] for {}.                                            *)
RECURSIVE MadeUp(_, _, _)
MadeUp(lang, s, v) ==
    \/ lang = "php" /\ v = Object(<< >>)
    \/ lang \in {"go", "kotlin"} /\ IsMissing(v)
    \/ v.kind = "object" /\ \E n \in DOMAIN Known(s) : MadeUp(lang, Known(s)[n], Member(v, n))
    \/ \E i \in DOMAIN v.items : MadeUp(lang, OrNil(Schema(s).items), v.items[i])
WritesAreTaken ==
    last.sent # Absent /\ last.answer.status # 200 => MadeUp(last.lang, api.type, last.read)

(* A call that returns was answered 2xx with what it returns, but for Go,  *)
(* where no body is the zero of the type, and PHP, where what is no JSON   *)
(* is null; a refusal raises the client's own error with the status the    *)
(* service gave; and only a body that is no JSON, none where Rust and      *)
(* Kotlin want a value, or a value the types have no place for, breaks a   *)
(* call in another way (the runtimes the generators emit).  That a refusal *)
(* whose body is no JSON keeps its status is left to the six languages     *)
(* that look at the status first.                                          *)
CallsTellTheTruth ==
    LET a == last.answer o == last.outcome IN
    last.lang # "" =>
      /\ o.kind = "returned" =>
            /\ Good(a.status)
            /\ o.value = CASE last.lang = "php" /\ a.body = Garbled -> Null
                           [] last.lang = "go" /\ Parsed(a) = Null ->
                                GoResult(api.doc.components, api.type)
                           [] OTHER -> Parsed(a)
      /\ o.kind = "apiError" => ~ Good(a.status) /\ o.status = a.status
      /\ ~ Good(a.status) => \/ o.kind = "apiError"
                             \/ last.lang \in {"ts", "js", "ruby", "java"} /\ a.body = Garbled
      /\ o.kind = "broken" =>
            \/ a.body = Garbled
            \/ a.body = EmptyBody /\ last.lang \in {"rust", "kotlin"}
            \/ ~ Reads(last.lang, api.doc.components, api.type, TRUE, a.body)

(* A method's request is served as the operation it was generated from,    *)
(* with the argument it was given, unless a more specific path takes it or *)
(* the argument is not one segment to the server, which reads the path     *)
(* decoded: with a slash it is not in any language, and with a ? only in   *)
(* Go, which escapes it (the write*Method functions against route.Match on *)
(* r.URL.Path).                                                            *)
OnePiece(lang, arg) ==
    arg # "" /\ (IF lang = "go" THEN Escaped ELSE Pieces)[arg] = <<arg>>
CallsReachTheirOperation ==
    LET routes == Compile(api.doc.paths) IN
    last = NoCall =>
    \A op \in Flatten(api.doc.paths), lang \in Langs :
      \A args \in [op.pathParams -> Arguments] :
        LET sent == Method(lang, op, args)
            rt   == Match(routes, sent.method, sent.path)
        IN (\A p \in op.pathParams : OnePiece(lang, args[p])) =>
             /\ rt # << >>
             /\ \/ rt[1].path = op.path /\ \A p \in op.pathParams : Vals(rt[1], sent.path)[p] = args[p]
                \/ MoreSpecific(rt[1].path, op.path)

(* A service that follows its document: it answers as the mock does, but   *)
(* not without what an operation requires.                                 *)
Serve(strict, r) ==
    LET routes == Compile(api.doc.paths)
        rt == Match(routes, r.method, r.path)
        op == api.doc.paths[rt[1].path][rt[1].method]
        complete == Needed(op, "query") \subseteq r.query /\ Needed(op, "header") \subseteq r.headers
    IN IF strict /\ rt # << >> /\ ~ complete
       THEN [status |-> 422, json |-> TRUE, body |-> Problem]
       ELSE Answer(api.doc, routes, [origins |-> {}, credentials |-> FALSE, enforceAuth |-> TRUE], r)

(* The tests generated from a document pass against the mock of it and     *)
(* against a service that follows it ("the same tests run against a local  *)
(* server, a staging deployment, or a mock without being regenerated",     *)
(* check.go.tmpl), for every operation that documents a numbered status;   *)
(* the shell's unless a header is required, which it does not send; the    *)
(* plain file's against the service unless it has to send any, and with a  *)
(* bearer token.                                                           *)
GeneratedTestsPass ==
    last = NoCall =>
    \A rt \in {r \in RoutesOf(api.doc.paths) : Documents(api.doc.paths, r)}, strict \in BOOLEAN :
      LET op == api.doc.paths[rt.path][rt.method]
          p  == Plan(api.doc, rt)
          plainRequest == PlainSends(api.doc, rt)
      IN Statuses(op) # {} =>
           /\ GoTestPasses(api.doc, p, Serve(strict, GoTestSends(api.doc, p)))
           /\ Needed(op, "header") = {} => SmokePasses(p, Serve(strict, SmokeSends(api.doc, p)))
           /\ /\ strict => Needed(op, "query") \cup Needed(op, "header") = {}
              /\ AuthCheck(api.doc, op, plainRequest)
              => PlainPasses(api.doc, rt, Serve(strict, plainRequest))
============================================================================
