----------------------------- MODULE Documents -----------------------------
(***************************************************************************)
(* The document's life beside live traffic: the source is scanned and      *)
(* edited, a proxy session judges exchanges by the document and learns     *)
(* what it lacks, the session ends by writing a fragment or the merged     *)
(* document (cmd/spector/proxy.go), a later run folds that file into the   *)
(* source scanned then (-merge-learned, cmd/spector/main.go), and the mock *)
(* serves whatever document there is.  Module Proxy has the handlers'      *)
(* interleavings; here an exchange is one step and its data is real.       *)
(***************************************************************************)
EXTENDS Mock, Merge

CONSTANTS Problems(_, _, _),    \* Conform!Check: components, schema, value
          Unmentioned(_, _, _), \* Conform!Undocumented, likewise
          Uniform(_)            \* Samples!Homogeneous: all of a body can be inferred

CONSTANTS Sources,       \* documents a scan may find
          Manual,        \* routes declared by hand
          Requests,      \* requests that clients send
          Replies,       \* answers of the API: [status, json, body]
          Options,       \* settings of the mock
          Origins,       \* origins browsers send
          Garbled,       \* a body that is not JSON
          MaxLearned,    \* maxLearned: distinct endpoints the learner keeps
          MaxExchanges   \* bound on the exchanges of the session

INSTANCE Learner

(* An operation and a document have the fields module Mock names; a scan   *)
(* gives every operation a response and marks none (gen.go, responses).    *)
IsOperation(op) ==
    /\ op = [params |-> op.params, responses |-> op.responses, security |-> op.security,
             observed |-> op.observed, manual |-> op.manual]
    /\ DOMAIN op.responses \subseteq Nat /\ DOMAIN op.responses # {}
    /\ IsFiniteSet(DOMAIN op.responses)
IsDocument(doc) ==
    /\ doc = [paths |-> doc.paths, components |-> doc.components,
              schemes |-> doc.schemes, security |-> doc.security]
    /\ Table(doc.paths)
    /\ \A p \in DOMAIN doc.paths : \A m \in DOMAIN doc.paths[p] : IsOperation(doc.paths[p][m])
Unmarked(doc) == \A p \in DOMAIN doc.paths : \A m \in DOMAIN doc.paths[p] : ~ doc.paths[p][m].observed

ASSUME SourcesAssumption == \A s \in Sources : IsDocument(s) /\ Unmarked(s)
ASSUME ManualAssumption ==
    /\ Manual \in Seq(ToSet(Manual))
    /\ \A r \in ToSet(Manual) :
         r.path \in Seq(Segment) /\ r.codes \in SUBSET Nat /\ IsFiniteSet(r.codes)
ASSUME TrafficAssumption ==
    /\ \A r \in Requests :
         /\ r = [method |-> r.method, path |-> r.path, status |-> r.status,
                 auth |-> r.auth, keys |-> r.keys, origin |-> r.origin]
         /\ r.path \in Seq(Segment) /\ r.method \in ToSet(MethodOrder)
    /\ \A a \in Replies : a.status \in Nat
    /\ "" \notin IdLike /\ "{id}" \in DOMAIN Params
    /\ "*" \notin Origins
(* What is relied on of the checker and of inference: a body of which all  *)
(* can be inferred meets the schema inferred from it.                      *)
ASSUME InferenceAssumption ==
    \A s \in Sources, a \in Replies :
        Parses(a.body) /\ Uniform(a.body) =>
            /\ Problems(s.components, Inferred(a.body), a.body) = {}
            /\ Unmentioned(s.components, Inferred(a.body), a.body) = {}

Generate(scanned) == ApplyManualRoutes(scanned, Manual)

VARIABLES source,   \* the document a scan of the source would find now
          session,  \* what the proxy judges by: <<>> or <<[doc, routes]>>
          seen,     \* Learner.seen
          log,      \* the session's exchanges, for the properties
          file,     \* what the session wrote: <<>> or <<[doc, from, seen, log]>>
          out       \* what a merge run wrote: <<>> or <<[doc, of]>>
vars == <<source, session, seen, log, file, out>>

(* What the proxy reports of one exchange; routes is doc's table.          *)
Noted(kind, problems) == {[kind |-> kind, problem |-> p] : p \in problems}
Findings(doc, routes, r, a) ==
    LET rt == Match(routes, r.method, r.path)
        op == doc.paths[rt[1].path][rt[1].method]
        content == op.responses[a.status].content
    IN IF rt = << >> THEN Noted("undocumented-endpoint", {<< >>})
       ELSE IF a.status \notin DOMAIN op.responses THEN Noted("undocumented-status", {<< >>})
       ELSE IF content = << >> THEN {}
       ELSE IF ~ a.json THEN Noted("content-type", {<< >>})
       ELSE IF ~ Parses(a.body) THEN Noted("shape", {<< >>})
       ELSE Noted("shape", Problems(doc.components, content[1], a.body)) \cup
            Noted("undocumented-field", Unmentioned(doc.components, content[1], a.body))

KindsOf(findings) == {f.kind : f \in findings}

(* Under which template the learner files the exchange.                    *)
LearnedPath(routes, r) ==
    LET rt == Match(routes, r.method, r.path)
    IN IF rt = << >> THEN NormalisePath(r.path) ELSE rt[1].path

Init == /\ source \in Sources
        /\ session = << >> /\ seen = << >> /\ log = {}
        /\ file = << >> /\ out = << >>

(* The source is edited. *)
Edit == /\ source' \in Sources \ {source}
        /\ UNCHANGED <<session, seen, log, file, out>>

(* A proxy is started on the source as it is; one session per behaviour.   *)
Start == /\ session = << >> /\ file = << >>
         /\ session' = <<[doc |-> Generate(source), routes |-> Compile(Generate(source).paths)]>>
         /\ UNCHANGED <<source, seen, log, file, out>>

Exchange(r, a) ==
    /\ session # << >>
    /\ Cardinality(log) < MaxExchanges /\ <<r, a>> \notin log
    /\ log' = log \cup {<<r, a>>}
    /\ LET doc == session[1].doc routes == session[1].routes
           unknown == {"undocumented-endpoint", "undocumented-status"}
       IN seen' = IF KindsOf(Findings(doc, routes, r, a)) \cap unknown = {} THEN seen
                  ELSE Observe(seen, <<r.method, LearnedPath(routes, r)>>, a.status, a.body)
    /\ UNCHANGED <<source, session, file, out>>

(* The session ends; a learner that saw nothing writes nothing.            *)
Stop(merge) ==
    /\ session # << >>
    /\ LET learned == LearnedDocument(seen)
           written == IF merge THEN MergeObserved(session[1].doc, learned) ELSE learned
       IN file' = IF seen = << >> THEN file
                  ELSE <<[doc |-> written, from |-> session[1].doc, seen |-> seen, log |-> log]>>
    /\ session' = << >> /\ seen' = << >> /\ log' = {}
    /\ UNCHANGED <<source, out>>

(* spector -merge-learned: the file folded into today's source.            *)
MergeLearned ==
    /\ file # << >>
    /\ out' = <<[doc |-> MergeObserved(Generate(source), file[1].doc), of |-> Generate(source)]>>
    /\ UNCHANGED <<source, session, seen, log, file>>

Next == \/ Edit
        \/ Start
        \/ \E r \in Requests, a \in Replies : Exchange(r, a)
        \/ \E merge \in BOOLEAN : Stop(merge)
        \/ MergeLearned

Spec == Init /\ [][Next]_vars
----------------------------------------------------------------------------
(* The documents there are to serve and to judge by.                       *)
Held == {Generate(source)} \cup {o.doc : o \in ToSet(out)}

(* A request is answered as one documented operation exactly when some     *)
(* operation fits it, and no operation that fits is more specific: so      *)
(* /users/me is never served by /users/{id} (route.go, Compile and Match), *)
(* whatever a merge added.                                                 *)
MatchIsMostSpecific ==
    \A doc \in Held :
      LET routes == Compile(doc.paths) IN
      \A r \in Requests : MostSpecific(doc.paths, routes, r.method, r.path)

(* The mock behind the proxy: an answer the mock takes from the document   *)
(* is one the proxy of the same document has nothing to say about          *)
(* (sample.go: a sample satisfies the schema it came from).  Operations    *)
(* with "default" alone are answered 200, which nobody documented.         *)
AsksOf(op, r) == {[r EXCEPT !.status = c] : c \in {0} \cup DOMAIN op.responses}
MockAnswersPass ==
    \A doc \in Held :
      LET routes == Compile(doc.paths) IN
      \A r \in Requests, opts \in Options :
        LET rt == Match(routes, r.method, r.path)
            op == doc.paths[rt[1].path][rt[1].method]
        IN rt # << >> /\ r.method # "OPTIONS" /\ DOMAIN op.responses # {0} /\ (opts.enforceAuth => AuthCheck(doc, op, r)) =>
             \A ask \in AsksOf(op, r) : Findings(doc, routes, ask, Answer(doc, routes, opts, ask)) = {}

(* What a session learned is documented once merged, by either door: the   *)
(* same traffic is no longer an undocumented endpoint, no longer an        *)
(* undocumented status of the operation it was filed under, and the first  *)
(* body of a status meets the schema inferred from it (learn.go, Document; *)
(* merge.go, mergeInto).                                                   *)
LearnedIsDocumented ==
    \A f \in ToSet(file) :
        LET doc == MergeObserved(f.from, f.doc)
            before == Compile(f.from.paths)
            after  == Compile(doc.paths) IN
        \A x \in f.log :
            LET r == x[1] a == x[2]
                path == LearnedPath(before, r)
                now  == KindsOf(Findings(doc, after, r, a))
                filed == <<r.method, path>> \in DOMAIN f.seen
            IN filed =>
                /\ "undocumented-endpoint" \notin now
                /\ LearnedPath(after, r) = path =>
                     /\ "undocumented-status" \notin now
                     /\ LET o == f.seen[<<r.method, path>>] IN
                        a.status \in DOMAIN o.bodies /\ a.body = o.bodies[a.status]
                          /\ Uniform(a.body) =>
                            now \cap {"shape", "undocumented-field"} = {}

(* An operation as another has it, with more responses at most.           *)
Extends(now, was) ==
    /\ [now EXCEPT !.responses = was.responses] = was
    /\ \A c \in DOMAIN was.responses : c \in DOMAIN now.responses /\ now.responses[c] = was.responses[c]

(* A merge only adds: every operation and every response the source        *)
(* documents stays as the source has it, and an operation is marked        *)
(* observed exactly when the source lacks it (merge.go, MergeObserved:     *)
(* an existing response is never overwritten).                             *)
SourceIsKept ==
    \A o \in ToSet(out) :
        /\ o.doc.components = o.of.components
        /\ \A p \in DOMAIN o.doc.paths : \A m \in DOMAIN o.doc.paths[p] :
             o.doc.paths[p][m].observed <=> ~ HasOp(o.of, p, m)
        /\ \A p \in DOMAIN o.of.paths : \A m \in DOMAIN o.of.paths[p] :
             HasOp(o.doc, p, m) /\ Extends(o.doc.paths[p][m], o.of.paths[p][m])

(* What a browser takes for leave to read the answer.                      *)
LetsIn(headers, origin) == headers.allow # NoOrigin /\ headers.allow \in {"*", origin}

(* A shared cache between the mock and two browsers: an answer that lets   *)
(* one origin in and is stored without Vary serves every other origin the  *)
(* verdict its own answer would give (cors.go, applyCORS: or one origin's  *)
(* response is served to another).                                         *)
Grants(doc, routes, opts, r) ==
    {[origin |-> o, cors |-> Answer(doc, routes, opts, [r EXCEPT !.origin = o]).cors] : o \in Origins}
GrantsAreSafeToCache ==
    \A doc \in Held :
      LET routes == Compile(doc.paths) IN
      \A r \in Requests, opts \in Options :
        \A one, other \in Grants(doc, routes, opts, r) :
             LetsIn(one.cors, one.origin) /\ ~ one.cors.vary =>
                 (LetsIn(one.cors, other.origin) <=> LetsIn(other.cors, other.origin))
============================================================================
