-------------------------------- MODULE Mock --------------------------------
(***************************************************************************)
(* The mock server (internal/mock): a document, executed.  It keeps no     *)
(* state; its handler is the operator Answer.                              *)
(*                                                                         *)
(* A document is [paths, components, schemes, security]; paths maps a path *)
(* to its methods' operations.  An operation's responses are keyed by      *)
(* status code, 0 standing for "default"; a response's content is the      *)
(* schema of its application/json, or none.                                *)
(***************************************************************************)
EXTENDS Route, Schemas, FiniteSetsExt

CONSTANTS SampleBody(_, _, _),  \* Samples!EncodedSample: components, schema, path values
          NoBody                \* an empty body

(* The response served by default: the lowest 2xx, else the lowest code,   *)
(* else "default" under 200. *)
NoResponse == [content |-> << >>]
Primary(op) ==
    LET codes == DOMAIN op.responses \ {0}
        good  == {c \in codes : c \in 200 .. 299}
        under(c) == [status |-> c, response |-> op.responses[c]]
    IN IF good # {} THEN under(Min(good))
       ELSE IF codes # {} THEN under(Min(codes))
       ELSE [status |-> 200,
             response |-> IF 0 \in DOMAIN op.responses THEN op.responses[0] ELSE NoResponse]
----------------------------------------------------------------------------
(* Security: alternatives, each a set of scheme names all of which must be *)
(* presented; the document's stand in for an operation that has none.      *)
SchemeSatisfied(scheme, r) ==
    CASE scheme.type = "http"   -> r.auth = (IF scheme.scheme = "basic" THEN "basic" ELSE "bearer")
      [] scheme.type = "apiKey" -> <<IF scheme.in \in {"query", "cookie"} THEN scheme.in ELSE "header",
                                     scheme.name>> \in r.keys
      [] OTHER -> r.auth # "none"

AuthCheck(doc, op, r) ==
    LET reqs == IF op.security = {} THEN doc.security ELSE op.security
        known(req) == req \subseteq DOMAIN doc.schemes
    IN reqs = {} \/ \E req \in reqs :
            req # {} /\ known(req) /\ \A n \in req : SchemeSatisfied(doc.schemes[n], r)

(* Cross-origin headers.  NoOrigin: the request carries no Origin.         *)
NoOrigin == ""
OriginFor(opts, origin) ==
    IF opts.origins = {} \/ "*" \in opts.origins
    THEN [value |-> IF opts.credentials THEN origin ELSE "*", allowed |-> TRUE]
    ELSE [value   |-> IF origin \in opts.origins THEN origin ELSE NoOrigin,
          allowed |-> origin = NoOrigin \/ origin \in opts.origins]

NoCors == [allow |-> NoOrigin, credentials |-> FALSE, vary |-> FALSE]
\* variant of ApplyCORS, with a slip
ApplyCORSWild(opts, origin) ==
    LET o == OriginFor(opts, origin) IN
    IF ~ o.allowed THEN NoCors
    ELSE [allow |-> o.value, credentials |-> opts.credentials,
          vary |-> opts.origins = {} /\ o.value \notin {"*", NoOrigin}]
ApplyCORS(opts, origin) ==
    LET o == OriginFor(opts, origin) IN
    IF ~ o.allowed THEN NoCors
    ELSE [allow |-> o.value, credentials |-> opts.credentials,
          vary |-> o.value \notin {"*", NoOrigin}]
----------------------------------------------------------------------------
(* What the handler answers a request [method, path, status, auth, keys,   *)
(* origin]; status is the __status asked for, 0 when none or no number.    *)
(* routes is the document compiled, once, when the handler is made.        *)
Problem == Object([detail |-> Scalar("string", "why")])

Handled(doc, routes, opts, r) ==
    LET rt == Match(routes, r.method, r.path)
        op == doc.paths[rt[1].path][rt[1].method]
        asked  == r.status # 0
        chosen == IF asked THEN [status |-> r.status, response |-> op.responses[r.status]]
                  ELSE Primary(op)
        content == chosen.response.content
        answer(status, json, body) == [status |-> status, json |-> json, body |-> body]
    IN IF r.method = "OPTIONS" THEN answer(204, FALSE, NoBody)
       ELSE IF rt = << >> THEN answer(404, TRUE, Problem)
       ELSE IF opts.enforceAuth /\ ~ AuthCheck(doc, op, r) THEN answer(401, TRUE, Problem)
       ELSE IF asked /\ r.status \notin DOMAIN op.responses THEN answer(400, TRUE, Problem)
       ELSE IF content = << >> THEN answer(chosen.status, FALSE, NoBody)
       ELSE answer(chosen.status, TRUE,
                   SampleBody(doc.components, content[1], Vals(rt[1], r.path)))

(* The cross-origin headers go out whatever the answer is.                 *)
Answer(doc, routes, opts, r) ==
    LET answer == Handled(doc, routes, opts, r)
    IN [cors |-> ApplyCORS(opts, r.origin),
        status |-> answer.status, json |-> answer.json, body |-> answer.body]
============================================================================
