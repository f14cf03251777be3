------------------------------ MODULE Learner ------------------------------
(***************************************************************************)
(* What the proxy's learner keeps of the exchanges the document does not   *)
(* have (internal/proxy/learn.go).  The learner's map is a function whose  *)
(* domain is the endpoints seen; Observe is one call, made under its lock. *)
(***************************************************************************)
EXTENDS Naturals, FiniteSets

CONSTANTS MaxLearned,   \* maxLearned: distinct endpoints kept
          Garbled,      \* a body that does not parse as JSON
          NoBody        \* an empty body

ASSUME LearnerAssumption == MaxLearned \in Nat /\ Garbled # NoBody

Parses(body) == body \notin {Garbled, NoBody}

(* A new endpoint is refused once MaxLearned are held. *)
HasRoom(seen) == Cardinality(DOMAIN seen) < MaxLearned

Unseen == [statuses |-> << >>, bodies |-> << >>]

Entry(seen, endpoint) ==
    IF endpoint \in DOMAIN seen THEN seen[endpoint] ELSE Unseen

\* variant of Bumped, with a slip
BumpedOnce(statuses, status) ==
    [s \in DOMAIN statuses \cup {status} |-> 1]
Bumped(statuses, status) ==
    [s \in DOMAIN statuses \cup {status} |->
        IF s \notin DOMAIN statuses THEN 1
        ELSE IF s = status THEN statuses[s] + 1 ELSE statuses[s]]

(* The first body that parses is the sample for its status. *)
\* variant of Sampled, with a slip
SampledLast(bodies, status, body) ==
    [s \in DOMAIN bodies \cup (IF Parses(body) THEN {status} ELSE {}) |->
        IF s = status /\ Parses(body) THEN body ELSE bodies[s]]
Sampled(bodies, status, body) ==
    [s \in DOMAIN bodies \cup (IF Parses(body) THEN {status} ELSE {}) |->
        IF s \in DOMAIN bodies THEN bodies[s] ELSE body]

Observe(seen, endpoint, status, body) ==
    IF endpoint \notin DOMAIN seen /\ ~ HasRoom(seen) THEN seen
    ELSE [e \in DOMAIN seen \cup {endpoint} |->
            IF e # endpoint THEN seen[e]
            ELSE [statuses |-> Bumped(Entry(seen, e).statuses, status),
                  bodies   |-> Sampled(Entry(seen, e).bodies, status, body)]]
============================================================================
