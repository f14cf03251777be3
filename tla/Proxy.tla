------------------------------- MODULE Proxy -------------------------------
(***************************************************************************)
(* The verifying proxy at work (internal/proxy/proxy.go, New, inspect,     *)
(* report; learn.go, Observe; record.go, Record).                          *)
(*                                                                         *)
(* net/http runs the handler of every request in a goroutine of its own:   *)
(* a process of this module.  The goroutines share the proxy's findings,   *)
(* its two counters, the recorder and the learner, each under its own      *)
(* lock; one critical section is one action.  The live log is written with *)
(* no lock held, so announcing is an action apart.                         *)
(***************************************************************************)
EXTENDS Learner, Sequences, TLC

CONSTANTS Requests,      \* the requests, one handler goroutine each
          Traffic,       \* the exchanges they may turn out to be
          Paths,         \* request paths and documented templates
          NoRoute,       \* no documented operation matches
          Statuses,      \* status codes, as the document spells them
          Documented,    \* template -> status codes its operation lists
          PromisesJSON,  \* <<template, status>> with a JSON schema
          Normalised,    \* NormalisePath: literal path -> learned template
          Bodies,        \* bodies that parse
          ProblemBody,   \* the body of the error handler's 502
          Details,       \* what the conformance checker may say
          MaxFindings    \* maxFindings: distinct findings kept

(* One exchange as the proxy saw it.  "problems" and "extras" are what     *)
(* conform.Check and conform.Undocumented say of its body.                 *)
Exchange ==
    [path : Paths, route : Paths \cup {NoRoute}, status : Statuses,
     json : BOOLEAN, body : Bodies \cup {Garbled, NoBody},
     problems : Seq(Details), extras : Seq(Details)]

Kinds == {"undocumented-endpoint", "undocumented-status", "content-type",
          "shape", "undocumented-field"}
NoOperation  == "no documented operation matches this request"
NotJSONMedia == "answered something else where the document promises JSON"
NotValidJSON == "the response is not valid JSON"

(* A finding is identified by its kind, operation and detail: report's key *)
Finding == [kind : Kinds, path : Paths,
            detail : Details \cup Statuses \cup {NoOperation, NotJSONMedia, NotValidJSON}]

ASSUME ProxyAssumption ==
    /\ MaxFindings \in Nat
    /\ Traffic \subseteq Exchange
    /\ NoRoute \notin Paths /\ ProblemBody \in Bodies
    /\ {"200", "502"} \subseteq Statuses
    /\ IsFiniteSet(Requests)
    /\ Documented \in [Paths -> SUBSET Statuses]
    /\ PromisesJSON \subseteq Paths \X Statuses
    /\ Normalised \in [Paths -> Paths]

VARIABLES pc,        \* [Requests -> where the handler is]
          ex,        \* [Requests -> the exchange]
          at,        \* [Requests -> position of the next disagreement to report]
          findings,  \* Proxy.findings: finding -> [count, first]
          requests,  \* Proxy.requests
          dropped,   \* Proxy.dropped
          log,       \* the lines OnFinding printed
          recorded,  \* exchanges the recorder's file holds
          seen       \* Learner.seen

vars == <<pc, ex, at, findings, requests, dropped, log, recorded, seen>>

Init ==
    /\ pc = [r \in Requests |-> "idle"]
    /\ ex \in [Requests -> Traffic]
    /\ at = [r \in Requests |-> 1]
    /\ findings = << >> /\ requests = 0 /\ dropped = 0
    /\ log = << >> /\ recorded = {} /\ seen = << >>

---------------------------------------------------------------------------
(* inspect: the decision tree, as the sequence of findings it reports.     *)

One(kind, path, detail) == <<[kind |-> kind, path |-> path, detail |-> detail]>>

Each(kind, path, details) ==
    [i \in DOMAIN details |-> [kind |-> kind, path |-> path, detail |-> details[i]]]

Unlisted(x) == x.route # NoRoute /\ x.status \notin Documented[x.route]

Promised(x) == <<x.route, x.status>> \in PromisesJSON

Disagreements(x) ==
    IF x.route = NoRoute
      THEN One("undocumented-endpoint", x.path, NoOperation)
    ELSE IF Unlisted(x)
      THEN One("undocumented-status", x.route, x.status)
    ELSE IF ~ Promised(x) THEN << >>
    ELSE IF ~ x.json
      THEN One("content-type", x.route, NotJSONMedia)
    ELSE IF ~ Parses(x.body)
      THEN One("shape", x.route, NotValidJSON)
    ELSE Each("shape", x.route, x.problems)
         \o Each("undocumented-field", x.route, x.extras)

(* Only what the document does not have is learned from: an unknown        *)
(* endpoint under its normalised path, an unlisted status under its own.   *)
Learns(x) == x.route = NoRoute \/ Unlisted(x)
Endpoint(x) == IF x.route = NoRoute THEN Normalised[x.path] ELSE x.route

Line(r) == Disagreements(ex[r])[at[r]]

(* Where the handler goes when the next disagreement to report is the i-th *)
After(x, i) ==
    IF i <= Len(Disagreements(x)) THEN "report"
    ELSE IF Learns(x) THEN "learn" ELSE "done"

---------------------------------------------------------------------------
(* The handler: forwarding. *)

Goto(r, place) == pc' = [pc EXCEPT ![r] = place]

Arrive(r) ==
    /\ pc[r] = "idle"
    /\ Goto(r, "forward")
    /\ UNCHANGED <<ex, at, findings, requests, dropped, log, recorded, seen>>

\* variant of Answered, with a slip
AnsweredUncounted(r) ==
    /\ pc[r] = "forward"
    /\ Goto(r, "record")
    /\ UNCHANGED <<ex, at, findings, requests, dropped, log, recorded, seen>>
Answered(r) ==
    /\ pc[r] = "forward"
    /\ Goto(r, "count")
    /\ UNCHANGED <<ex, at, findings, requests, dropped, log, recorded, seen>>

(* rp.ErrorHandler wrote a 502 and a problem document for the target.      *)
BadGateway(x) ==
    [x EXCEPT !.status = "502", !.json = TRUE, !.body = ProblemBody]

Unreachable(r) ==
    /\ pc[r] = "forward"
    /\ Goto(r, "count")
    /\ ex' = [ex EXCEPT ![r] = BadGateway(@)]
    /\ UNCHANGED <<at, findings, requests, dropped, log, recorded, seen>>

(* A 101: the connection is hijacked past capture, so what the proxy saw,  *)
(* once the tunnel closes, is the initial 200 and no body.                 *)
Tunnelled(x) == [x EXCEPT !.status = "200", !.body = NoBody]

Upgrade(r) ==
    /\ pc[r] = "forward"
    /\ Goto(r, "tunnel")
    /\ ex' = [ex EXCEPT ![r] = Tunnelled(@)]
    /\ UNCHANGED <<at, findings, requests, dropped, log, recorded, seen>>

TunnelCloses(r) ==
    /\ pc[r] = "tunnel"
    /\ Goto(r, "count")
    /\ UNCHANGED <<ex, at, findings, requests, dropped, log, recorded, seen>>

(* The target's body broke off: the reverse proxy panics to abort the      *)
(* client's response, past the observation that follows its call.          *)
Abort(r) ==
    /\ pc[r] = "forward"
    /\ Goto(r, "aborted")
    /\ UNCHANGED <<ex, at, findings, requests, dropped, log, recorded, seen>>

---------------------------------------------------------------------------
(* The handler: observation. *)

CountRequest(r) ==
    /\ pc[r] = "count"
    /\ requests' = requests + 1
    /\ Goto(r, "record")
    /\ UNCHANGED <<ex, at, findings, dropped, log, recorded, seen>>

\* variant of Record, with a slip
RecordLater(r) ==
    /\ pc[r] = "record"
    /\ recorded' = IF Disagreements(ex[r]) = << >> THEN recorded \cup {r} ELSE recorded
    /\ Goto(r, After(ex[r], at[r]))
    /\ UNCHANGED <<ex, at, findings, requests, dropped, log, seen>>
Record(r) ==
    /\ pc[r] = "record"
    /\ recorded' = recorded \cup {r}
    /\ Goto(r, After(ex[r], at[r]))
    /\ UNCHANGED <<ex, at, findings, requests, dropped, log, seen>>

(* report's critical section: a repeat is counted, a new finding is kept,  *)
(* and at the limit it is only counted as dropped.                         *)
\* variant of AtLimit, with a slip
OneTooMany(f) == f \notin DOMAIN findings /\ Cardinality(DOMAIN findings) > MaxFindings
AtLimit(f) == f \notin DOMAIN findings /\ Cardinality(DOMAIN findings) >= MaxFindings

\* variant of WithSighting, with a slip
WithSightingRestarted(f, path) ==
    [g \in DOMAIN findings \cup {f} |->
        IF g # f THEN findings[g] ELSE [count |-> 1, first |-> path]]
WithSighting(f, path) ==
    [g \in DOMAIN findings \cup {f} |->
        IF g # f THEN findings[g]
        ELSE IF f \in DOMAIN findings
             THEN [findings[f] EXCEPT !.count = @ + 1]
             ELSE [count |-> 1, first |-> path]]

\* variant of IsNews, with a slip
AnnouncesRepeats(f) == TRUE
IsNews(f) == f \notin DOMAIN findings

Report(r) ==
    /\ pc[r] = "report"
    /\ LET f == Line(r) IN
         IF AtLimit(f)
         THEN /\ dropped' = dropped + 1
              /\ UNCHANGED findings
              /\ Goto(r, After(ex[r], at[r] + 1))
         ELSE /\ findings' = WithSighting(f, ex[r].path)
              /\ UNCHANGED dropped
              /\ Goto(r, IF IsNews(f) THEN "announce" ELSE After(ex[r], at[r] + 1))
    /\ at' = [at EXCEPT ![r] = @ + 1]
    /\ UNCHANGED <<ex, requests, log, recorded, seen>>

(* The finding just kept, whose line goes to the live log. *)
JustKept(r) == Disagreements(ex[r])[at[r] - 1]

Announce(r) ==
    /\ pc[r] = "announce"
    /\ log' = Append(log, JustKept(r))
    /\ Goto(r, After(ex[r], at[r]))
    /\ UNCHANGED <<ex, at, findings, requests, dropped, recorded, seen>>

(* OnFinding panicked; the handler's deferred recover ends its observation *)
AnnouncePanics(r) ==
    /\ pc[r] = "announce"
    /\ Goto(r, "recovered")
    /\ UNCHANGED <<ex, at, findings, requests, dropped, log, recorded, seen>>

Learn(r) ==
    /\ pc[r] = "learn"
    /\ seen' = Observe(seen, Endpoint(ex[r]), ex[r].status, ex[r].body)
    /\ Goto(r, "done")
    /\ UNCHANGED <<ex, at, findings, requests, dropped, log, recorded>>

Forward(r) == Answered(r) \/ Unreachable(r) \/ Upgrade(r) \/ TunnelCloses(r) \/ Abort(r)

Observation(r) == CountRequest(r) \/ Record(r) \/ Report(r) \/ Announce(r) \/ Learn(r)

Handler(r) == Arrive(r) \/ Forward(r) \/ Observation(r) \/ AnnouncePanics(r)

Next == \E r \in Requests : Handler(r)

Spec == Init /\ [][Next]_vars

---------------------------------------------------------------------------
Places == {"idle", "forward", "tunnel", "aborted", "count", "record", "report",
           "announce", "learn", "recovered", "done"}

TypeOK ==
    /\ pc \in [Requests -> Places]
    /\ ex \in [Requests -> Exchange]
    /\ at \in [Requests -> Nat \ {0}]
    /\ DOMAIN findings \subseteq Finding
    /\ findings \in [DOMAIN findings -> [count : Nat \ {0}, first : Paths]]
    /\ requests \in Nat /\ dropped \in Nat
    /\ log \in Seq(Finding)
    /\ recorded \subseteq Requests
    /\ DOMAIN seen \subseteq Paths

(* The disagreements the handlers have already reported, as <<request,     *)
(* position>>, and those of them that are sightings of f.                  *)
Sighted == UNION {{<<r, i>> : i \in 1..(at[r] - 1)} : r \in Requests}
SightedAs(s) == Disagreements(ex[s[1]])[s[2]]
Sightings(f) == {s \in Sighted : SightedAs(s) = f}

(* "Scanner traffic hits endless distinct paths, and a long-running proxy  *)
(* must not grow with it" (proxy.go:104-106; learn.go:42-43).              *)
Bounded ==
    /\ IsFiniteSet(DOMAIN findings) /\ Cardinality(DOMAIN findings) <= MaxFindings
    /\ Cardinality(DOMAIN seen) <= MaxLearned

(* The count of a finding is every sighting of it, whichever handlers saw  *)
(* it and in whatever order: none was dropped before it was kept, none is  *)
(* lost to another handler.  Every other sighting is in the dropped        *)
(* counter: kept and dropped account for all there were (proxy.go:239-258) *)
CountsAreExact ==
    /\ \A f \in DOMAIN findings : findings[f].count = Cardinality(Sightings(f))
    /\ dropped = Cardinality({s \in Sighted : SightedAs(s) \notin DOMAIN findings})

(* No line appears twice in the live log, and every line is a kept finding *)
NoRepeatedLine ==
    /\ \A i, j \in 1..Len(log) : log[i] = log[j] => i = j
    /\ \A i \in 1..Len(log) : log[i] \in DOMAIN findings

(* What is kept is in the log, unless a handler is still at its line: about *)
(* to write it, or past a panic of OnFinding.                              *)
NothingUnprinted ==
    \A f \in DOMAIN findings :
        \/ \E i \in 1..Len(log) : log[i] = f
        \/ \E r \in Requests : pc[r] \in {"announce", "recovered"} /\ JustKept(r) = f

(* "OnFinding is called once per new finding", although the lock is free   *)
(* by then: a kept finding is in the live log once, or some handler owes   *)
(* its line, and no other handler's repeat swallows it (proxy.go:84-86,    *)
(* 258-264).                                                               *)
KeptIsPrintedOnce == NoRepeatedLine /\ NothingUnprinted

(* Whatever the report says can be looked up in the recording: the request *)
(* a finding was first seen on is in the file already (proxy.go:163-166).  *)
EvidenceIsRecorded ==
    \A f \in DOMAIN findings : \E s \in Sightings(f) :
        s[1] \in recorded /\ ex[s[1]].path = findings[f].first

(* The learner's count of a status is the number of exchanges that had it: *)
(* an endpoint it holds never missed one (learn.go:62-74).                 *)
Taught(e, s) ==
    {r \in Requests : /\ pc[r] = "done" /\ Learns(ex[r])
                      /\ Endpoint(ex[r]) = e /\ ex[r].status = s}

LearnedIsExact ==
    \A e \in DOMAIN seen : \A s \in Statuses :
        IF s \in DOMAIN seen[e].statuses
        THEN seen[e].statuses[s] = Cardinality(Taught(e, s))
        ELSE Taught(e, s) = {}

(* First come, first kept: a kept finding keeps the request it was first   *)
(* seen on and its count never goes back, and the schema of a learned      *)
(* response is inferred from the first body that parsed, which no later    *)
(* sample replaces (proxy.go:243-257; learn.go:36-38, 76-81).              *)
FirstsStay ==
    [][/\ \A f \in DOMAIN findings :
            /\ f \in DOMAIN findings'
            /\ findings'[f].first = findings[f].first
            /\ findings'[f].count >= findings[f].count
       /\ \A e \in DOMAIN seen : \A s \in DOMAIN seen[e].bodies :
            /\ e \in DOMAIN seen' /\ s \in DOMAIN seen'[e].bodies
            /\ seen'[e].bodies[s] = seen[e].bodies[s]]_vars

(* The abstract log this proxy implements. *)
Drift == INSTANCE DriftLog WITH
             Limit   <- MaxFindings,
             counts  <- [f \in DOMAIN findings |-> findings[f].count],
             printed <- log

(* However the handlers interleave, the proxy keeps and prints findings as *)
(* DriftLog says (proxy.go:239-265).                                       *)
ImplementsDriftLog == Drift!Spec
============================================================================
