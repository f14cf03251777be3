---------------------------- MODULE ProxyProofs ----------------------------
(***************************************************************************)
(* Proofs about Proxy: its type invariant, the bound on what it keeps,     *)
(* that every kept finding is printed once, that it implements DriftLog,   *)
(* and that its counts, its recording and its learner are exact.  Then     *)
(* about ProxyRun: a run of the command is a run of the proxy, its summary *)
(* and its report fit together whatever is still running, and they are     *)
(* complete when the server drained.                                       *)
(***************************************************************************)
EXTENDS ProxyRun, FiniteSetTheorems, TLAPS

(* What inspect reports of an exchange is a sequence of findings.          *)
LEMMA DisagreementsType ==
    ASSUME NEW x \in Exchange
    PROVE  Disagreements(x) \in Seq(Finding)
<1>1. ASSUME NEW k \in Kinds, NEW p \in Paths,
             NEW d \in Details \cup Statuses \cup {NoOperation, NotJSONMedia, NotValidJSON}
      PROVE  One(k, p, d) \in Seq(Finding)
  BY <1>1 DEF One, Finding
<1>2. ASSUME NEW k \in Kinds, NEW p \in Paths, NEW s \in Seq(Details)
      PROVE  Each(k, p, s) \in Seq(Finding)
  <2>1. Len(s) \in Nat /\ DOMAIN s = 1..Len(s) /\ \A i \in 1..Len(s) : s[i] \in Details
    BY <1>2
  <2>2. Each(k, p, s) \in [1..Len(s) -> Finding]
    BY <1>2, <2>1 DEF Each, Finding
  <2> QED
    BY <2>1, <2>2
<1>3. x.status \in Statuses /\ x.problems \in Seq(Details) /\ x.extras \in Seq(Details)
      /\ x.path \in Paths /\ x.route \in Paths \cup {NoRoute}
  BY DEF Exchange
<1>4. << >> \in Seq(Finding)
  OBVIOUS
<1>5. {"undocumented-endpoint", "undocumented-status", "content-type",
       "shape", "undocumented-field"} = Kinds
  BY DEF Kinds
<1>6. CASE x.route = NoRoute
  BY <1>1, <1>3, <1>5, <1>6 DEF Disagreements
<1>7. CASE x.route # NoRoute
  <2>1. x.route \in Paths
    BY <1>3, <1>7
  <2>2. Each("shape", x.route, x.problems) \o Each("undocumented-field", x.route, x.extras)
            \in Seq(Finding)
    <3>1. "shape" \in Kinds /\ "undocumented-field" \in Kinds
      BY DEF Kinds
    <3>2. Each("shape", x.route, x.problems) \in Seq(Finding)
      BY <1>2, <1>3, <2>1, <3>1
    <3>3. Each("undocumented-field", x.route, x.extras) \in Seq(Finding)
      BY <1>2, <1>3, <2>1, <3>1
    <3> QED
      BY <3>2, <3>3
  <2> QED
    BY <1>1, <1>3, <1>4, <1>5, <1>7, <2>1, <2>2 DEF Disagreements
<1> QED
  BY <1>6, <1>7

(* The proxy's own answer, and a tunnel's, is still an exchange. *)
LEMMA BadGatewayType ==
    ASSUME NEW x \in Exchange
    PROVE  BadGateway(x) \in Exchange
BY ProxyAssumption DEF Exchange, BadGateway

LEMMA TunnelledType ==
    ASSUME NEW x \in Exchange
    PROVE  Tunnelled(x) \in Exchange
BY ProxyAssumption DEF Exchange, Tunnelled

(* A step that adds at most one element keeps a finite set within a limit  *)
(* it had not reached.                                                     *)
LEMMA OneMoreFits ==
    ASSUME NEW S, IsFiniteSet(S), NEW f, NEW n \in Nat,
           Cardinality(S) <= n, f \in S \/ Cardinality(S) < n
    PROVE  IsFiniteSet(S \cup {f}) /\ Cardinality(S \cup {f}) <= n
<1>1. IsFiniteSet(S \cup {f})
      /\ (Cardinality(S \cup {f}) = Cardinality(S) \/ Cardinality(S \cup {f}) = Cardinality(S) + 1)
      /\ (f \in S => Cardinality(S \cup {f}) = Cardinality(S))
  BY FS_AddElement
<1>2. Cardinality(S) \in Nat
  BY FS_CardinalityType
<1> QED
  BY <1>1, <1>2
---------------------------------------------------------------------------
(* The inductive invariant. *)

(* A handler that has nothing reported yet is at its first disagreement;   *)
(* one that reports is at a disagreement there is; one that announces has  *)
(* moved past the one it announces.                                        *)
Positions ==
    \A r \in Requests :
        /\ pc[r] \in {"idle", "forward", "tunnel", "count", "record"} => at[r] = 1
        /\ pc[r] = "report" => at[r] \in 1..Len(Disagreements(ex[r]))
        /\ pc[r] = "announce" => at[r] - 1 \in 1..Len(Disagreements(ex[r]))

(* What waits to be announced is kept, is not in the log yet, and waits in *)
(* one handler only.                                                       *)
Pending ==
    \A r \in Requests : pc[r] = "announce" =>
        /\ JustKept(r) \in DOMAIN findings
        /\ \A i \in 1..Len(log) : log[i] # JustKept(r)
        /\ \A q \in Requests : pc[q] = "announce" /\ q # r => JustKept(q) # JustKept(r)

Finite == IsFiniteSet(DOMAIN seen)

IInv ==
    /\ TypeOK /\ Positions /\ Bounded /\ Finite /\ Pending
    /\ NoRepeatedLine /\ NothingUnprinted

(* Where After sends a handler, its position is right, and it announces    *)
(* nothing.                                                                *)
LEMMA AfterGoesRight ==
    ASSUME NEW x \in Exchange, NEW i \in Nat \ {0}
    PROVE  /\ After(x, i) \in {"report", "learn", "done"}
           /\ After(x, i) = "report" => i \in 1..Len(Disagreements(x))
<1>1. Len(Disagreements(x)) \in Nat
  BY DisagreementsType
<1> QED
  BY <1>1 DEF After

(* Observe changes the learner's map at most at the endpoint it is given,  *)
(* and not beyond MaxLearned.                                              *)
LEMMA ObserveType ==
    ASSUME NEW e, NEW s, NEW b, IsFiniteSet(DOMAIN seen), Cardinality(DOMAIN seen) <= MaxLearned
    PROVE  LET new == Observe(seen, e, s, b) IN
             /\ DOMAIN new \subseteq DOMAIN seen \cup {e}
             /\ IsFiniteSet(DOMAIN new)
             /\ Cardinality(DOMAIN new) <= MaxLearned
<1>1. CASE e \notin DOMAIN seen /\ ~ HasRoom(seen)
  BY <1>1 DEF Observe
<1>2. CASE e \in DOMAIN seen \/ HasRoom(seen)
  <2>1. DOMAIN Observe(seen, e, s, b) = DOMAIN seen \cup {e}
    BY <1>2 DEF Observe
  <2>2. e \in DOMAIN seen \/ Cardinality(DOMAIN seen) < MaxLearned
    BY <1>2 DEF HasRoom
  <2>3. IsFiniteSet(DOMAIN seen \cup {e}) /\ Cardinality(DOMAIN seen \cup {e}) <= MaxLearned
    BY <2>2, OneMoreFits, LearnerAssumption
  <2> QED
    BY <2>1, <2>3
<1> QED
  BY <1>1, <1>2

LEMMA InitHolds == Init => IInv
<1> SUFFICES ASSUME Init PROVE IInv
  OBVIOUS
<1>1. DOMAIN findings = {} /\ DOMAIN seen = {} /\ Len(log) = 0
  BY DEF Init
<1>2. IsFiniteSet({}) /\ Cardinality({}) = 0
  BY FS_EmptySet
<1>3. TypeOK
  <2>1. findings \in [DOMAIN findings -> [count : Nat \ {0}, first : Paths]]
    BY <1>1 DEF Init
  <2>2. log \in Seq(Finding)
    BY DEF Init
  <2>3. ex \in [Requests -> Exchange]
    BY ProxyAssumption DEF Init
  <2> QED
    BY <1>1, <2>1, <2>2, <2>3 DEF Init, TypeOK, Places
<1>4. Positions
  BY DEF Init, Positions
<1>5. Bounded /\ Finite
  BY <1>1, <1>2, ProxyAssumption, LearnerAssumption DEF Bounded, Finite
<1>6. Pending
  BY DEF Init, Pending
<1>7. NoRepeatedLine
  BY <1>1 DEF NoRepeatedLine
<1>8. NothingUnprinted
  BY <1>1 DEF NothingUnprinted
<1> QED
  BY <1>3, <1>4, <1>5, <1>6, <1>7, <1>8 DEF IInv

(* A step of one handler that is nowhere near a finding: the shared state  *)
(* stays, and the handler neither arrives at nor leaves an announcement.   *)
LEMMA QuietStep ==
    ASSUME IInv, NEW r \in Requests, NEW place \in Places \ {"announce"},
           pc[r] \notin {"announce", "recovered"}, Goto(r, place),
           UNCHANGED <<findings, dropped, log, at>>,
           ex' \in [Requests -> Exchange],
           \A q \in Requests \ {r} : ex'[q] = ex[q],
           place \in {"forward", "tunnel", "count", "record"} => at[r] = 1,
           place = "report" => at[r] \in 1..Len(Disagreements(ex'[r])),
           place # "idle",
           requests' \in Nat, recorded' \subseteq Requests,
           DOMAIN seen' \subseteq Paths, IsFiniteSet(DOMAIN seen'),
           Cardinality(DOMAIN seen') <= MaxLearned
    PROVE  IInv'
<1> USE DEF IInv
<1>0. pc \in [Requests -> Places] /\ pc' = [pc EXCEPT ![r] = place]
  BY DEF TypeOK, Goto
<1>1. TypeOK'
  BY <1>0 DEF TypeOK
<1>2. Positions'
  BY <1>0 DEF Positions
<1>3. Bounded' /\ Finite'
  BY DEF Bounded, Finite
<1>4. \A q \in Requests : pc'[q] = "announce" => q # r /\ pc[q] = "announce" /\ JustKept(q)' = JustKept(q)
  BY <1>0 DEF JustKept
<1>5. Pending'
  BY <1>4 DEF Pending
<1>6. NoRepeatedLine'
  BY DEF NoRepeatedLine
<1>7. NothingUnprinted'
  <2>1. \A q \in Requests : pc[q] \in {"announce", "recovered"} => q # r
    OBVIOUS
  <2>2. \A q \in Requests : q # r => pc'[q] = pc[q] /\ JustKept(q)' = JustKept(q)
    BY <1>0 DEF JustKept
  <2> QED
    BY <2>1, <2>2 DEF NothingUnprinted
<1> QED
  BY <1>1, <1>2, <1>3, <1>5, <1>6, <1>7

(* An exchange stays one, whatever the handler learns about its status.    *)
LEMMA ForwardKeeps ==
    ASSUME IInv, NEW r \in Requests, Arrive(r) \/ Forward(r)
    PROVE  IInv'
<1>0. pc \in [Requests -> Places] /\ ex \in [Requests -> Exchange] /\ at \in [Requests -> Nat \ {0}]
      /\ DOMAIN seen \subseteq Paths /\ recorded \subseteq Requests /\ requests \in Nat
      /\ IsFiniteSet(DOMAIN seen) /\ Cardinality(DOMAIN seen) <= MaxLearned
  BY DEF IInv, TypeOK, Bounded, Finite
<1>1. pc[r] \in {"idle", "forward", "tunnel"} /\ at[r] = 1
  BY DEF Arrive, Forward, Answered, Unreachable, Upgrade, TunnelCloses, Abort, IInv, Positions
<1>2. \A place \in {"forward", "tunnel", "count", "aborted"} : place \in Places \ {"announce"}
  BY DEF Places
<1>3. CASE Arrive(r)
  BY <1>0, <1>1, <1>2, <1>3, QuietStep DEF Arrive
<1>4. CASE Answered(r)
  BY <1>0, <1>1, <1>2, <1>4, QuietStep DEF Answered
<1>5. CASE Unreachable(r)
  <2>1. ex' = [ex EXCEPT ![r] = BadGateway(ex[r])]
    BY <1>5 DEF Unreachable
  <2>2. ex' \in [Requests -> Exchange]
    BY <1>0, <2>1, BadGatewayType
  <2> QED
    BY <1>0, <1>1, <1>2, <1>5, <2>1, <2>2, QuietStep DEF Unreachable
<1>6. CASE Upgrade(r)
  <2>1. ex' = [ex EXCEPT ![r] = Tunnelled(ex[r])]
    BY <1>6 DEF Upgrade
  <2>2. ex' \in [Requests -> Exchange]
    BY <1>0, <2>1, TunnelledType
  <2> QED
    BY <1>0, <1>1, <1>2, <1>6, <2>1, <2>2, QuietStep DEF Upgrade
<1>7. CASE TunnelCloses(r)
  BY <1>0, <1>1, <1>2, <1>7, QuietStep DEF TunnelCloses
<1>8. CASE Abort(r)
  BY <1>0, <1>1, <1>2, <1>8, QuietStep DEF Abort
<1> QED
  BY <1>3, <1>4, <1>5, <1>6, <1>7, <1>8 DEF Forward

LEMMA CountAndRecordKeep ==
    ASSUME IInv, NEW r \in Requests, CountRequest(r) \/ Record(r)
    PROVE  IInv'
<1>0. pc \in [Requests -> Places] /\ ex \in [Requests -> Exchange] /\ at \in [Requests -> Nat \ {0}]
      /\ DOMAIN seen \subseteq Paths /\ recorded \subseteq Requests /\ requests \in Nat
      /\ IsFiniteSet(DOMAIN seen) /\ Cardinality(DOMAIN seen) <= MaxLearned
  BY DEF IInv, TypeOK, Bounded, Finite
<1>1. pc[r] \in {"count", "record"} /\ at[r] = 1
  BY DEF CountRequest, Record, IInv, Positions
<1>2. \A place \in {"record", "report", "learn", "done"} : place \in Places \ {"announce"}
  BY DEF Places
<1>3. CASE CountRequest(r)
  BY <1>0, <1>1, <1>2, <1>3, QuietStep DEF CountRequest
<1>4. CASE Record(r)
  <2>1. /\ After(ex[r], at[r]) \in {"report", "learn", "done"}
        /\ After(ex[r], at[r]) = "report" => at[r] \in 1..Len(Disagreements(ex[r]))
    BY <1>0, AfterGoesRight
  <2> DEFINE place == After(ex[r], at[r])
  <2>2. /\ place \in Places \ {"announce"} /\ place # "idle"
        /\ place \notin {"forward", "tunnel", "count", "record"}
        /\ place = "report" => at[r] \in 1..Len(Disagreements(ex[r]))
    BY <1>2, <2>1
  <2>3. /\ Goto(r, place) /\ recorded' \subseteq Requests
        /\ UNCHANGED <<ex, at, findings, requests, dropped, log, seen>>
    BY <1>0, <1>4 DEF Record
  <2> HIDE DEF place
  <2> QED
    BY <1>0, <1>1, <2>2, <2>3, QuietStep
<1> QED
  BY <1>3, <1>4

LEMMA LearnKeeps ==
    ASSUME IInv, NEW r \in Requests, Learn(r)
    PROVE  IInv'
<1>0. pc \in [Requests -> Places] /\ ex \in [Requests -> Exchange]
      /\ DOMAIN seen \subseteq Paths /\ recorded \subseteq Requests /\ requests \in Nat
      /\ IsFiniteSet(DOMAIN seen) /\ Cardinality(DOMAIN seen) <= MaxLearned
  BY DEF IInv, TypeOK, Bounded, Finite
<1>1. Endpoint(ex[r]) \in Paths
  BY <1>0, ProxyAssumption DEF Endpoint, Exchange
<1>2. DOMAIN seen' \subseteq Paths /\ IsFiniteSet(DOMAIN seen') /\ Cardinality(DOMAIN seen') <= MaxLearned
  <2>1. seen' = Observe(seen, Endpoint(ex[r]), ex[r].status, ex[r].body)
    BY DEF Learn
  <2>2. /\ DOMAIN seen' \subseteq DOMAIN seen \cup {Endpoint(ex[r])}
        /\ IsFiniteSet(DOMAIN seen') /\ Cardinality(DOMAIN seen') <= MaxLearned
    BY <1>0, <2>1, ObserveType
  <2> QED
    BY <1>0, <1>1, <2>2
<1>3. "done" \in Places \ {"announce"}
  BY DEF Places
<1> QED
  BY <1>0, <1>2, <1>3, QuietStep DEF Learn

(* The handler that printed its finding no longer waits to; no other       *)
(* handler waits to print the same.                                        *)
LEMMA AnnounceKeeps ==
    ASSUME IInv, NEW r \in Requests, Announce(r) \/ AnnouncePanics(r)
    PROVE  IInv'
<1> USE DEF IInv
<1>0. pc \in [Requests -> Places] /\ ex \in [Requests -> Exchange] /\ at \in [Requests -> Nat \ {0}]
      /\ log \in Seq(Finding) /\ DOMAIN findings \subseteq Finding
  BY DEF TypeOK
<1>1. /\ pc[r] = "announce" /\ UNCHANGED <<ex, at, findings, requests, dropped, recorded, seen>>
      /\ JustKept(r) \in DOMAIN findings
      /\ \A i \in 1..Len(log) : log[i] # JustKept(r)
  BY DEF Announce, AnnouncePanics, Pending
<1>2. /\ After(ex[r], at[r]) \in {"report", "learn", "done"}
      /\ After(ex[r], at[r]) = "report" => at[r] \in 1..Len(Disagreements(ex[r]))
  BY <1>0, AfterGoesRight
<1>3. PICK place \in {"report", "learn", "done", "recovered"} :
          /\ pc' = [pc EXCEPT ![r] = place]
          /\ place = "report" => at[r] \in 1..Len(Disagreements(ex[r]))
  <2>1. CASE Announce(r)
    <3>1. pc' = [pc EXCEPT ![r] = After(ex[r], at[r])]
      BY <2>1 DEF Announce, Goto
    <3> QED
      BY <1>2, <3>1
  <2>2. CASE AnnouncePanics(r)
    BY <2>2 DEF AnnouncePanics, Goto
  <2> QED
    BY <2>1, <2>2
<1>4. log' = log \/ log' = Append(log, JustKept(r))
  BY DEF Announce, AnnouncePanics
<1>5. TypeOK'
  <2>1. pc' \in [Requests -> Places]
    BY <1>0, <1>3 DEF Places
  <2>2. log' \in Seq(Finding)
    <3>1. JustKept(r) \in Finding
      BY <1>0, <1>1
    <3>2. Append(log, JustKept(r)) \in Seq(Finding)
      BY <1>0, <3>1
    <3> QED
      BY <1>0, <1>4, <3>2
  <2> QED
    BY <1>1, <2>1, <2>2 DEF TypeOK
<1>6. Positions'
  BY <1>0, <1>1, <1>3 DEF Positions
<1>7. Bounded' /\ Finite'
  BY <1>1 DEF Bounded, Finite
<1>8. \A i \in 1..Len(log') :
          \/ i \in 1..Len(log) /\ log'[i] = log[i]
          \/ i = Len(log) + 1 /\ log'[i] = JustKept(r)
  <2>1. CASE log' = log
    BY <1>0, <2>1
  <2>2. CASE log' = Append(log, JustKept(r))
    <3>1. JustKept(r) \in Finding /\ Len(log) \in Nat
      BY <1>0, <1>1
    <3>2. /\ Len(log') = Len(log) + 1 /\ log'[Len(log) + 1] = JustKept(r)
          /\ \A i \in 1..Len(log) : log'[i] = log[i]
      BY <1>0, <2>2, <3>1
    <3> QED
      BY <2>2, <3>1, <3>2
  <2> QED
    BY <1>4, <2>1, <2>2
<1>9. Pending'
  <2> SUFFICES ASSUME NEW q \in Requests, pc'[q] = "announce"
               PROVE  /\ JustKept(q)' \in DOMAIN findings'
                      /\ \A i \in 1..Len(log') : log'[i] # JustKept(q)'
                      /\ \A p \in Requests : pc'[p] = "announce" /\ p # q => JustKept(p)' # JustKept(q)'
    BY DEF Pending
  <2>1. \A p \in Requests : pc'[p] = "announce" => p # r /\ pc[p] = "announce" /\ JustKept(p)' = JustKept(p)
    BY <1>0, <1>1, <1>3 DEF JustKept
  <2>2. JustKept(q) # JustKept(r)
    BY <1>1, <2>1 DEF Pending
  <2>3. \A i \in 1..Len(log) : log[i] # JustKept(q)
    BY <2>1 DEF Pending
  <2> QED
    BY <1>1, <1>8, <2>1, <2>2, <2>3 DEF Pending
<1>10. NoRepeatedLine'
  <2>1. \A i \in 1..Len(log') : log'[i] \in DOMAIN findings'
    BY <1>1, <1>8 DEF NoRepeatedLine
  <2>2. \A i, j \in 1..Len(log') : log'[i] = log'[j] => i = j
    BY <1>1, <1>8 DEF NoRepeatedLine
  <2> QED
    BY <2>1, <2>2 DEF NoRepeatedLine
<1>11. NothingUnprinted'
  <2> SUFFICES ASSUME NEW f \in DOMAIN findings, \A i \in 1..Len(log') : log'[i] # f
               PROVE  \E q \in Requests : pc'[q] \in {"announce", "recovered"} /\ JustKept(q)' = f
    BY <1>1 DEF NothingUnprinted
  <2>1. \A i \in 1..Len(log) : i \in 1..Len(log') /\ log'[i] = log[i]
    BY <1>0, <1>1, <1>4
  <2>2. PICK q \in Requests : pc[q] \in {"announce", "recovered"} /\ JustKept(q) = f
    BY <2>1 DEF NothingUnprinted
  <2>3. JustKept(q)' = JustKept(q)
    BY <1>1 DEF JustKept
  <2>4. CASE q = r
    <3>1. CASE Announce(r)
      <4>1. log' = Append(log, f)
        BY <2>2, <2>4, <3>1 DEF Announce
      <4>2. Len(log) + 1 \in 1..Len(log') /\ log'[Len(log) + 1] = f
        BY <1>0, <4>1
      <4> QED
        BY <4>2
    <3>2. CASE AnnouncePanics(r)
      <4>1. pc'[r] = "recovered"
        BY <1>0, <3>2 DEF AnnouncePanics, Goto
      <4> QED
        BY <2>2, <2>3, <2>4, <4>1
    <3> QED
      BY <3>1, <3>2
  <2>5. CASE q # r
    BY <1>0, <1>3, <2>2, <2>3, <2>5
  <2> QED
    BY <2>4, <2>5
<1> QED
  BY <1>5, <1>6, <1>7, <1>9, <1>10, <1>11

(* The finding just kept was not in the table before, so it is neither in  *)
(* the log nor waiting in another handler.                                 *)
LEMMA ReportKeeps ==
    ASSUME IInv, NEW r \in Requests, Report(r)
    PROVE  IInv'
<1> USE DEF IInv
<1> DEFINE f == Line(r)
<1>0. pc \in [Requests -> Places] /\ ex \in [Requests -> Exchange] /\ at \in [Requests -> Nat \ {0}]
      /\ log \in Seq(Finding) /\ DOMAIN findings \subseteq Finding /\ dropped \in Nat
  BY DEF TypeOK
<1>1. /\ pc[r] = "report" /\ at' = [at EXCEPT ![r] = @ + 1]
      /\ UNCHANGED <<ex, requests, log, recorded, seen>>
  BY DEF Report
<1>2. at[r] \in 1..Len(Disagreements(ex[r])) /\ f \in Finding
  <2>1. at[r] \in 1..Len(Disagreements(ex[r]))
    BY <1>1 DEF Positions
  <2>2. Disagreements(ex[r]) \in Seq(Finding)
    BY <1>0, DisagreementsType
  <2> QED
    BY <2>1, <2>2 DEF Line
<1>3. /\ After(ex[r], at[r] + 1) \in {"report", "learn", "done"}
      /\ After(ex[r], at[r] + 1) = "report" => at[r] + 1 \in 1..Len(Disagreements(ex[r]))
  BY <1>0, AfterGoesRight
<1>4. PICK place \in {"report", "learn", "done", "announce"} :
          /\ pc' = [pc EXCEPT ![r] = place]
          /\ place = "report" => at[r] + 1 \in 1..Len(Disagreements(ex[r]))
          /\ place = "announce" => f \notin DOMAIN findings /\ f \in DOMAIN findings'
  BY <1>3 DEF Report, Goto, IsNews, WithSighting
<1>5. /\ DOMAIN findings \subseteq DOMAIN findings'
      /\ DOMAIN findings' \subseteq DOMAIN findings \cup {f}
      /\ AtLimit(f) => findings' = findings
      /\ ~ AtLimit(f) => findings' = WithSighting(f, ex[r].path)
  BY DEF Report, WithSighting
<1>6. TypeOK'
  <2>1. pc' \in [Requests -> Places]
    BY <1>0, <1>4 DEF Places
  <2>2. at' \in [Requests -> Nat \ {0}]
    BY <1>0, <1>1
  <2>3. findings' \in [DOMAIN findings' -> [count : Nat \ {0}, first : Paths]]
    <3>1. CASE AtLimit(f)
      BY <1>5, <3>1 DEF TypeOK
    <3>2. CASE ~ AtLimit(f)
      <4>1. ex[r].path \in Paths
        BY <1>0 DEF Exchange
      <4>2. \A g \in DOMAIN findings : findings[g] \in [count : Nat \ {0}, first : Paths]
        BY DEF TypeOK
      <4>3. \A g \in DOMAIN findings : [findings[g] EXCEPT !.count = @ + 1] \in [count : Nat \ {0}, first : Paths]
        BY <4>2
      <4> QED
        BY <1>5, <3>2, <4>1, <4>2, <4>3 DEF WithSighting
    <3> QED
      BY <3>1, <3>2
  <2>4. dropped' \in Nat
    BY <1>0 DEF Report
  <2> QED
    BY <1>0, <1>1, <1>2, <1>5, <2>1, <2>2, <2>3, <2>4 DEF TypeOK
<1>7. Positions'
  <2> SUFFICES ASSUME NEW q \in Requests
               PROVE  /\ pc'[q] \in {"idle", "forward", "tunnel", "count", "record"} => at'[q] = 1
                      /\ pc'[q] = "report" => at'[q] \in 1..Len(Disagreements(ex[q]))
                      /\ pc'[q] = "announce" => at'[q] - 1 \in 1..Len(Disagreements(ex[q]))
    BY <1>1 DEF Positions
  <2>1. CASE q = r
    BY <1>0, <1>1, <1>2, <1>4, <2>1
  <2>2. CASE q # r
    BY <1>0, <1>1, <1>4, <2>2 DEF Positions
  <2> QED
    BY <2>1, <2>2
<1>8. Bounded' /\ Finite'
  <2>1. CASE AtLimit(f)
    BY <1>1, <1>5, <2>1 DEF Bounded, Finite
  <2>2. CASE ~ AtLimit(f)
    <3>1. DOMAIN findings' = DOMAIN findings \cup {f}
      BY <1>5, <2>2 DEF WithSighting
    <3>2. Cardinality(DOMAIN findings) \in Nat
      BY FS_CardinalityType DEF Bounded
    <3>3. f \in DOMAIN findings \/ Cardinality(DOMAIN findings) < MaxFindings
      BY <2>2, <3>2, ProxyAssumption DEF AtLimit
    <3>4. IsFiniteSet(DOMAIN findings') /\ Cardinality(DOMAIN findings') <= MaxFindings
      BY <3>1, <3>3, OneMoreFits, ProxyAssumption DEF Bounded
    <3> QED
      BY <1>1, <3>4 DEF Bounded, Finite
  <2> QED
    BY <2>1, <2>2
<1>9. Pending'
  <2>1. \A p \in Requests \ {r} : pc'[p] = pc[p] /\ JustKept(p)' = JustKept(p)
    BY <1>0, <1>1, <1>4 DEF JustKept
  <2>2. JustKept(r)' = f
    BY <1>0, <1>1 DEF JustKept, Line
  <2>3. pc'[r] = "announce" => f \notin DOMAIN findings /\ f \in DOMAIN findings'
    BY <1>0, <1>4
  <2>4. \A p \in Requests \ {r} : pc[p] = "announce" => JustKept(p) \in DOMAIN findings
    BY DEF Pending
  <2> SUFFICES ASSUME NEW q \in Requests, pc'[q] = "announce"
               PROVE  /\ JustKept(q)' \in DOMAIN findings'
                      /\ \A i \in 1..Len(log') : log'[i] # JustKept(q)'
                      /\ \A p \in Requests : pc'[p] = "announce" /\ p # q => JustKept(p)' # JustKept(q)'
    BY DEF Pending
  <2>5. CASE q = r
    BY <1>1, <2>1, <2>2, <2>3, <2>4, <2>5 DEF NoRepeatedLine
  <2>6. CASE q # r
    BY <1>1, <1>5, <2>1, <2>2, <2>3, <2>4, <2>6 DEF Pending
  <2> QED
    BY <2>5, <2>6
<1>10. NoRepeatedLine'
  BY <1>1, <1>5 DEF NoRepeatedLine
<1>11. NothingUnprinted'
  <2>1. \A q \in Requests \ {r} : pc'[q] = pc[q] /\ JustKept(q)' = JustKept(q)
    BY <1>0, <1>1, <1>4 DEF JustKept
  <2>2. JustKept(r)' = f
    BY <1>0, <1>1 DEF JustKept, Line
  <2>3. f \in DOMAIN findings' /\ f \notin DOMAIN findings => pc'[r] = "announce"
    BY <1>0, <1>5 DEF Report, Goto, IsNews
  <2>4. \A g \in DOMAIN findings :
            \/ \E i \in 1..Len(log) : log[i] = g
            \/ \E q \in Requests \ {r} : pc[q] \in {"announce", "recovered"} /\ JustKept(q) = g
    BY <1>1 DEF NothingUnprinted
  <2> QED
    BY <1>1, <1>5, <2>1, <2>2, <2>3, <2>4 DEF NothingUnprinted
<1> QED
  BY <1>6, <1>7, <1>8, <1>9, <1>10, <1>11

LEMMA NextKeeps == IInv /\ [Next]_vars => IInv'
<1> SUFFICES ASSUME IInv, [Next]_vars PROVE IInv'
  OBVIOUS
<1>1. CASE UNCHANGED vars
  BY <1>1 DEF vars, IInv, TypeOK, Positions, Bounded, Finite, Pending, NoRepeatedLine,
              NothingUnprinted, JustKept
<1>2. ASSUME NEW r \in Requests, Handler(r) PROVE IInv'
  BY <1>2, ForwardKeeps, CountAndRecordKeep, LearnKeeps, AnnounceKeeps, ReportKeeps
     DEF Handler, Observation
<1> QED
  BY <1>1, <1>2 DEF Next

---------------------------------------------------------------------------
(* The proxy's state is always of its type, whatever the document, the     *)
(* traffic and the number of handlers (proxy.go, Proxy; learn.go, Learner) *)
THEOREM TypeCorrect == Spec => []TypeOK
<1>1. IInv => TypeOK
  BY DEF IInv
<1> QED
  BY InitHolds, NextKeeps, <1>1, PTL DEF Spec

(* What the proxy and its learner keep stays within their limits, however  *)
(* many handlers race for the last place (proxy.go:104-106, 250;           *)
(* learn.go:42-43, 66).                                                    *)
THEOREM StaysBounded == Spec => []Bounded
<1>1. IInv => Bounded
  BY DEF IInv
<1> QED
  BY InitHolds, NextKeeps, <1>1, PTL DEF Spec

(* A kept finding has its line in the live log once, or some handler owes  *)
(* it, although the line is written outside the lock (proxy.go:84-86,      *)
(* 258-264).                                                               *)
THEOREM PrintedOnce == Spec => []KeptIsPrintedOnce
<1>1. IInv => KeptIsPrintedOnce
  BY DEF IInv, KeptIsPrintedOnce
<1> QED
  BY InitHolds, NextKeeps, <1>1, PTL DEF Spec
---------------------------------------------------------------------------
(* Refinement. *)

counts == [f \in DOMAIN findings |-> findings[f].count]

(* The abstract log counts its findings as this module does. *)
LEMMA SameCardinality ==
    ASSUME NEW S
    PROVE  Drift!Cardinality(S) = Cardinality(S)
BY DEF Drift!Cardinality, Cardinality

(* A critical section of report keeps a finding, counts a repeat of one,   *)
(* or, at the limit, leaves the log as it is.                              *)
LEMMA ReportRefines ==
    ASSUME IInv, NEW r \in Requests, Report(r)
    PROVE  \/ \E f \in Finding : Drift!Keep(f) \/ Drift!Repeat(f)
           \/ UNCHANGED Drift!vars
<1> USE DEF IInv
<1>1. Line(r) \in Finding
  <2>1. at[r] \in 1..Len(Disagreements(ex[r]))
    BY DEF Positions, Report
  <2>2. Disagreements(ex[r]) \in Seq(Finding)
    BY DisagreementsType DEF TypeOK
  <2> QED
    BY <2>1, <2>2 DEF Line
<1> PICK f \in Finding : f = Line(r)
  BY <1>1
<1>2. /\ log' = log
      /\ AtLimit(f) => findings' = findings
      /\ ~ AtLimit(f) => findings' = WithSighting(f, ex[r].path)
  BY DEF Report
<1>3. CASE AtLimit(f)
  BY <1>2, <1>3 DEF Drift!vars
<1>4. CASE f \in DOMAIN findings
  <2>1. ~ AtLimit(f)
    BY <1>4 DEF AtLimit
  <2>2. DOMAIN findings' = DOMAIN findings
    BY <1>2, <1>4, <2>1 DEF WithSighting
  <2>3. \A g \in DOMAIN findings :
            findings'[g] = IF g = f THEN [findings[f] EXCEPT !.count = @ + 1] ELSE findings[g]
    BY <1>2, <1>4, <2>1 DEF WithSighting
  <2>4. findings[f] \in [count : Nat \ {0}, first : Paths]
    BY <1>4 DEF TypeOK
  <2>5. findings'[f].count = findings[f].count + 1
    BY <1>4, <2>3, <2>4
  <2>6. counts' = [counts EXCEPT ![f] = @ + 1]
    BY <1>4, <2>2, <2>3, <2>5 DEF counts
  <2> QED
    BY <1>1, <1>2, <1>4, <2>6 DEF counts, Drift!Repeat
<1>5. CASE f \notin DOMAIN findings /\ ~ AtLimit(f)
  <2>1. Cardinality(DOMAIN findings) < MaxFindings
    <3>1. Cardinality(DOMAIN findings) \in Nat
      BY FS_CardinalityType DEF Bounded
    <3> QED
      BY <1>5, <3>1, ProxyAssumption DEF AtLimit
  <2>2. findings' = [g \in DOMAIN findings \cup {f} |->
                        IF g # f THEN findings[g] ELSE [count |-> 1, first |-> ex[r].path]]
    BY <1>2, <1>5 DEF WithSighting
  <2>3. counts' = [g \in DOMAIN counts \cup {f} |-> IF g = f THEN 1 ELSE counts[g]]
    BY <2>2 DEF counts
  <2>4. DOMAIN counts = DOMAIN findings
    BY DEF counts
  <2>5. f \notin DOMAIN counts /\ Cardinality(DOMAIN counts) < MaxFindings /\ log' = log
    BY <1>2, <1>5, <2>1, <2>4
  <2>6. Drift!Keep(f)
    BY <2>3, <2>5, SameCardinality DEF counts, Drift!Keep
  <2> QED
    BY <1>1, <2>6
<1> QED
  BY <1>3, <1>4, <1>5 DEF AtLimit

LEMMA AnnounceRefines ==
    ASSUME IInv, NEW r \in Requests, Announce(r)
    PROVE  \E f \in Finding : Drift!Tell(f)
<1>1. /\ JustKept(r) \in DOMAIN findings /\ DOMAIN findings \subseteq Finding
      /\ \A i \in 1..Len(log) : log[i] # JustKept(r)
      /\ log' = Append(log, JustKept(r)) /\ findings' = findings
      /\ DOMAIN log = 1..Len(log)
  BY DEF Announce, IInv, Pending, TypeOK
<1> QED
  BY <1>1 DEF Drift!Tell

LEMMA StepRefines ==
    ASSUME IInv, [Next]_vars
    PROVE  [Drift!Next]_(Drift!vars)
<1>1. CASE UNCHANGED vars
  BY <1>1 DEF vars, Drift!vars
<1>2. ASSUME NEW r \in Requests, Handler(r)
      PROVE  [Drift!Next]_(Drift!vars)
  <2>1. CASE Report(r)
    BY <2>1, ReportRefines DEF Drift!Next
  <2>2. CASE Announce(r)
    BY <2>2, AnnounceRefines DEF Drift!Next
  <2>3. CASE ~ (Report(r) \/ Announce(r))
    BY <1>2, <2>3 DEF Handler, Observation, Forward, Arrive, Answered, Unreachable, Upgrade,
       TunnelCloses, Abort, CountRequest, Record, Learn, AnnouncePanics, Drift!vars
  <2> QED
    BY <2>1, <2>2, <2>3
<1> QED
  BY <1>1, <1>2 DEF Next

(* Whatever the handlers' interleaving, the proxy keeps, counts and prints *)
(* findings the way DriftLog promises (proxy.go:239-265).                  *)
THEOREM Implements == Spec => ImplementsDriftLog
<1>1. Init => Drift!Init
  BY DEF Init, Drift!Init
<1> QED
  BY <1>1, InitHolds, NextKeeps, StepRefines, PTL DEF Spec, ImplementsDriftLog, Drift!Spec

---------------------------------------------------------------------------
(* What is counted and remembered: every kept finding can be looked up in  *)
(* the recording, the counts of findings and of learned statuses are       *)
(* exact, and what was seen first is never replaced.                       *)

(* The disagreements that handlers at these positions have reported.       *)
SightedBy(a) == UNION {{<<r, i>> : i \in 1..(a[r] - 1)} : r \in Requests}

LEMMA SightedByElements ==
    ASSUME NEW a \in [Requests -> Nat \ {0}]
    PROVE  /\ \A r \in Requests : \A i \in 1..(a[r] - 1) : <<r, i>> \in SightedBy(a)
           /\ \A s \in SightedBy(a) : \E r \in Requests : \E i \in 1..(a[r] - 1) : s = <<r, i>>
BY DEF SightedBy

(* One element more counts one more. *)
LEMMA OneMoreCounts ==
    ASSUME NEW S, IsFiniteSet(S), NEW e, e \notin S
    PROVE  /\ IsFiniteSet(S \cup {e}) /\ Cardinality(S \cup {e}) = Cardinality(S) + 1
           /\ Cardinality(S) \in Nat
BY FS_AddElement, FS_CardinalityType

---------------------------------------------------------------------------
(* The invariant about the recording and the findings' counts. *)

(* A handler that reports has recorded its exchange. *)
RecordedFirst ==
    \A r \in Requests : pc[r] \in {"report", "announce"} => r \in recorded

(* Sightings of what is not kept: there are some only once the table of    *)
(* findings is full, so a finding that is kept had none before.            *)
Unkept == {s \in Sighted : SightedAs(s) \notin DOMAIN findings}
FullWhenDropped == Unkept # {} => Cardinality(DOMAIN findings) >= MaxFindings

CountInv ==
    /\ RecordedFirst /\ EvidenceIsRecorded
    /\ IsFiniteSet(Sighted) /\ FullWhenDropped /\ CountsAreExact

LEMMA InitCounts == Init => CountInv
<1> SUFFICES ASSUME Init PROVE CountInv
  OBVIOUS
<1>1. Sighted = {}
  <2>1. \A r \in Requests : 1..(at[r] - 1) = {}
    BY DEF Init
  <2> QED
    BY <2>1 DEF Sighted
<1>2. IsFiniteSet({}) /\ Cardinality({}) = 0
  BY FS_EmptySet
<1>3. DOMAIN findings = {} /\ dropped = 0
  BY DEF Init
<1>4. RecordedFirst
  BY DEF Init, RecordedFirst
<1>5. Unkept = {}
  BY <1>1 DEF Unkept
<1> QED
  BY <1>1, <1>2, <1>3, <1>4, <1>5
     DEF CountInv, EvidenceIsRecorded, FullWhenDropped, CountsAreExact, Unkept

(* A step that is not report's leaves the findings and the positions; only *)
(* an exchange of which nothing was reported can still change; and who     *)
(* reports next has recorded.                                              *)
LEMMA OtherSteps ==
    ASSUME IInv, NEW r \in Requests, Handler(r), ~ Report(r)
    PROVE  /\ UNCHANGED <<at, findings, dropped>> /\ recorded \subseteq recorded'
           /\ \A q \in Requests : at[q] # 1 => ex'[q] = ex[q]
           /\ \A q \in Requests : pc'[q] \in {"report", "announce"}
                 => pc[q] \in {"report", "announce"} \/ q \in recorded'
<1>a. pc \in [Requests -> Places] /\ ex \in [Requests -> Exchange]
  BY DEF IInv, TypeOK
<1>b. pc[r] = "forward" => at[r] = 1
  BY DEF IInv, Positions
<1>1. CASE Unreachable(r) \/ Upgrade(r)
  BY <1>a, <1>b, <1>1 DEF Unreachable, Upgrade, Goto
<1>2. CASE Arrive(r) \/ Answered(r) \/ TunnelCloses(r) \/ Abort(r) \/ AnnouncePanics(r)
  BY <1>a, <1>2 DEF Arrive, Answered, TunnelCloses, Abort, AnnouncePanics, Goto
<1>3. CASE CountRequest(r) \/ Learn(r)
  BY <1>a, <1>3 DEF CountRequest, Learn, Goto
<1>4. CASE Record(r) \/ Announce(r)
  BY <1>a, <1>4 DEF Record, Announce, Goto
<1> QED
  BY <1>1, <1>2, <1>3, <1>4 DEF Handler, Forward, Observation

(* Such a step changes no sighting. *)
LEMMA SightingsStay ==
    ASSUME TypeOK, at' = at, \A q \in Requests : at[q] # 1 => ex'[q] = ex[q]
    PROVE  /\ Sighted' = Sighted
           /\ \A s \in Sighted : SightedAs(s)' = SightedAs(s) /\ ex'[s[1]] = ex[s[1]]
<1>1. at \in [Requests -> Nat \ {0}]
  BY DEF TypeOK
<1>2. Sighted = SightedBy(at) /\ Sighted' = SightedBy(at)
  BY DEF Sighted, SightedBy
<1>3. \A s \in Sighted : \E q \in Requests : s[1] = q /\ at[q] # 1
  <2> TAKE s \in Sighted
  <2>1. PICK q \in Requests : \E i \in 1..(at[q] - 1) : s = <<q, i>>
    BY <1>1, <1>2, SightedByElements
  <2>2. s[1] = q /\ at[q] # 1
    BY <1>1, <2>1
  <2> QED
    BY <2>2
<1> QED
  BY <1>2, <1>3 DEF SightedAs

LEMMA OtherStepsCount ==
    ASSUME IInv, CountInv, NEW r \in Requests, Handler(r), ~ Report(r)
    PROVE  CountInv'
<1>1. /\ UNCHANGED <<at, findings, dropped>> /\ recorded \subseteq recorded'
      /\ \A q \in Requests : at[q] # 1 => ex'[q] = ex[q]
      /\ \A q \in Requests : pc'[q] \in {"report", "announce"}
            => pc[q] \in {"report", "announce"} \/ q \in recorded'
  BY OtherSteps
<1>2. /\ Sighted' = Sighted
      /\ \A s \in Sighted : SightedAs(s)' = SightedAs(s) /\ ex'[s[1]] = ex[s[1]]
  BY <1>1, SightingsStay DEF IInv
<1>3. \A f : Sightings(f)' = Sightings(f)
  BY <1>2 DEF Sightings
<1>4. Unkept' = Unkept
  BY <1>1, <1>2 DEF Unkept
<1>5. RecordedFirst'
  BY <1>1 DEF CountInv, RecordedFirst
<1>6. EvidenceIsRecorded'
  <2> SUFFICES ASSUME NEW f \in DOMAIN findings
               PROVE  \E s \in Sightings(f) : s[1] \in recorded' /\ ex'[s[1]].path = findings[f].first
    BY <1>1, <1>3 DEF EvidenceIsRecorded
  <2>1. PICK s \in Sightings(f) : s[1] \in recorded /\ ex[s[1]].path = findings[f].first
    BY DEF CountInv, EvidenceIsRecorded
  <2>2. s \in Sighted
    BY <2>1 DEF Sightings
  <2> QED
    BY <1>1, <1>2, <2>1, <2>2
<1>7. CountsAreExact'
  <2>1. \A f \in DOMAIN findings : findings[f].count = Cardinality(Sightings(f))
    BY DEF CountInv, CountsAreExact
  <2>2. dropped = Cardinality(Unkept)
    BY DEF CountInv, CountsAreExact, Unkept
  <2> QED
    BY <1>1, <1>3, <1>4, <2>1, <2>2 DEF CountsAreExact, Unkept
<1> QED
  BY <1>1, <1>2, <1>4, <1>5, <1>6, <1>7 DEF CountInv, FullWhenDropped

(* report sights one disagreement more, which no handler had reported.     *)
LEMMA ReportSights ==
    ASSUME IInv, NEW r \in Requests, Report(r)
    PROVE  /\ Sighted' = Sighted \cup {<<r, at[r]>>} /\ <<r, at[r]>> \notin Sighted
           /\ \A s \in Sighted' : SightedAs(s)' = SightedAs(s) /\ ex'[s[1]] = ex[s[1]]
           /\ SightedAs(<<r, at[r]>>) = Line(r)
<1>1. at \in [Requests -> Nat \ {0}] /\ at' = [at EXCEPT ![r] = @ + 1] /\ ex' = ex
  BY DEF IInv, TypeOK, Report
<1>2. at' \in [Requests -> Nat \ {0}]
  BY <1>1
<1>3. Sighted = SightedBy(at) /\ Sighted' = SightedBy(at')
  BY DEF Sighted, SightedBy
<1>4. <<r, at[r]>> \notin Sighted
  <2> SUFFICES ASSUME <<r, at[r]>> \in Sighted PROVE FALSE
    OBVIOUS
  <2>1. PICK q \in Requests, i \in Nat : i \in 1..(at[q] - 1) /\ <<r, at[r]>> = <<q, i>>
    BY <1>1, <1>3, SightedByElements
  <2> QED
    BY <1>1, <2>1
<1>5. Sighted' \subseteq Sighted \cup {<<r, at[r]>>}
  <2> SUFFICES ASSUME NEW s \in Sighted', s # <<r, at[r]>> PROVE s \in Sighted
    OBVIOUS
  <2>1. PICK q \in Requests, i \in Nat : i \in 1..(at'[q] - 1) /\ s = <<q, i>>
    BY <1>2, <1>3, SightedByElements
  <2>2. i \in 1..(at[q] - 1)
    BY <1>1, <2>1
  <2> QED
    BY <1>1, <1>3, <2>1, <2>2, SightedByElements
<1>6. Sighted \cup {<<r, at[r]>>} \subseteq Sighted'
  <2>1. <<r, at[r]>> \in Sighted'
    <3>1. at[r] \in 1..(at'[r] - 1)
      BY <1>1
    <3> QED
      BY <1>2, <1>3, <3>1, SightedByElements
  <2>2. \A s \in Sighted : s \in Sighted'
    <3> TAKE s \in Sighted
    <3>1. PICK q \in Requests, i \in Nat : i \in 1..(at[q] - 1) /\ s = <<q, i>>
      BY <1>1, <1>3, SightedByElements
    <3>2. i \in 1..(at'[q] - 1)
      BY <1>1, <3>1
    <3> QED
      BY <1>2, <1>3, <3>1, <3>2, SightedByElements
  <2> QED
    BY <2>1, <2>2
<1> QED
  BY <1>1, <1>4, <1>5, <1>6 DEF SightedAs, Line

LEMMA ReportCounts ==
    ASSUME IInv, CountInv, NEW r \in Requests, Report(r)
    PROVE  CountInv'
<1>0. PICK f, new : f = Line(r) /\ new = <<r, at[r]>>
  OBVIOUS
<1>1. /\ Sighted' = Sighted \cup {new} /\ new \notin Sighted
      /\ \A s \in Sighted' : SightedAs(s)' = SightedAs(s) /\ ex'[s[1]] = ex[s[1]]
      /\ SightedAs(new) = f
  BY <1>0, ReportSights
<1>2. /\ pc[r] = "report" /\ recorded' = recorded /\ ex' = ex
      /\ AtLimit(f) => findings' = findings /\ dropped' = dropped + 1
      /\ ~ AtLimit(f) => findings' = WithSighting(f, ex[r].path) /\ dropped' = dropped
  BY <1>0 DEF Report
<1>3. r \in recorded
  BY <1>2 DEF CountInv, RecordedFirst
<1>4. new[1] = r
  BY <1>0
<1>5. RecordedFirst'
  <2>1. \A q \in Requests \ {r} : pc'[q] = pc[q]
    BY DEF IInv, TypeOK, Report, Goto
  <2> QED
    BY <1>2, <1>3, <2>1 DEF CountInv, RecordedFirst
<1>6. IsFiniteSet(Sighted) /\ IsFiniteSet(Sighted')
  BY <1>1, OneMoreCounts DEF CountInv
<1>7. \A g : Sightings(g)' = IF g = f THEN Sightings(g) \cup {new} ELSE Sightings(g)
  BY <1>1 DEF Sightings
<1>8. \A g : IsFiniteSet(Sightings(g)) /\ new \notin Sightings(g)
  BY <1>1, <1>6, FS_Subset DEF Sightings
<1>9. IsFiniteSet(Unkept) /\ new \notin Unkept
  BY <1>1, <1>6, FS_Subset DEF Unkept
<1>10. /\ \A g \in DOMAIN findings : findings[g].count = Cardinality(Sightings(g))
       /\ dropped = Cardinality(Unkept)
  BY DEF CountInv, CountsAreExact, Unkept
<1>11. \A g \in DOMAIN findings : g \in DOMAIN findings' /\ findings'[g].first = findings[g].first
  <2>1. CASE AtLimit(f)
    BY <1>2, <2>1
  <2>2. CASE ~ AtLimit(f)
    <3>1. \A g \in DOMAIN findings : findings[g] \in [count : Nat \ {0}, first : Paths]
      BY DEF IInv, TypeOK
    <3> QED
      BY <1>2, <2>2, <3>1 DEF WithSighting
  <2> QED
    BY <2>1, <2>2
<1>12. EvidenceIsRecorded'
  <2> SUFFICES ASSUME NEW g \in DOMAIN findings'
               PROVE  \E s \in Sightings(g)' : s[1] \in recorded /\ ex[s[1]].path = findings'[g].first
    BY <1>2 DEF EvidenceIsRecorded
  <2>1. CASE g \in DOMAIN findings
    <3>1. PICK s \in Sightings(g) : s[1] \in recorded /\ ex[s[1]].path = findings[g].first
      BY <2>1 DEF CountInv, EvidenceIsRecorded
    <3> QED
      BY <1>7, <1>11, <2>1, <3>1
  <2>2. CASE g \notin DOMAIN findings
    <3>1. ~ AtLimit(f) /\ g = f /\ findings'[g].first = ex[r].path
      BY <1>2, <2>2 DEF WithSighting
    <3>2. new \in Sightings(g)'
      BY <1>7, <3>1
    <3> QED
      BY <1>3, <1>4, <3>1, <3>2
  <2> QED
    BY <2>1, <2>2
<1>13. FullWhenDropped' /\ CountsAreExact'
  <2>1. CASE AtLimit(f)
    <3>1. f \notin DOMAIN findings /\ findings' = findings /\ dropped' = dropped + 1
          /\ Cardinality(DOMAIN findings) >= MaxFindings
      BY <1>2, <2>1 DEF AtLimit
    <3>2. Unkept' = Unkept \cup {new}
      BY <1>1, <3>1 DEF Unkept
    <3>3. Cardinality(Unkept') = Cardinality(Unkept) + 1
      BY <1>9, <3>2, OneMoreCounts
    <3>4. \A g \in DOMAIN findings : Sightings(g)' = Sightings(g)
      BY <1>7, <3>1
    <3> QED
      BY <1>10, <3>1, <3>3, <3>4 DEF FullWhenDropped, CountsAreExact, Unkept
  <2>2. CASE f \in DOMAIN findings
    <3>1. ~ AtLimit(f)
      BY <2>2 DEF AtLimit
    <3>2. DOMAIN findings' = DOMAIN findings /\ dropped' = dropped
          /\ \A g \in DOMAIN findings : g # f => findings'[g] = findings[g]
      BY <1>2, <2>2, <3>1 DEF WithSighting
    <3>3. findings'[f].count = findings[f].count + 1
      <4>1. findings[f] \in [count : Nat \ {0}, first : Paths]
        BY <2>2 DEF IInv, TypeOK
      <4>2. findings'[f] = [findings[f] EXCEPT !.count = @ + 1]
        BY <1>2, <2>2, <3>1 DEF WithSighting
      <4> QED
        BY <4>1, <4>2
    <3>4. Unkept' = Unkept
      BY <1>1, <2>2, <3>2 DEF Unkept
    <3>5. Cardinality(Sightings(f)') = Cardinality(Sightings(f)) + 1
      BY <1>7, <1>8, OneMoreCounts
    <3>6. \A g \in DOMAIN findings' : findings'[g].count = Cardinality(Sightings(g)')
      BY <1>7, <1>10, <3>2, <3>3, <3>5
    <3> QED
      BY <1>10, <3>2, <3>4, <3>6 DEF CountInv, FullWhenDropped, CountsAreExact, Unkept
  <2>3. CASE f \notin DOMAIN findings /\ ~ AtLimit(f)
    <3>1. Cardinality(DOMAIN findings) \in Nat
      BY FS_CardinalityType DEF IInv, Bounded
    <3>2. Unkept = {}
      BY <2>3, <3>1, ProxyAssumption DEF CountInv, FullWhenDropped, AtLimit
    <3>3. Sightings(f) = {}
      BY <2>3, <3>2 DEF Unkept, Sightings
    <3>4. findings' = WithSighting(f, ex[r].path) /\ dropped' = dropped
      BY <1>2, <2>3
    <3>5. DOMAIN findings' = DOMAIN findings \cup {f} /\ findings'[f].count = 1
          /\ \A g \in DOMAIN findings : findings'[g] = findings[g]
      BY <2>3, <3>4 DEF WithSighting
    <3>6. Unkept' = {}
      BY <1>1, <3>2, <3>5 DEF Unkept
    <3>7. Cardinality(Sightings(f)') = 1
      BY <1>7, <3>3, FS_Singleton
    <3>8. \A g \in DOMAIN findings' : findings'[g].count = Cardinality(Sightings(g)')
      BY <1>7, <1>10, <2>3, <3>5, <3>7
    <3> QED
      BY <1>10, <3>2, <3>4, <3>6, <3>8 DEF FullWhenDropped, CountsAreExact, Unkept
  <2> QED
    BY <2>1, <2>2, <2>3
<1> QED
  BY <1>5, <1>6, <1>12, <1>13 DEF CountInv

LEMMA NextCounts == IInv /\ CountInv /\ [Next]_vars => CountInv'
<1> SUFFICES ASSUME IInv, CountInv, [Next]_vars PROVE CountInv'
  OBVIOUS
<1>1. CASE UNCHANGED vars
  BY <1>1 DEF vars, CountInv, RecordedFirst, EvidenceIsRecorded, FullWhenDropped, CountsAreExact,
              Unkept, Sightings, Sighted, SightedAs
<1>2. ASSUME NEW r \in Requests, Handler(r) PROVE CountInv'
  BY <1>2, OtherStepsCount, ReportCounts
<1> QED
  BY <1>1, <1>2 DEF Next

---------------------------------------------------------------------------
(* The invariant about the learner. *)

(* A handler goes to the learner only with an exchange to learn from.      *)
LearnsOnlyNews == \A r \in Requests : pc[r] = "learn" => Learns(ex[r])

(* An endpoint that was refused was refused for lack of room, so one that  *)
(* is kept missed no exchange before.                                      *)
FullWhenRefused ==
    \A e \in Paths : e \notin DOMAIN seen /\ (\E s \in Statuses : Taught(e, s) # {})
        => Cardinality(DOMAIN seen) >= MaxLearned

LearnInv == LearnsOnlyNews /\ FullWhenRefused /\ LearnedIsExact

LEMMA InitLearns == Init => LearnInv
<1> SUFFICES ASSUME Init PROVE LearnInv
  OBVIOUS
<1>1. \A r \in Requests : pc[r] = "idle"
  BY DEF Init
<1>2. \A e, s : Taught(e, s) = {}
  BY <1>1 DEF Taught
<1>3. DOMAIN seen = {}
  BY DEF Init
<1> QED
  BY <1>1, <1>2, <1>3 DEF LearnInv, LearnsOnlyNews, FullWhenRefused, LearnedIsExact

(* Whatever a handler does but Learn, it is done only if it had nothing to *)
(* learn, and it changes nobody else's exchange.                           *)
LEMMA NothingTaught ==
    ASSUME IInv, NEW r \in Requests, Handler(r), ~ Learn(r)
    PROVE  /\ seen' = seen
           /\ \A q \in Requests \ {r} : pc'[q] = pc[q] /\ ex'[q] = ex[q]
           /\ pc[r] # "done" /\ (pc'[r] = "done" => ~ Learns(ex'[r]))
           /\ pc'[r] = "learn" => Learns(ex'[r])
<1>a. pc \in [Requests -> Places] /\ ex \in [Requests -> Exchange]
  BY DEF IInv, TypeOK
<1>1. CASE Unreachable(r) \/ Upgrade(r)
  BY <1>a, <1>1 DEF Unreachable, Upgrade, Goto
<1>2. CASE Arrive(r) \/ Answered(r) \/ TunnelCloses(r) \/ Abort(r) \/ AnnouncePanics(r)
  BY <1>a, <1>2 DEF Arrive, Answered, TunnelCloses, Abort, AnnouncePanics, Goto
<1>3. CASE CountRequest(r)
  BY <1>a, <1>3 DEF CountRequest, Goto
<1>4. CASE Record(r) \/ Announce(r)
  BY <1>a, <1>4 DEF Record, Announce, Goto, After
<1>5. CASE Report(r)
  <2>1. pc' = [pc EXCEPT ![r] = "announce"] \/ pc' = [pc EXCEPT ![r] = After(ex[r], at[r] + 1)]
    BY <1>5 DEF Report, Goto
  <2>2. pc[r] = "report" /\ ex' = ex /\ seen' = seen
    BY <1>5 DEF Report
  <2> QED
    BY <1>a, <2>1, <2>2 DEF After
<1> QED
  BY <1>1, <1>2, <1>3, <1>4, <1>5 DEF Handler, Forward, Observation

LEMMA OtherStepsLearn ==
    ASSUME IInv, LearnInv, NEW r \in Requests, Handler(r), ~ Learn(r)
    PROVE  LearnInv'
<1>1. /\ seen' = seen
      /\ \A q \in Requests \ {r} : pc'[q] = pc[q] /\ ex'[q] = ex[q]
      /\ pc[r] # "done" /\ (pc'[r] = "done" => ~ Learns(ex'[r]))
      /\ pc'[r] = "learn" => Learns(ex'[r])
  BY NothingTaught
<1>2. \A e, s : Taught(e, s)' = Taught(e, s)
  BY <1>1 DEF Taught
<1>3. LearnsOnlyNews'
  BY <1>1 DEF LearnInv, LearnsOnlyNews
<1>4. FullWhenRefused'
  BY <1>1, <1>2 DEF LearnInv, FullWhenRefused
<1>5. LearnedIsExact'
  BY <1>1, <1>2 DEF LearnInv, LearnedIsExact
<1> QED
  BY <1>3, <1>4, <1>5 DEF LearnInv

(* The learner's critical section, as a case of refusing the endpoint or   *)
(* of counting one exchange more of its status.                            *)
LEMMA LearnTeaches ==
    ASSUME IInv, LearnInv, NEW r \in Requests, Learn(r)
    PROVE  LearnInv'
<1>0. PICK e0 \in Paths, s0 \in Statuses : e0 = Endpoint(ex[r]) /\ s0 = ex[r].status
  <2>1. ex[r] \in Exchange
    BY DEF IInv, TypeOK
  <2>2. Endpoint(ex[r]) \in Paths /\ ex[r].status \in Statuses
    BY <2>1, ProxyAssumption DEF Endpoint, Exchange
  <2> QED
    BY <2>2
<1>a. pc \in [Requests -> Places]
  BY DEF IInv, TypeOK
<1>1. /\ pc[r] = "learn" /\ pc' = [pc EXCEPT ![r] = "done"] /\ ex' = ex
      /\ seen' = Observe(seen, e0, s0, ex[r].body)
  BY <1>0 DEF Learn, Goto
<1>2. Learns(ex[r])
  BY <1>1 DEF LearnInv, LearnsOnlyNews
<1>3. \A e, s : Taught(e, s)' = IF e = e0 /\ s = s0 THEN Taught(e, s) \cup {r} ELSE Taught(e, s)
  BY <1>a, <1>0, <1>1, <1>2 DEF Taught
<1>4. \A e, s : IsFiniteSet(Taught(e, s)) /\ r \notin Taught(e, s)
  <2>1. \A e, s : Taught(e, s) \in SUBSET Requests /\ r \notin Taught(e, s)
    BY <1>1 DEF Taught
  <2> QED
    BY <2>1, FS_Subset, ProxyAssumption
<1>5. Cardinality(Taught(e0, s0)') = Cardinality(Taught(e0, s0)) + 1
  BY <1>3, <1>4, OneMoreCounts
<1>6. LearnsOnlyNews'
  BY <1>a, <1>1 DEF LearnInv, LearnsOnlyNews
<1>7. IsFiniteSet(DOMAIN seen) /\ Cardinality(DOMAIN seen) \in Nat
  BY FS_CardinalityType DEF IInv, Finite
<1>8. CASE e0 \notin DOMAIN seen /\ ~ HasRoom(seen)
  <2>1. seen' = seen /\ Cardinality(DOMAIN seen) >= MaxLearned
    BY <1>1, <1>7, <1>8, LearnerAssumption DEF Observe, HasRoom
  <2>2. FullWhenRefused'
    BY <2>1 DEF FullWhenRefused
  <2>3. LearnedIsExact'
    BY <1>3, <1>8, <2>1 DEF LearnInv, LearnedIsExact
  <2> QED
    BY <1>6, <2>2, <2>3 DEF LearnInv
<1>9. CASE e0 \in DOMAIN seen \/ HasRoom(seen)
  <2>1. /\ DOMAIN seen' = DOMAIN seen \cup {e0}
        /\ \A e \in DOMAIN seen : e # e0 => seen'[e] = seen[e]
        /\ seen'[e0].statuses = Bumped(Entry(seen, e0).statuses, s0)
    BY <1>1, <1>9 DEF Observe
  <2>2. FullWhenRefused'
    <3>1. Cardinality(DOMAIN seen') >= Cardinality(DOMAIN seen) /\ Cardinality(DOMAIN seen') \in Nat
      <4>1. /\ IsFiniteSet(DOMAIN seen \cup {e0})
            /\ \/ Cardinality(DOMAIN seen \cup {e0}) = Cardinality(DOMAIN seen)
               \/ Cardinality(DOMAIN seen \cup {e0}) = Cardinality(DOMAIN seen) + 1
        BY <1>7, FS_AddElement
      <4> QED
        BY <1>7, <2>1, <4>1
    <3>2. \A e \in Paths : e \notin DOMAIN seen' =>
             e \notin DOMAIN seen /\ \A s \in Statuses : Taught(e, s)' = Taught(e, s)
      BY <1>3, <2>1
    <3> QED
      BY <1>7, <3>1, <3>2, LearnerAssumption DEF LearnInv, FullWhenRefused
  <2>3. \A s \in Statuses :
           IF s \in DOMAIN seen'[e0].statuses
           THEN seen'[e0].statuses[s] = Cardinality(Taught(e0, s)')
           ELSE Taught(e0, s)' = {}
    <3>1. CASE e0 \in DOMAIN seen
      <4>1. seen'[e0].statuses = Bumped(seen[e0].statuses, s0)
        BY <2>1, <3>1 DEF Entry
      <4>2. \A s \in Statuses :
               IF s \in DOMAIN seen[e0].statuses
               THEN seen[e0].statuses[s] = Cardinality(Taught(e0, s))
               ELSE Taught(e0, s) = {}
        BY <3>1 DEF LearnInv, LearnedIsExact
      <4>3. DOMAIN seen'[e0].statuses = DOMAIN seen[e0].statuses \cup {s0}
        BY <4>1 DEF Bumped
      <4>4. ASSUME NEW s \in Statuses, s # s0
            PROVE  IF s \in DOMAIN seen'[e0].statuses
                   THEN seen'[e0].statuses[s] = Cardinality(Taught(e0, s)')
                   ELSE Taught(e0, s)' = {}
        <5>1. s \in DOMAIN seen[e0].statuses => seen'[e0].statuses[s] = seen[e0].statuses[s]
          BY <4>1, <4>4 DEF Bumped
        <5> QED
          BY <1>3, <4>2, <4>3, <4>4, <5>1
      <4>5. seen'[e0].statuses[s0] = Cardinality(Taught(e0, s0)')
        <5>1. CASE s0 \in DOMAIN seen[e0].statuses
          BY <1>5, <4>1, <4>2, <5>1 DEF Bumped
        <5>2. CASE s0 \notin DOMAIN seen[e0].statuses
          <6>1. seen'[e0].statuses[s0] = 1
            BY <4>1, <5>2 DEF Bumped
          <6>2. Taught(e0, s0) = {}
            BY <4>2, <5>2
          <6> QED
            BY <1>5, <6>1, <6>2, FS_EmptySet
        <5> QED
          BY <5>1, <5>2
      <4> QED
        BY <4>3, <4>4, <4>5
    <3>2. CASE e0 \notin DOMAIN seen
      <4>1. Cardinality(DOMAIN seen) < MaxLearned
        BY <1>9, <3>2 DEF HasRoom
      <4>2. \A s \in Statuses : Taught(e0, s) = {}
        BY <1>7, <3>2, <4>1, LearnerAssumption DEF LearnInv, FullWhenRefused
      <4>3. seen'[e0].statuses = Bumped(<< >>, s0)
        BY <2>1, <3>2 DEF Entry, Unseen
      <4>4. DOMAIN seen'[e0].statuses = {s0} /\ seen'[e0].statuses[s0] = 1
        BY <4>3 DEF Bumped
      <4>5. Cardinality(Taught(e0, s0)') = 1
        BY <1>5, <4>2, FS_EmptySet
      <4> QED
        BY <1>3, <4>2, <4>4, <4>5
    <3> QED
      BY <3>1, <3>2
  <2>4. LearnedIsExact'
    <3>1. \A e \in DOMAIN seen : e # e0 => \A s \in Statuses : Taught(e, s)' = Taught(e, s)
      BY <1>3
    <3> QED
      BY <2>1, <2>3, <3>1 DEF LearnInv, LearnedIsExact
  <2> QED
    BY <1>6, <2>2, <2>4 DEF LearnInv
<1> QED
  BY <1>8, <1>9

LEMMA NextLearns == IInv /\ LearnInv /\ [Next]_vars => LearnInv'
<1> SUFFICES ASSUME IInv, LearnInv, [Next]_vars PROVE LearnInv'
  OBVIOUS
<1>1. CASE UNCHANGED vars
  BY <1>1 DEF vars, LearnInv, LearnsOnlyNews, FullWhenRefused, LearnedIsExact, Taught
<1>2. ASSUME NEW r \in Requests, Handler(r) PROVE LearnInv'
  BY <1>2, OtherStepsLearn, LearnTeaches
<1> QED
  BY <1>1, <1>2 DEF Next

---------------------------------------------------------------------------
(* A kept finding keeps its first request and loses no sighting; a learned *)
(* response keeps the first body that parsed.                              *)
LEMMA FindingsStay ==
    ASSUME IInv, NEW r \in Requests, Handler(r)
    PROVE  \A f \in DOMAIN findings :
              /\ f \in DOMAIN findings'
              /\ findings'[f].first = findings[f].first
              /\ findings'[f].count >= findings[f].count
<1>1. \A f \in DOMAIN findings : findings[f] \in [count : Nat \ {0}, first : Paths]
  BY DEF IInv, TypeOK
<1>2. \A f \in DOMAIN findings : findings[f].count \in Nat
  BY <1>1
<1>3. CASE findings' = findings
  BY <1>2, <1>3
<1>4. CASE Report(r) /\ findings' # findings
  <2>1. findings' = WithSighting(Line(r), ex[r].path)
    BY <1>4 DEF Report
  <2>2. ASSUME NEW f \in DOMAIN findings
        PROVE  f \in DOMAIN findings' /\ findings'[f].first = findings[f].first
               /\ findings'[f].count >= findings[f].count
    <3>1. findings'[f] = findings[f] \/ findings'[f] = [findings[f] EXCEPT !.count = @ + 1]
      BY <2>1 DEF WithSighting
    <3>2. f \in DOMAIN findings'
      BY <2>1 DEF WithSighting
    <3>3. CASE findings'[f] = findings[f]
      BY <1>2, <3>2, <3>3
    <3>4. CASE findings'[f] = [findings[f] EXCEPT !.count = @ + 1]
      <4>1. findings'[f].first = findings[f].first /\ findings'[f].count = findings[f].count + 1
        BY <1>1, <3>4
      <4> QED
        BY <1>2, <3>2, <4>1
    <3> QED
      BY <3>1, <3>3, <3>4
  <2> QED
    BY <2>2
<1> QED
  BY <1>3, <1>4, OtherSteps

LEMMA SamplesStay ==
    ASSUME IInv, NEW r \in Requests, Handler(r)
    PROVE  \A e \in DOMAIN seen : \A s \in DOMAIN seen[e].bodies :
              /\ e \in DOMAIN seen' /\ s \in DOMAIN seen'[e].bodies
              /\ seen'[e].bodies[s] = seen[e].bodies[s]
<1>1. CASE Learn(r)
  <2>1. PICK e0, s0, b0 : seen' = Observe(seen, e0, s0, b0)
    BY <1>1 DEF Learn
  <2>2. CASE e0 \notin DOMAIN seen /\ ~ HasRoom(seen)
    BY <2>1, <2>2 DEF Observe
  <2>3. CASE e0 \in DOMAIN seen \/ HasRoom(seen)
    <3>1. /\ DOMAIN seen' = DOMAIN seen \cup {e0}
          /\ \A e \in DOMAIN seen : e # e0 => seen'[e] = seen[e]
          /\ e0 \in DOMAIN seen => seen'[e0].bodies = Sampled(seen[e0].bodies, s0, b0)
      BY <2>1, <2>3 DEF Observe, Entry
    <3>2. e0 \in DOMAIN seen => \A s \in DOMAIN seen[e0].bodies :
             s \in DOMAIN seen'[e0].bodies /\ seen'[e0].bodies[s] = seen[e0].bodies[s]
      BY <3>1 DEF Sampled
    <3> QED
      BY <3>1, <3>2
  <2> QED
    BY <2>2, <2>3
<1>2. CASE ~ Learn(r)
  BY <1>2, NothingTaught
<1> QED
  BY <1>1, <1>2

LEMMA CountInvariance == Spec => [](IInv /\ CountInv /\ LearnInv)
<1>1. Init => IInv /\ CountInv /\ LearnInv
  BY InitHolds, InitCounts, InitLearns
<1>2. IInv /\ CountInv /\ LearnInv /\ [Next]_vars => (IInv /\ CountInv /\ LearnInv)'
  BY NextKeeps, NextCounts, NextLearns
<1> QED
  BY <1>1, <1>2, PTL DEF Spec

(* Whatever the proxy reports can be looked up: the request a finding was  *)
(* first seen on is in the recording already.                              *)
THEOREM FindingsAreRecorded == Spec => []EvidenceIsRecorded
<1>1. CountInv => EvidenceIsRecorded
  BY DEF CountInv
<1> QED
  BY <1>1, CountInvariance, PTL

(* Kept and dropped together account for every sighting there was, and     *)
(* each kept finding for all of its own, whichever handlers raced.         *)
THEOREM NothingIsMiscounted == Spec => []CountsAreExact
<1>1. CountInv => CountsAreExact
  BY DEF CountInv
<1> QED
  BY <1>1, CountInvariance, PTL

(* An endpoint the learner holds has been counted from its first exchange. *)
THEOREM LearnerMissesNothing == Spec => []LearnedIsExact
<1>1. LearnInv => LearnedIsExact
  BY DEF LearnInv
<1> QED
  BY <1>1, CountInvariance, PTL

(* First come, first kept, for findings and for learned samples.           *)
THEOREM FirstsAreKept == Spec => FirstsStay
<1> DEFINE Stay ==
      /\ \A f \in DOMAIN findings :
           /\ f \in DOMAIN findings'
           /\ findings'[f].first = findings[f].first
           /\ findings'[f].count >= findings[f].count
      /\ \A e \in DOMAIN seen : \A s \in DOMAIN seen[e].bodies :
           /\ e \in DOMAIN seen' /\ s \in DOMAIN seen'[e].bodies
           /\ seen'[e].bodies[s] = seen[e].bodies[s]
<1>1. ASSUME IInv, Next PROVE Stay
  <2> PICK r \in Requests : Handler(r)
    BY <1>1 DEF Next
  <2>1. \A f \in DOMAIN findings :
           /\ f \in DOMAIN findings'
           /\ findings'[f].first = findings[f].first
           /\ findings'[f].count >= findings[f].count
    BY <1>1, FindingsStay
  <2>2. \A e \in DOMAIN seen : \A s \in DOMAIN seen[e].bodies :
           /\ e \in DOMAIN seen' /\ s \in DOMAIN seen'[e].bodies
           /\ seen'[e].bodies[s] = seen[e].bodies[s]
    BY <1>1, SamplesStay
  <2> QED
    BY <2>1, <2>2
<1>2. IInv /\ [Next]_vars => [Stay]_vars
  BY <1>1
<1> HIDE DEF Stay
<1>3. Spec => [][Stay]_vars
  BY <1>2, CountInvariance, PTL DEF Spec
<1> QED
  BY <1>3 DEF FirstsStay, Stay
---------------------------------------------------------------------------
(* Every step of a run is a step of the proxy or leaves the proxy alone.   *)
LEMMA StepsAreHandlers == [RunNext]_allVars => [Next]_vars
<1> SUFFICES ASSUME [RunNext]_allVars PROVE [Next]_vars
  OBVIOUS
<1>1. CASE UNCHANGED allVars
  BY <1>1 DEF allVars
<1>2. CASE Main
  BY <1>2 DEF Main, Signal, Drained, DeadlineExpires, SummariseFindings, SummariseRequests,
              ReportRequests, ReportFindings, LearnAndExit, Fails
<1>3. CASE \E r \in Requests : HandlerStep(r)
  BY <1>3 DEF HandlerStep, Handler, Next
<1> QED
  BY <1>1, <1>2, <1>3 DEF RunNext

(* What the proxy promises, it promises in every run of the command:       *)
(* ProxyRun implements Proxy.                                              *)
THEOREM RunIsProxy == RunSpec => Spec
<1>1. RunInit => Init
  BY DEF RunInit
<1> QED
  BY <1>1, StepsAreHandlers, PTL DEF RunSpec, Spec
---------------------------------------------------------------------------
(* The handlers counted so far: the count is theirs, and none is recorded  *)
(* before it is counted.                                                   *)

Past == {"record", "report", "announce", "learn", "recovered", "done"}
Counted == {r \in Requests : pc[r] \in Past}

RequestsInv == requests = Cardinality(Counted) /\ recorded \subseteq Counted

(* A step of a handler that was counted, or is not yet, changes no count.  *)
LEMMA CountsOnce ==
    ASSUME IInv, NEW r \in Requests, Handler(r)
    PROVE  /\ \A q \in Requests \ {r} : pc'[q] = pc[q]
           /\ pc[r] = "count" => pc'[r] = "record" /\ requests' = requests + 1 /\ recorded' = recorded
           /\ pc[r] # "count" => requests' = requests /\ (pc[r] \in Past <=> pc'[r] \in Past)
           /\ recorded' \subseteq recorded \cup (IF pc[r] \in Past THEN {r} ELSE {})
<1>a. pc \in [Requests -> Places] /\ at \in [Requests -> Nat \ {0}]
  BY DEF IInv, TypeOK
<1>b. \A i \in Nat : After(ex[r], i) \in Past
  BY DEF After, Past
<1>1. CASE Arrive(r) \/ Forward(r)
  BY <1>a, <1>1 DEF Arrive, Forward, Answered, Unreachable, Upgrade, TunnelCloses, Abort, Goto, Past
<1>2. CASE CountRequest(r)
  BY <1>a, <1>2 DEF CountRequest, Goto, Past
<1>3. CASE Record(r) \/ Announce(r)
  BY <1>a, <1>b, <1>3 DEF Record, Announce, Goto, Past
<1>4. CASE Report(r)
  <2>1. pc' = [pc EXCEPT ![r] = "announce"] \/ pc' = [pc EXCEPT ![r] = After(ex[r], at[r] + 1)]
    BY <1>4 DEF Report, Goto
  <2>2. pc[r] = "report" /\ requests' = requests /\ recorded' = recorded
    BY <1>4 DEF Report
  <2> QED
    BY <1>a, <1>b, <2>1, <2>2 DEF Past
<1>5. CASE Learn(r) \/ AnnouncePanics(r)
  BY <1>a, <1>5 DEF Learn, AnnouncePanics, Goto, Past
<1> QED
  BY <1>1, <1>2, <1>3, <1>4, <1>5 DEF Handler, Observation

LEMMA RequestsInductive ==
    /\ Init => RequestsInv
    /\ IInv /\ RequestsInv /\ [Next]_vars => RequestsInv'
<1>1. ASSUME Init PROVE RequestsInv
  <2>1. Counted = {}
    BY <1>1 DEF Init, Counted, Past
  <2> QED
    BY <1>1, <2>1, FS_EmptySet DEF Init, RequestsInv
<1>2. ASSUME IInv, RequestsInv, UNCHANGED vars PROVE RequestsInv'
  BY <1>2 DEF vars, RequestsInv, Counted
<1>3. ASSUME IInv, RequestsInv, NEW r \in Requests, Handler(r) PROVE RequestsInv'
  <2>1. CASE pc[r] = "count"
    <3>1. Counted' = Counted \cup {r} /\ r \notin Counted
      BY <1>3, <2>1, CountsOnce DEF Counted, Past
    <3>2. IsFiniteSet(Counted)
      BY ProxyAssumption, FS_Subset DEF Counted
    <3>3. Cardinality(Counted') = Cardinality(Counted) + 1
      BY <3>1, <3>2, OneMoreCounts
    <3> QED
      BY <1>3, <2>1, <3>1, <3>3, CountsOnce DEF RequestsInv, Past
  <2>2. CASE pc[r] # "count"
    <3>1. Counted' = Counted
      BY <1>3, <2>2, CountsOnce DEF Counted
    <3>2. recorded' \subseteq Counted
      BY <1>3, CountsOnce DEF RequestsInv, Counted
    <3> QED
      BY <1>3, <2>2, <3>1, <3>2, CountsOnce DEF RequestsInv
  <2> QED
    BY <2>1, <2>2
<1> QED
  BY <1>1, <1>2, <1>3 DEF Next

ProxyInv == IInv /\ CountInv /\ LearnInv /\ RequestsInv

LEMMA ProxyInvariance == RunSpec => []ProxyInv
<1>1. Init => ProxyInv
  BY InitHolds, InitCounts, InitLearns, RequestsInductive DEF ProxyInv
<1>2. ProxyInv /\ [Next]_vars => ProxyInv'
  BY NextKeeps, NextCounts, NextLearns, RequestsInductive DEF ProxyInv
<1>3. Spec => []ProxyInv
  BY <1>1, <1>2, PTL DEF Spec
<1> QED
  BY <1>3, RunIsProxy

(* No findings over zero requests, and both only grow. *)
LEMMA FindingsNeedRequests ==
    ASSUME ProxyInv, DOMAIN findings # {}
    PROVE  requests > 0
<1>1. PICK f \in DOMAIN findings : \E s \in Sightings(f) : s[1] \in recorded
  BY DEF ProxyInv, CountInv, EvidenceIsRecorded
<1>2. Counted # {}
  BY <1>1 DEF ProxyInv, RequestsInv
<1>3. IsFiniteSet(Counted)
  BY ProxyAssumption, FS_Subset DEF Counted
<1>4. Cardinality(Counted) \in Nat /\ Cardinality(Counted) # 0
  BY <1>2, <1>3, FS_EmptySet, FS_CardinalityType
<1> QED
  BY <1>4 DEF ProxyInv, RequestsInv

LEMMA BothGrow ==
    ASSUME ProxyInv, [Next]_vars
    PROVE  Findings \subseteq Findings' /\ requests <= requests'
<1>0. IInv /\ requests \in Nat
  BY DEF ProxyInv, IInv, TypeOK
<1>1. CASE UNCHANGED vars
  BY <1>0, <1>1 DEF vars, Findings
<1>2. ASSUME NEW r \in Requests, Handler(r)
      PROVE  Findings \subseteq Findings' /\ requests <= requests'
  <2>1. Findings \subseteq Findings'
    BY <1>0, <1>2, FindingsStay DEF Findings
  <2>2. requests' = requests \/ requests' = requests + 1
    BY <1>0, <1>2, CountsOnce
  <2> QED
    BY <1>0, <2>1, <2>2
<1> QED
  BY <1>1, <1>2 DEF Next

---------------------------------------------------------------------------
(* The run's own invariant. *)

(* The main goroutine's readings, in the order it makes them: each holds   *)
(* no more than the proxy does by now, and the later one no less than the  *)
(* earlier.                                                                *)
ReadInOrder ==
    /\ summary.findings \subseteq Findings
    /\ main \in {"report", "reporting", "learning", "exited"} =>
          /\ summary.findings # {} => summary.requests > 0
          /\ summary.requests <= requests
    /\ main \in {"reporting", "learning", "exited"} => summary.requests <= report.requests
    /\ main \in {"learning", "exited"} => summary.findings \subseteq report.findings

(* A run that drained: no handler is at work any more, so that what the    *)
(* main goroutine has read is what there is.                               *)
Complete ==
    /\ main \in {"counting", "report", "reporting", "learning", "exited"}
          => summary.findings = Findings
    /\ main \in {"report", "reporting", "learning", "exited"} => summary.requests = requests
    /\ main \in {"reporting", "learning", "exited"} => report.requests = requests
    /\ main \in {"learning", "exited"} => report.findings = Findings
    /\ main = "exited" => fragment = DOMAIN seen
HasDrained ==
    main \notin {"serving", "draining", "failed"} /\ ~ expired /\ hijacked = {}
        => Complete /\ \A r \in Requests : pc[r] \in Over

VerdictFollows == main = "exited" => exit = ExitCode

RunInv == RunTypeOK /\ ReadInOrder /\ HasDrained /\ VerdictFollows

Reading == [findings : SUBSET Finding, requests : Nat]

LEMMA InitRun == RunInit => RunInv
<1> SUFFICES ASSUME RunInit PROVE RunInv
  OBVIOUS
<1>1. TypeOK
  BY InitHolds DEF RunInit, IInv
<1>2. Unread \in Reading /\ Unread.findings = {}
  BY DEF Unread, Reading
<1>3. RunTypeOK
  BY <1>1, <1>2 DEF RunInit, RunTypeOK, Reading
<1> QED
  BY <1>2, <1>3 DEF RunInit, RunInv, ReadInOrder, HasDrained, VerdictFollows

(* What stays of the run's invariant while only handlers move.             *)
LEMMA HandlersKeepRun ==
    ASSUME ProxyInv, ProxyInv', RunInv, NEW r \in Requests, HandlerStep(r)
    PROVE  RunInv'
<1>1. /\ UNCHANGED <<main, expired, summary, report, fragment, exit>>
      /\ main \notin Ended /\ hijacked \subseteq hijacked' /\ hijacked' \subseteq Requests
      /\ Handler(r) /\ Listening(r)
  BY DEF HandlerStep, Handler, RunInv, RunTypeOK
<1>2. Findings \subseteq Findings' /\ requests <= requests' /\ requests \in Nat /\ requests' \in Nat
  <2>1. [Next]_vars
    BY <1>1 DEF Next
  <2> QED
    BY <2>1, BothGrow DEF ProxyInv, IInv, TypeOK
<1>3. RunTypeOK'
  BY <1>1 DEF RunInv, RunTypeOK, ProxyInv, IInv
<1>4. summary \in Reading /\ report \in Reading
  BY DEF RunInv, RunTypeOK, Reading
<1>5. ReadInOrder'
  BY <1>1, <1>2, <1>4 DEF RunInv, ReadInOrder, Reading
<1>6. HasDrained'
  <2> SUFFICES ASSUME main \notin {"serving", "draining", "failed"}, ~ expired, hijacked = {}
               PROVE  FALSE
    BY <1>1 DEF HasDrained
  <2>1. pc[r] \in Over /\ pc[r] # "idle"
    BY <1>1 DEF RunInv, HasDrained, Listening
  <2> QED
    BY <2>1 DEF HandlerStep, Over, Arrive, Forward, Answered, Unreachable, Upgrade, TunnelCloses,
                Abort, Observation, CountRequest, Record, Report, Announce, Learn
<1>7. VerdictFollows'
  BY <1>1 DEF VerdictFollows, Ended
<1> QED
  BY <1>3, <1>5, <1>6, <1>7 DEF RunInv

(* The main goroutine's steps leave the proxy alone. *)
LEMMA MainKeepsRun ==
    ASSUME ProxyInv, RunInv, Main
    PROVE  RunInv'
<1>a. summary \in Reading /\ report \in Reading
  BY DEF RunInv, RunTypeOK, Reading
<1>b. /\ UNCHANGED vars /\ hijacked' = hijacked /\ Findings' = Findings
      /\ Findings \subseteq Finding /\ requests \in Nat /\ DOMAIN seen \subseteq Paths
      /\ Findings # {} => requests > 0
  <2>1. UNCHANGED vars /\ hijacked' = hijacked
    BY DEF Main, Signal, Drained, DeadlineExpires, SummariseFindings, SummariseRequests,
           ReportRequests, ReportFindings, LearnAndExit, Fails
  <2> QED
    BY <2>1, FindingsNeedRequests DEF vars, Findings, ProxyInv, IInv, TypeOK
<1>c. TypeOK'
  BY <1>b DEF vars, TypeOK, ProxyInv, IInv
<1>d. RunTypeOK /\ ReadInOrder /\ HasDrained /\ VerdictFollows
  BY DEF RunInv
<1>1. CASE Signal
  BY <1>b, <1>c, <1>d, <1>1
     DEF Signal, RunInv, RunTypeOK, ReadInOrder, HasDrained, VerdictFollows, vars
<1>2. CASE Drained
  <2>1. hijacked = {} => \A r \in Requests : pc[r] \in Over
    BY <1>2 DEF Drained, Quiet, InFlight
  <2>2. RunTypeOK' /\ ReadInOrder' /\ VerdictFollows'
    BY <1>b, <1>c, <1>d, <1>2 DEF Drained, RunTypeOK, ReadInOrder, VerdictFollows, vars
  <2>3. HasDrained'
    BY <1>b, <1>2, <2>1 DEF Drained, HasDrained, Complete, vars
  <2> QED
    BY <2>2, <2>3 DEF RunInv
<1>3. CASE DeadlineExpires
  BY <1>b, <1>c, <1>d, <1>3
     DEF DeadlineExpires, RunInv, RunTypeOK, ReadInOrder, HasDrained, VerdictFollows, vars
<1>4. CASE SummariseFindings
  <2>1. summary' \in Reading /\ summary'.findings = Findings
    BY <1>a, <1>b, <1>4 DEF SummariseFindings, Reading
  <2>2. RunTypeOK'
    BY <1>c, <1>d, <1>4, <2>1 DEF SummariseFindings, RunTypeOK, Reading
  <2>3. ReadInOrder' /\ VerdictFollows'
    BY <1>b, <1>4, <2>1 DEF SummariseFindings, ReadInOrder, VerdictFollows
  <2>4. HasDrained'
    BY <1>b, <1>d, <1>4, <2>1 DEF SummariseFindings, HasDrained, Complete, vars
  <2> QED
    BY <2>2, <2>3, <2>4 DEF RunInv
<1>5. CASE SummariseRequests
  <2>1. summary' \in Reading /\ summary'.requests = requests /\ summary'.findings = summary.findings
    BY <1>a, <1>b, <1>5 DEF SummariseRequests, Reading
  <2>2. RunTypeOK'
    BY <1>c, <1>d, <1>5, <2>1 DEF SummariseRequests, RunTypeOK, Reading
  <2>3. ReadInOrder' /\ VerdictFollows'
    BY <1>b, <1>d, <1>5, <2>1 DEF SummariseRequests, ReadInOrder, VerdictFollows, vars
  <2>4. HasDrained'
    BY <1>b, <1>d, <1>5, <2>1 DEF SummariseRequests, HasDrained, Complete, vars
  <2> QED
    BY <2>2, <2>3, <2>4 DEF RunInv
<1>6. CASE ReportRequests
  <2>1. report' \in Reading /\ report'.requests = requests
    BY <1>a, <1>b, <1>6 DEF ReportRequests, Reading
  <2>2. RunTypeOK'
    BY <1>c, <1>d, <1>6, <2>1 DEF ReportRequests, RunTypeOK, Reading
  <2>3. ReadInOrder' /\ VerdictFollows'
    BY <1>b, <1>d, <1>6, <2>1 DEF ReportRequests, ReadInOrder, VerdictFollows, vars
  <2>4. HasDrained'
    BY <1>b, <1>d, <1>6, <2>1 DEF ReportRequests, HasDrained, Complete, vars
  <2> QED
    BY <2>2, <2>3, <2>4 DEF RunInv
<1>7. CASE ReportFindings
  <2>1. report' \in Reading /\ report'.findings = Findings /\ report'.requests = report.requests
    BY <1>a, <1>b, <1>7 DEF ReportFindings, Reading
  <2>2. RunTypeOK'
    BY <1>c, <1>d, <1>7, <2>1 DEF ReportFindings, RunTypeOK, Reading
  <2>3. ReadInOrder' /\ VerdictFollows'
    BY <1>b, <1>d, <1>7, <2>1 DEF ReportFindings, ReadInOrder, VerdictFollows, vars
  <2>4. HasDrained'
    BY <1>b, <1>d, <1>7, <2>1 DEF ReportFindings, HasDrained, Complete, vars
  <2> QED
    BY <2>2, <2>3, <2>4 DEF RunInv
<1>8. CASE LearnAndExit
  <2>1. RunTypeOK'
    BY <1>b, <1>c, <1>d, <1>8 DEF LearnAndExit, RunTypeOK, ExitCode
  <2>2. ReadInOrder'
    BY <1>b, <1>d, <1>8 DEF LearnAndExit, ReadInOrder, vars
  <2>3. VerdictFollows'
    BY <1>8 DEF LearnAndExit, VerdictFollows, ExitCode
  <2>4. HasDrained'
    BY <1>b, <1>d, <1>8 DEF LearnAndExit, HasDrained, Complete, vars
  <2> QED
    BY <2>1, <2>2, <2>3, <2>4 DEF RunInv
<1>9. CASE Fails
  BY <1>b, <1>c, <1>d, <1>9
     DEF Fails, RunInv, RunTypeOK, ReadInOrder, HasDrained, VerdictFollows, vars
<1> QED
  BY <1>1, <1>2, <1>3, <1>4, <1>5, <1>6, <1>7, <1>8, <1>9 DEF Main

LEMMA RunInvariance == RunSpec => [](ProxyInv /\ RunInv)
<1>1. RunInit => RunInv
  BY InitRun
<1>2. ProxyInv /\ ProxyInv' /\ RunInv /\ [RunNext]_allVars => RunInv'
  <2>1. ASSUME RunInv, UNCHANGED allVars PROVE RunInv'
    BY <2>1 DEF allVars, vars, runVars, RunInv, RunTypeOK, TypeOK, ReadInOrder, HasDrained, Complete,
                VerdictFollows, ExitCode, Findings
  <2> QED
    BY <2>1, HandlersKeepRun, MainKeepsRun DEF RunNext
<1> QED
  BY <1>1, <1>2, ProxyInvariance, PTL DEF RunSpec

(* The command's state is what its types say, for any number of handlers.  *)
THEOREM RunTypeCorrect == RunSpec => []RunTypeOK
<1>1. RunInv => RunTypeOK
  BY DEF RunInv
<1> QED
  BY <1>1, RunInvariance, PTL

(* Whatever still runs when the reports are written, the summary promises  *)
(* nothing the report does not hold, and no findings over zero requests.   *)
THEOREM ReportCoversSummary == RunSpec => []SummaryIsCovered
<1>1. RunInv => SummaryIsCovered
  BY DEF RunInv, ReadInOrder, SummaryIsCovered
<1> QED
  BY <1>1, RunInvariance, PTL

(* A run that drained, with no connection hijacked, reports everything:    *)
(* all findings, all requests, every endpoint to learn up to the limit,    *)
(* and with -proxy-strict an exit code that says whether there was drift.  *)
THEOREM DrainedRunTellsAll == RunSpec => []DrainedRunIsComplete
<1>1. ProxyInv /\ RunInv => DrainedRunIsComplete
  <2> SUFFICES ASSUME ProxyInv, RunInv, main = "exited", ~ expired, hijacked = {}
               PROVE  /\ summary = report /\ report.findings = Findings
                      /\ report.requests = Cardinality({r \in Requests : pc[r] \in {"recovered", "done"}})
                      /\ \A r \in Requests :
                            pc[r] = "done" /\ Learns(ex[r])
                              => Endpoint(ex[r]) \in fragment \/ Cardinality(fragment) = MaxLearned
                      /\ exit = 1 <=> Strict /\ report.findings # {}
    BY DEF DrainedRunIsComplete
  <2>1. Complete /\ (\A r \in Requests : pc[r] \in Over) /\ exit = ExitCode
    BY DEF RunInv, HasDrained, VerdictFollows
  <2>2. /\ summary.findings = Findings /\ report.findings = Findings
        /\ summary.requests = requests /\ report.requests = requests
        /\ fragment = DOMAIN seen
    BY <2>1 DEF Complete
  <2>3. summary = report
    <3>1. summary \in Reading /\ report \in Reading
      BY DEF RunInv, RunTypeOK, Reading
    <3> QED
      BY <2>2, <3>1 DEF Reading
  <2>4. Counted = {r \in Requests : pc[r] \in {"recovered", "done"}}
    BY <2>1 DEF Counted, Past, Over
  <2>5. requests = Cardinality({r \in Requests : pc[r] \in {"recovered", "done"}})
    BY <2>4 DEF ProxyInv, RequestsInv
  <2>6. ASSUME NEW r \in Requests, pc[r] = "done", Learns(ex[r])
        PROVE  Endpoint(ex[r]) \in DOMAIN seen \/ Cardinality(DOMAIN seen) = MaxLearned
    <3>1. Endpoint(ex[r]) \in Paths /\ ex[r].status \in Statuses
      <4>1. ex[r] \in Exchange
        BY DEF ProxyInv, IInv, TypeOK
      <4> QED
        BY <4>1, ProxyAssumption DEF Endpoint, Exchange
    <3>2. r \in Taught(Endpoint(ex[r]), ex[r].status)
      BY <2>6 DEF Taught
    <3>3. Endpoint(ex[r]) \notin DOMAIN seen => Cardinality(DOMAIN seen) >= MaxLearned
      BY <3>1, <3>2 DEF ProxyInv, LearnInv, FullWhenRefused
    <3>4. Cardinality(DOMAIN seen) \in Nat /\ Cardinality(DOMAIN seen) <= MaxLearned
      BY FS_CardinalityType DEF ProxyInv, IInv, Finite, Bounded
    <3> QED
      BY <3>3, <3>4, LearnerAssumption
  <2>7. exit = 1 <=> Strict /\ report.findings # {}
    BY <2>1, <2>2 DEF ExitCode
  <2> QED
    BY <2>2, <2>3, <2>5, <2>6, <2>7
<1> QED
  BY <1>1, RunInvariance, PTL
=============================================================================
