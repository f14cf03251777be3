-------------------------- MODULE DocumentsProofs --------------------------
(***************************************************************************)
(* Proofs about Documents, for every set of sources, requests and answers  *)
(* and whatever the checker, the mock's sampler and the learner's          *)
(* inference say of a body: after any merge a request meets the most       *)
(* specific operation, a merge keeps what the source documents, what was   *)
(* learned is documented, and a stored cross-origin grant is safe.         *)
(***************************************************************************)
EXTENDS Documents, RouteProofs

LEMMA SequenceOfOne == /\ ToSet(<< >>) = {}
                       /\ \A x : ToSet(<<x>>) = {x} /\ <<x>> # << >> /\ <<x>>[1] = x
  BY DEF ToSet

(* MergeInto, operation by operation.                                      *)
LEMMA MergedOperations ==
    ASSUME NEW base, IsDocument(base), NEW extra, IsDocument(extra), NEW mark,
           NEW p, NEW m
    PROVE  LET d == MergeInto(base, extra, mark) IN
           /\ HasOp(d, p, m) <=> HasOp(base, p, m) \/ HasOp(extra, p, m)
           /\ ~ HasOp(base, p, m) /\ HasOp(extra, p, m) =>
                d.paths[p][m] = Marked(extra.paths[p][m], mark)
           /\ HasOp(base, p, m) /\ ~ HasOp(extra, p, m) => d.paths[p][m] = base.paths[p][m]
           /\ HasOp(base, p, m) /\ HasOp(extra, p, m) =>
                d.paths[p][m] = Enriched(base.paths[p][m], extra.paths[p][m])
<1> DEFINE both(q) == DOMAIN MethodsOf(base, q) \cup DOMAIN MethodsOf(extra, q)
           merged(q, n) ==
             CASE ~ HasOp(base, q, n)  -> Marked(extra.paths[q][n], mark)
               [] ~ HasOp(extra, q, n) -> base.paths[q][n]
               [] OTHER -> Enriched(base.paths[q][n], extra.paths[q][n])
           d == MergeInto(base, extra, mark)
<1>1. d.paths = MergedPaths(base, extra, mark)
  BY DEF MergeInto, IsDocument
<1>2. d.paths = [q \in DOMAIN base.paths \cup DOMAIN extra.paths |->
                   [n \in both(q) |-> merged(q, n)]]
  BY <1>1 DEF MergedPaths
<1> HIDE DEF d, merged
<1>3. p \notin DOMAIN base.paths \cup DOMAIN extra.paths =>
        ~ HasOp(base, p, m) /\ ~ HasOp(extra, p, m) /\ ~ HasOp(d, p, m)
  BY <1>2, DOMAIN << >> = {} DEF HasOp, MethodsOf
<1>4. ASSUME p \in DOMAIN base.paths \cup DOMAIN extra.paths
      PROVE  /\ HasOp(d, p, m) <=> m \in both(p)
             /\ m \in both(p) => d.paths[p][m] = merged(p, m)
  BY <1>2, <1>4 DEF HasOp, MethodsOf
<1>5. m \in both(p) <=> HasOp(base, p, m) \/ HasOp(extra, p, m)
  BY DEF HasOp
<1> QED
  BY <1>3, <1>4, <1>5 DEF d, merged
(* Enriching adds responses and touches nothing else.                      *)
LEMMA EnrichedOperation ==
    ASSUME NEW op, IsOperation(op), NEW more, IsOperation(more)
    PROVE  LET now == Enriched(op, more) IN
           /\ IsOperation(now) /\ now.observed = op.observed
           /\ [now EXCEPT !.responses = op.responses] = op
           /\ DOMAIN now.responses = DOMAIN op.responses \cup DOMAIN more.responses
           /\ \A c \in DOMAIN op.responses : now.responses[c] = op.responses[c]
           /\ \A c \in DOMAIN more.responses \ DOMAIN op.responses :
                now.responses[c] = more.responses[c]
<1> DEFINE joined == Joined(op.responses, more.responses)
           now == Enriched(op, more)
<1>1. now = [op EXCEPT !.responses = joined]
  BY DEF Enriched
<1>2. /\ DOMAIN joined = DOMAIN op.responses \cup DOMAIN more.responses
      /\ \A c \in DOMAIN op.responses : joined[c] = op.responses[c]
      /\ \A c \in DOMAIN more.responses \ DOMAIN op.responses : joined[c] = more.responses[c]
  BY DEF Joined
<1> HIDE DEF joined, now
<1>3. /\ now = [params |-> now.params, responses |-> now.responses, security |-> now.security,
               observed |-> now.observed, manual |-> now.manual]
      /\ now.responses = joined /\ now.observed = op.observed
      /\ [now EXCEPT !.responses = op.responses] = op
  BY <1>1 DEF IsOperation
<1>4. /\ DOMAIN joined \subseteq Nat /\ DOMAIN joined # {}
      /\ IsFiniteSet(DOMAIN joined)
  <2>1. /\ DOMAIN op.responses \subseteq Nat /\ DOMAIN op.responses # {}
        /\ DOMAIN more.responses \subseteq Nat
        /\ IsFiniteSet(DOMAIN op.responses) /\ IsFiniteSet(DOMAIN more.responses)
    BY DEF IsOperation
  <2>2. IsFiniteSet(DOMAIN op.responses \cup DOMAIN more.responses)
    BY <2>1, FS_Union
  <2> QED
    BY <1>2, <2>1, <2>2
<1> QED
  BY <1>2, <1>3, <1>4 DEF IsOperation, now

(* A merge of documents is a document with the base's components.          *)
LEMMA MergedDocument ==
    ASSUME NEW base, IsDocument(base), NEW extra, IsDocument(extra),
           NEW mark \in {"observed", "manual"}
    PROVE  /\ IsDocument(MergeInto(base, extra, mark))
           /\ MergeInto(base, extra, mark).components = base.components
<1> DEFINE d == MergeInto(base, extra, mark)
<1>1. /\ d = [paths |-> d.paths, components |-> d.components,
             schemes |-> d.schemes, security |-> d.security]
      /\ d.components = base.components
      /\ d.paths = MergedPaths(base, extra, mark)
  BY DEF MergeInto, IsDocument
<1>2. Table(d.paths)
  <2>1. Table(base.paths) /\ Table(extra.paths)
    BY DEF IsDocument
  <2>2. IsFiniteSet(DOMAIN base.paths \cup DOMAIN extra.paths)
    BY <2>1, FS_Union DEF Table
  <2>3. DOMAIN d.paths = DOMAIN base.paths \cup DOMAIN extra.paths
    BY <1>1 DEF MergedPaths
  <2> HIDE DEF d
  <2> QED
    BY <2>1, <2>2, <2>3 DEF Table
<1> HIDE DEF d
<1>3. ASSUME NEW p \in DOMAIN d.paths, NEW m \in DOMAIN d.paths[p]
      PROVE  IsOperation(d.paths[p][m])
  <2>1. HasOp(d, p, m)
    BY DEF HasOp, MethodsOf
  <2>2. /\ HasOp(base, p, m) => IsOperation(base.paths[p][m])
        /\ HasOp(extra, p, m) => IsOperation(extra.paths[p][m])
    BY DOMAIN << >> = {} DEF HasOp, MethodsOf, IsDocument
  <2>3. CASE HasOp(base, p, m) /\ HasOp(extra, p, m)
    BY <2>2, <2>3, MergedOperations, EnrichedOperation DEF d
  <2>4. CASE HasOp(base, p, m) /\ ~ HasOp(extra, p, m)
    BY <2>2, <2>4, MergedOperations DEF d
  <2>5. CASE ~ HasOp(base, p, m)
    <3>1. HasOp(extra, p, m)
      BY <2>1, <2>5, MergedOperations DEF d
    <3>2. d.paths[p][m] = Marked(extra.paths[p][m], mark)
      BY <2>5, <3>1, MergedOperations DEF d
    <3> QED
      BY <2>2, <3>1, <3>2 DEF IsOperation, Marked
  <2> QED
    BY <2>3, <2>4, <2>5
<1> QED
  BY <1>1, <1>2, <1>3 DEF IsDocument, d

(* What the merge keeps of the base (merge.go, mergeInto).                 *)
LEMMA BaseIsKept ==
    ASSUME NEW base, IsDocument(base), NEW extra, IsDocument(extra), NEW mark,
           NEW p, NEW m, HasOp(base, p, m)
    PROVE  LET was == base.paths[p][m]
               now == MergeInto(base, extra, mark).paths[p][m] IN
           Extends(now, was) /\ now.observed = was.observed
<1> DEFINE was == base.paths[p][m]
           now == MergeInto(base, extra, mark).paths[p][m]
<1>1. /\ IsOperation(was)
      /\ HasOp(extra, p, m) => IsOperation(extra.paths[p][m])
  BY DOMAIN << >> = {} DEF HasOp, MethodsOf, IsDocument
<1>2. /\ HasOp(extra, p, m) => now = Enriched(was, extra.paths[p][m])
      /\ ~ HasOp(extra, p, m) => now = was
  BY MergedOperations
<1> HIDE DEF was, now
<1>3. CASE HasOp(extra, p, m)
  BY <1>1, <1>2, <1>3, EnrichedOperation DEF Extends, was, now
<1>4. CASE ~ HasOp(extra, p, m)
  BY <1>1, <1>2, <1>4 DEF IsOperation, Extends, was, now
<1> QED
  BY <1>3, <1>4

(* What it takes from the other document: an operation the base lacks, and *)
(* the responses an operation of the base lacks.                           *)
LEMMA ExtraIsTaken ==
    ASSUME NEW base, IsDocument(base), NEW extra, IsDocument(extra),
           NEW mark \in {"observed", "manual"}, NEW p, NEW m, HasOp(extra, p, m)
    PROVE  LET more == extra.paths[p][m]
               now  == MergeInto(base, extra, mark).paths[p][m] IN
           /\ DOMAIN more.responses \subseteq DOMAIN now.responses
           /\ \A c \in DOMAIN more.responses :
                ~ (HasOp(base, p, m) /\ c \in DOMAIN base.paths[p][m].responses)
                => now.responses[c] = more.responses[c]
<1> DEFINE was  == base.paths[p][m]
           more == extra.paths[p][m]
           now  == MergeInto(base, extra, mark).paths[p][m]
<1>1. /\ IsOperation(more)
      /\ HasOp(base, p, m) => IsOperation(was)
  BY DOMAIN << >> = {} DEF HasOp, MethodsOf, IsDocument
<1>2. /\ HasOp(base, p, m) => now = Enriched(was, more)
      /\ ~ HasOp(base, p, m) => now = Marked(more, mark)
  BY MergedOperations
<1> HIDE DEF was, more, now
<1>3. CASE HasOp(base, p, m)
  BY <1>1, <1>2, <1>3, EnrichedOperation DEF was, more, now
<1>4. CASE ~ HasOp(base, p, m)
  <2>1. now.responses = more.responses
    BY <1>1, <1>2, <1>4 DEF IsOperation, Marked
  <2> QED
    BY <1>4, <2>1 DEF more, now
<1> QED
  BY <1>3, <1>4

(* A merge adds no response of its own.                                    *)
LEMMA NothingElseIsAdded ==
    ASSUME NEW base, IsDocument(base), NEW extra, IsDocument(extra),
           NEW mark \in {"observed", "manual"}, NEW p, NEW m,
           HasOp(MergeInto(base, extra, mark), p, m),
           NEW c \in DOMAIN MergeInto(base, extra, mark).paths[p][m].responses
    PROVE  LET response == MergeInto(base, extra, mark).paths[p][m].responses[c] IN
           \/ /\ HasOp(base, p, m) /\ c \in DOMAIN base.paths[p][m].responses
              /\ response = base.paths[p][m].responses[c]
           \/ /\ HasOp(extra, p, m) /\ c \in DOMAIN extra.paths[p][m].responses
              /\ response = extra.paths[p][m].responses[c]
<1> DEFINE was  == base.paths[p][m]
           more == extra.paths[p][m]
           now  == MergeInto(base, extra, mark).paths[p][m]
<1>1. /\ HasOp(base, p, m) => IsOperation(was)
      /\ HasOp(extra, p, m) => IsOperation(more)
  BY DOMAIN << >> = {} DEF HasOp, MethodsOf, IsDocument
<1>2. /\ HasOp(base, p, m) \/ HasOp(extra, p, m)
      /\ HasOp(base, p, m) /\ HasOp(extra, p, m) => now = Enriched(was, more)
      /\ HasOp(base, p, m) /\ ~ HasOp(extra, p, m) => now = was
      /\ ~ HasOp(base, p, m) => now = Marked(more, mark)
  BY MergedOperations
<1>3. c \in DOMAIN now.responses
  OBVIOUS
<1> HIDE DEF was, more, now
<1>4. CASE HasOp(base, p, m) /\ HasOp(extra, p, m)
  <2>1. /\ DOMAIN now.responses = DOMAIN was.responses \cup DOMAIN more.responses
        /\ \A x \in DOMAIN was.responses : now.responses[x] = was.responses[x]
        /\ \A x \in DOMAIN more.responses \ DOMAIN was.responses :
             now.responses[x] = more.responses[x]
    BY <1>1, <1>2, <1>4, EnrichedOperation
  <2> QED
    BY <1>3, <1>4, <2>1 DEF was, more, now
<1>5. CASE HasOp(base, p, m) /\ ~ HasOp(extra, p, m)
  BY <1>2, <1>3, <1>5 DEF was, now
<1>6. CASE ~ HasOp(base, p, m)
  <2>1. now.responses = more.responses
    BY <1>1, <1>2, <1>6 DEF IsOperation, Marked
  <2> QED
    BY <1>2, <1>3, <1>6, <2>1 DEF more, now
<1> QED
  BY <1>4, <1>5, <1>6

(* Of some places of a sequence one is the last.                           *)
LEMMA LastPlace ==
    ASSUME NEW n \in Nat, NEW S \in SUBSET (1 .. n), S # {}
    PROVE  \E i \in S : \A j \in S : j <= i
<1> DEFINE T == {k \in 0 .. n : \E i \in S : i + k = n}
<1>1. T \in SUBSET Nat /\ IsFiniteSet(T)
  <2>1. T \in SUBSET (0 .. n) /\ IsFiniteSet(0 .. n)
    BY FS_Interval
  <2> QED
    BY <2>1, FS_Subset
<1>2. \A i \in S : n - i \in T
  <2> TAKE i \in S
  <2>1. i \in Nat /\ i <= n
    OBVIOUS
  <2>2. n - i \in 0 .. n /\ i + (n - i) = n
    BY <2>1
  <2> QED
    BY <2>2
<1>3. T # {}
  BY <1>2
<1> DEFINE least == Min(T)
<1>4. least \in T /\ \A k \in T : least <= k
  BY <1>1, <1>3, LeastMember
<1> HIDE DEF least
<1>5. PICK i \in S : i + least = n
  BY <1>4
<1> HIDE DEF T
<1>6. ASSUME NEW j \in S
      PROVE  j <= i
  <2>1. least <= n - j
    BY <1>2, <1>4
  <2>2. least \in Nat /\ i \in Nat /\ j \in Nat
    BY <1>1, <1>4
  <2> QED
    BY <1>5, <2>1, <2>2
<1> QED
  BY <1>6

(* The document of the routes declared by hand.                            *)
LEMMA ManualIsDocument ==
    IsDocument(ManualDocument(Manual)) /\ Unmarked(ManualDocument(Manual))
<1> DEFINE last(p, m) == CHOOSE i \in DOMAIN Manual :
              /\ Manual[i].path = p /\ Manual[i].method = m
              /\ \A j \in DOMAIN Manual :
                   Manual[j].path = p /\ Manual[j].method = m => j <= i
           codes(r) == IF r.codes = {} THEN {200} ELSE r.codes
           op(r) == [params |-> << >>, responses |-> [c \in codes(r) |-> [content |-> << >>]],
                     security |-> {}, observed |-> FALSE, manual |-> FALSE]
           paths == [p \in {r.path : r \in ToSet(Manual)} |->
                      [m \in {r.method : r \in {q \in ToSet(Manual) : q.path = p}} |->
                         op(Manual[last(p, m)])]]
           d == ManualDocument(Manual)
<1>1. d = NewDocument(paths)
  BY DEF ManualDocument
<1>2. d = [paths |-> d.paths, components |-> d.components, schemes |-> d.schemes,
          security |-> d.security] /\ d.paths = paths
  BY <1>1 DEF NewDocument
<1>3. /\ DOMAIN Manual = 1 .. Len(Manual) /\ Len(Manual) \in Nat
      /\ ToSet(Manual) = {Manual[i] : i \in 1 .. Len(Manual)}
  BY ManualAssumption DEF ManualAssumption, ToSet
<1> HIDE DEF d, last
<1>4. Table(d.paths)
  <2>1. DOMAIN d.paths = {r.path : r \in ToSet(Manual)}
    BY <1>2
  <2>2. DOMAIN d.paths \subseteq Seq(Segment)
    BY <2>1, ManualAssumption DEF ManualAssumption
  <2>3. IsFiniteSet(1 .. Len(Manual))
    BY <1>3, FS_Interval
  <2>4. DOMAIN d.paths = {Manual[i].path : i \in 1 .. Len(Manual)}
    BY <1>3, <2>1
  <2>5. [i \in 1 .. Len(Manual) |-> Manual[i].path] \in Surjection(1 .. Len(Manual), DOMAIN d.paths)
    BY <2>4 DEF Surjection
  <2>6. IsFiniteSet(DOMAIN d.paths)
    BY <2>3, <2>5, FS_Surjection
  <2> QED
    BY <2>2, <2>6 DEF Table
<1>5. ASSUME NEW p \in DOMAIN d.paths, NEW m \in DOMAIN d.paths[p]
      PROVE  IsOperation(d.paths[p][m]) /\ ~ d.paths[p][m].observed
  <2> DEFINE S == {i \in 1 .. Len(Manual) : Manual[i].path = p /\ Manual[i].method = m}
             r0 == Manual[last(p, m)]
  <2>1. m \in {r.method : r \in {q \in ToSet(Manual) : q.path = p}}
        /\ d.paths[p][m] = op(r0)
    BY <1>2
  <2>2. S # {}
    BY <1>3, <2>1
  <2>3. \E i \in S : \A j \in S : j <= i
    BY <1>3, <2>2, LastPlace
  <2>4. last(p, m) \in 1 .. Len(Manual)
    BY <1>3, <2>3 DEF last
  <2>5. r0 \in ToSet(Manual)
    BY <1>3, <2>4
  <2>6. r0.codes \subseteq Nat /\ IsFiniteSet(r0.codes)
    BY <2>5, ManualAssumption DEF ManualAssumption
  <2> HIDE DEF r0
  <2>7. codes(r0) \subseteq Nat /\ codes(r0) # {} /\ IsFiniteSet(codes(r0))
    <3>1. IsFiniteSet({200})
      BY FS_Singleton
    <3> QED
      BY <2>6, <3>1
  <2>8. op(r0) = [params |-> << >>, responses |-> [c \in codes(r0) |-> [content |-> << >>]],
                  security |-> {}, observed |-> FALSE, manual |-> FALSE]
    OBVIOUS
  <2> HIDE DEF codes, op
  <2>9. DOMAIN op(r0).responses = codes(r0) /\ ~ op(r0).observed
    BY <2>8
  <2>10. op(r0) = [params |-> op(r0).params, responses |-> op(r0).responses,
                   security |-> op(r0).security, observed |-> op(r0).observed,
                   manual |-> op(r0).manual]
    BY <2>8
  <2> QED
    BY <2>1, <2>7, <2>9, <2>10 DEF IsOperation
<1> QED
  BY <1>2, <1>4, <1>5 DEF IsDocument, Unmarked, d

(* What the proxy judges by and what a merge run starts from.              *)
LEMMA GeneratedDocument ==
    ASSUME NEW s \in Sources
    PROVE  /\ IsDocument(Generate(s)) /\ Unmarked(Generate(s))
           /\ Generate(s).components = s.components
<1>1. IsDocument(s) /\ Unmarked(s)
  BY SourcesAssumption DEF SourcesAssumption
<1>2. CASE Manual = << >>
  BY <1>1, <1>2 DEF Generate, ApplyManualRoutes
<1>3. CASE Manual # << >>
  <2> DEFINE by == ManualDocument(Manual)
             d == MergeInto(s, by, "manual")
  <2>1. Generate(s) = d
    BY <1>3 DEF Generate, ApplyManualRoutes, MergeManual
  <2>2. IsDocument(by) /\ Unmarked(by)
    BY ManualIsDocument
  <2> HIDE DEF by
  <2>3. IsDocument(d) /\ d.components = s.components
    BY <1>1, <2>2, MergedDocument
  <2>4. ASSUME NEW p \in DOMAIN d.paths, NEW m \in DOMAIN d.paths[p]
        PROVE  ~ d.paths[p][m].observed
    <3>1. HasOp(d, p, m)
      BY DEF HasOp, MethodsOf
    <3>2. /\ HasOp(s, p, m) => ~ s.paths[p][m].observed
          /\ HasOp(by, p, m) => ~ by.paths[p][m].observed /\ IsOperation(by.paths[p][m])
      BY <1>1, <2>2, DOMAIN << >> = {} DEF HasOp, MethodsOf, Unmarked, IsDocument
    <3>3. CASE HasOp(s, p, m)
      <4>1. d.paths[p][m].observed = s.paths[p][m].observed
        BY <1>1, <2>2, <3>3, BaseIsKept
      <4> QED
        BY <3>2, <3>3, <4>1
    <3>4. CASE ~ HasOp(s, p, m)
      <4>1. HasOp(by, p, m) /\ d.paths[p][m] = Marked(by.paths[p][m], "manual")
        BY <1>1, <2>2, <3>1, <3>4, MergedOperations
      <4> QED
        BY <3>2, <4>1 DEF Marked, IsOperation
    <3> QED
      BY <3>3, <3>4
  <2> QED
    BY <2>1, <2>3, <2>4 DEF Unmarked
<1> QED
  BY <1>2, <1>3
(* The path a request is filed under fits it, whatever stands for its      *)
(* identifiers (learn.go, NormalisePath).                                  *)
LEMMA NormalisedPathFits ==
    ASSUME NEW r \in Requests
    PROVE  LET n == NormalisePath(r.path) IN
           n \in Seq(Segment) /\ Fits([path |-> n, method |-> r.method], r.method, r.path)
<1> DEFINE path == r.path
           n == NormalisePath(path)
           kept == Kept(path)
           size == Cardinality(kept)
<1>1. path \in Seq(Segment)
  BY TrafficAssumption DEF TrafficAssumption
<1>2. "" \notin IdLike /\ "{id}" \in ToSet(SegmentOrder) /\ "" \notin ToSet(SegmentOrder) /\ IsParam("{id}")
  BY TrafficAssumption, RouteAssumption DEF TrafficAssumption, RouteAssumption, IsParam
<1>3. /\ DOMAIN path = 1 .. Len(path) /\ Len(path) \in Nat
      /\ \A i \in 1 .. Len(path) : path[i] \in Segment
  BY <1>1
<1>4. /\ DOMAIN n = 1 .. Len(path) /\ n = [i \in 1 .. Len(path) |-> n[i]]
      /\ \A i \in 1 .. Len(path) : \/ n[i] = path[i]
                                   \/ path[i] \in IdLike /\ n[i] = "{id}"
  BY <1>3 DEF NormalisePath
<1> HIDE DEF n, path
<1>5. \A i \in 1 .. Len(path) : n[i] = path[i] \/ IsParam(n[i])
  BY <1>2, <1>4
<1>6. n \in Seq(Segment)
  <2>1. \A i \in 1 .. Len(path) : n[i] \in Segment
    BY <1>2, <1>3, <1>4 DEF Segment
  <2>2. n \in [1 .. Len(path) -> Segment]
    BY <1>4, <2>1
  <2> QED
    BY <1>3, <2>2
<1>7. \A i \in 1 .. Len(path) : n[i] # "" <=> path[i] # ""
  BY <1>2, <1>4
<1>8. Kept(n) = kept /\ kept \in SUBSET (1 .. Len(path)) /\ DOMAIN n = DOMAIN path
  BY <1>3, <1>4, <1>7 DEF Kept
<1>9. Split(path) = IF kept = DOMAIN path THEN path ELSE [k \in 1 .. size |-> path[Place(kept, k)]]
  BY DEF Split
<1>10. Split(n) = IF kept = DOMAIN path THEN n ELSE [k \in 1 .. size |-> n[Place(kept, k)]]
  BY <1>8 DEF Split
<1> HIDE DEF kept
<1>11. size \in Nat /\ \A k \in 1 .. size : Place(kept, k) \in kept
  BY <1>3, <1>8, KthPlace
<1> HIDE DEF size
<1>12. /\ Len(Split(n)) = Len(Split(path)) /\ DOMAIN Split(n) = DOMAIN Split(path)
       /\ \A i \in DOMAIN Split(n) : IsParam(Split(n)[i]) \/ Split(n)[i] = Split(path)[i]
  <2>1. CASE kept = DOMAIN path
    <3>1. Split(n) = n /\ Split(path) = path
      BY <1>9, <1>10, <2>1
    <3>2. Len(n) \in Nat /\ DOMAIN n = 1 .. Len(n)
      BY <1>6
    <3>3. Len(n) = Len(path)
      <4>1. /\ Cardinality(1 .. Len(n)) = Len(n)
            /\ Cardinality(1 .. Len(path)) = Len(path)
        <5>1. \A k \in Nat : Cardinality(1 .. k) = k
          BY FS_Interval
        <5> QED
          BY <1>3, <3>2, <5>1
      <4> QED
        BY <1>4, <3>2, <4>1
    <3> QED
      BY <1>3, <1>4, <1>5, <3>1, <3>3
  <2>2. CASE kept # DOMAIN path
    <3>1. /\ Split(n) = [k \in 1 .. size |-> n[Place(kept, k)]]
          /\ Split(path) = [k \in 1 .. size |-> path[Place(kept, k)]]
      BY <1>9, <1>10, <2>2
    <3>2. \A k \in 1 .. size : Place(kept, k) \in 1 .. Len(path)
      BY <1>8, <1>11
    <3> QED
      BY <1>5, <1>11, <3>1, <3>2
  <2> QED
    BY <2>1, <2>2
<1> QED
  BY <1>6, <1>12 DEF Fits, n, path

(* What a request meets, as the proxy and the mock read it off a match.    *)
LEMMA MatchedOperation ==
    ASSUME NEW doc, IsDocument(doc), NEW r \in Requests
    PROVE  LET rt == Match(Compile(doc.paths), r.method, r.path) IN
           /\ rt # << >> => /\ rt[1].path \in DOMAIN doc.paths /\ rt[1].method = r.method
                            /\ rt[1] = [path |-> rt[1].path, method |-> r.method]
                            /\ HasOp(doc, rt[1].path, r.method)
                            /\ IsOperation(doc.paths[rt[1].path][r.method])
                            /\ Fits(rt[1], r.method, r.path)
           /\ \A p : HasOp(doc, p, r.method)
                     /\ Fits([path |-> p, method |-> r.method], r.method, r.path) => rt # << >>
<1> DEFINE rt == Match(Compile(doc.paths), r.method, r.path)
           fit == {x \in AllOf(doc.paths) : Fits(x, r.method, r.path)}
<1>1. Table(doc.paths)
  BY DEF IsDocument
<1>2. /\ fit = {} => rt = << >>
      /\ fit # {} => \E first \in fit : rt = <<first>>
  BY <1>1, MatchIsFirst
<1>3. ASSUME NEW x \in fit
      PROVE  /\ x.path \in DOMAIN doc.paths /\ x.method = r.method
             /\ x = [path |-> x.path, method |-> r.method]
             /\ HasOp(doc, x.path, r.method)
             /\ IsOperation(doc.paths[x.path][r.method])
             /\ Fits(x, r.method, r.path)
  <2>1. x \in RoutesOf(doc.paths) /\ Documents(doc.paths, x) /\ Fits(x, r.method, r.path)
    BY DEF AllOf
  <2>2. /\ x.path \in DOMAIN doc.paths /\ x.method = r.method
        /\ x = [path |-> x.path, method |-> r.method]
    BY <2>1 DEF RoutesOf, Fits
  <2>3. x.method \in DOMAIN doc.paths[x.path]
    BY <2>1 DEF Documents
  <2> QED
    BY <2>1, <2>2, <2>3 DEF HasOp, MethodsOf, IsDocument
<1>4. ASSUME NEW p, HasOp(doc, p, r.method),
             Fits([path |-> p, method |-> r.method], r.method, r.path)
      PROVE  fit # {}
  <2>1. p \in DOMAIN doc.paths /\ r.method \in DOMAIN doc.paths[p]
    BY <1>4, DOMAIN << >> = {} DEF HasOp, MethodsOf
  <2>2. r.method \in ToSet(MethodOrder)
    BY TrafficAssumption DEF TrafficAssumption
  <2>3. [path |-> p, method |-> r.method] \in AllOf(doc.paths)
    BY <2>1, <2>2 DEF AllOf, RoutesOf, Documents
  <2> QED
    BY <1>4, <2>3
<1> HIDE DEF rt, fit
<1>5. rt # << >> => rt[1] \in fit
  BY <1>2
<1> QED
  BY <1>2, <1>3, <1>4, <1>5 DEF rt
----------------------------------------------------------------------------
(* What there is to serve at a path: what a source documents there, and    *)
(* what may be inferred from an answer.  Paths are those of the documents  *)
(* and those the learner may file a request under.                         *)
Normalised == {NormalisePath(r.path) : r \in Requests}
Templates == (UNION {DOMAIN Generate(s).paths : s \in Sources}) \cup Normalised
ServedBy(doc, p, m) ==
    IF HasOp(doc, p, m)
    THEN {doc.paths[p][m].responses[c].content : c \in DOMAIN doc.paths[p][m].responses} ELSE {}
Inferable == {Opt(Inferred(a.body)) : a \in {b \in Replies : Parses(b.body)}}
Contents(p, m) == {<< >>} \cup (UNION {ServedBy(s, p, m) : s \in Sources}) \cup Inferable
Known(doc) ==
    \A p \in DOMAIN doc.paths : \A m \in DOMAIN doc.paths[p] :
        p \in Templates /\ ServedBy(doc, p, m) \subseteq Contents(p, m)

(* The inductive invariant.  What the learner holds of a session that      *)
(* judges by doc: endpoints of its requests, each with the statuses seen   *)
(* under it, which doc does not document for that operation, and with a    *)
(* body that parses for some of them; and an exchange that doc does not    *)
(* document has its status with its endpoint, unless the endpoint was      *)
(* refused for lack of room.                                               *)
Endpoint(doc, r) == <<r.method, LearnedPath(Compile(doc.paths), r)>>
Unknown(doc, r, a) ==
    KindsOf(Findings(doc, Compile(doc.paths), r, a))
        \cap {"undocumented-endpoint", "undocumented-status"} # {}
Entered(doc, e, entry) ==
    /\ entry = [statuses |-> entry.statuses, bodies |-> entry.bodies]
    /\ DOMAIN entry.statuses \subseteq Nat /\ DOMAIN entry.statuses # {}
    /\ IsFiniteSet(DOMAIN entry.statuses)
    /\ DOMAIN entry.bodies \subseteq DOMAIN entry.statuses
    /\ \A c \in DOMAIN entry.bodies : \E a \in Replies : a.body = entry.bodies[c] /\ Parses(a.body)
    /\ HasOp(doc, e[2], e[1]) =>
         DOMAIN entry.statuses \cap DOMAIN doc.paths[e[2]][e[1]].responses = {}
NotLost(doc, held, x) ==
    IF Endpoint(doc, x[1]) \in DOMAIN held
    THEN x[2].status \in DOMAIN held[Endpoint(doc, x[1])].statuses
    ELSE ~ HasRoom(held)
Learned(doc, held, exchanges) ==
    /\ IsFiniteSet(DOMAIN held) /\ DOMAIN held \subseteq ToSet(MethodOrder) \X Seq(Segment)
    /\ \A e \in DOMAIN held : e[2] \in Templates
    /\ \A e \in DOMAIN held : Entered(doc, e, held[e])
    /\ exchanges \subseteq Requests \X Replies
    /\ \A x \in exchanges : Unknown(doc, x[1], x[2]) => NotLost(doc, held, x)

SessionInv ==
    \/ session = << >> /\ seen = << >> /\ log = {}
    \/ \E s \in Sources :
         /\ session = <<[doc |-> Generate(s), routes |-> Compile(Generate(s).paths)]>>
         /\ Learned(Generate(s), seen, log)
Written(f) == {LearnedDocument(f.seen), MergeObserved(f.from, LearnedDocument(f.seen))}
FileInv ==
    \/ file = << >>
    \/ /\ file = <<file[1]>>
       /\ \E s \in Sources : file[1].from = Generate(s)
       /\ Learned(file[1].from, file[1].seen, file[1].log)
       /\ file[1].doc \in Written(file[1])
OutInv == \/ out = << >>
          \/ /\ out = <<out[1]>>
             /\ \E s \in Sources : out[1].of = Generate(s)
             /\ IsDocument(out[1].doc) /\ Known(out[1].doc)
             /\ SourceIsKept
DocumentsInv == source \in Sources /\ SessionInv /\ FileInv /\ OutInv
----------------------------------------------------------------------------
(* The fragment a session writes, operation by operation.                  *)
LEMMA LearnedEntries ==
    ASSUME NEW doc, NEW held, NEW exchanges, Learned(doc, held, exchanges)
    PROVE  LET d == LearnedDocument(held) IN
           /\ IsDocument(d)
           /\ \A p, m : /\ HasOp(d, p, m) <=> <<m, p>> \in DOMAIN held
                        /\ HasOp(d, p, m) =>
                             d.paths[p][m] = LearnedOperation(p, held[<<m, p>>])
<1> DEFINE d == LearnedDocument(held)
           table == [p \in {e[2] : e \in DOMAIN held} |->
                       [m \in {e[1] : e \in {x \in DOMAIN held : x[2] = p}} |->
                          LearnedOperation(p, held[<<m, p>>])]]
<1>1. /\ d = [paths |-> d.paths, components |-> d.components, schemes |-> d.schemes,
             security |-> d.security]
      /\ d.paths = table
  BY DEF LearnedDocument, NewDocument
<1>2. IsFiniteSet(DOMAIN held) /\ DOMAIN held \subseteq ToSet(MethodOrder) \X Seq(Segment)
  BY DEF Learned
<1>3. \A e \in DOMAIN held : e = <<e[1], e[2]>> /\ e[2] \in Seq(Segment)
  BY <1>2
<1>4. ASSUME NEW p, NEW m
      PROVE  /\ HasOp(d, p, m) <=> <<m, p>> \in DOMAIN held
             /\ HasOp(d, p, m) => d.paths[p][m] = LearnedOperation(p, held[<<m, p>>])
  <2>1. ASSUME <<m, p>> \in DOMAIN held
        PROVE  p \in DOMAIN table /\ m \in DOMAIN table[p]
    <3>1. <<m, p>>[1] = m /\ <<m, p>>[2] = p
      OBVIOUS
    <3> QED
      BY <2>1, <3>1
  <2>2. ASSUME p \in DOMAIN table, m \in DOMAIN table[p]
        PROVE  /\ <<m, p>> \in DOMAIN held
               /\ table[p][m] = LearnedOperation(p, held[<<m, p>>])
    <3>1. PICK e \in DOMAIN held : e[2] = p /\ e[1] = m
      BY <2>2
    <3> QED
      BY <1>3, <2>2, <3>1
  <2> HIDE DEF table, d
  <2>3. HasOp(d, p, m) <=> p \in DOMAIN table /\ m \in DOMAIN table[p]
    BY <1>1, DOMAIN << >> = {} DEF HasOp, MethodsOf
  <2> QED
    BY <1>1, <2>1, <2>2, <2>3
<1>5. Table(d.paths)
  <2>1. DOMAIN d.paths = {e[2] : e \in DOMAIN held}
    BY <1>1
  <2>2. [e \in DOMAIN held |-> e[2]] \in Surjection(DOMAIN held, DOMAIN d.paths)
    BY <2>1 DEF Surjection
  <2>3. IsFiniteSet(DOMAIN d.paths)
    BY <1>2, <2>2, FS_Surjection
  <2> QED
    BY <1>3, <2>1, <2>3 DEF Table
<1>6. ASSUME NEW e \in DOMAIN held, NEW p
      PROVE  IsOperation(LearnedOperation(p, held[e]))
  <2>1. /\ DOMAIN held[e].statuses \subseteq Nat /\ DOMAIN held[e].statuses # {}
        /\ IsFiniteSet(DOMAIN held[e].statuses)
    BY DEF Learned, Entered
  <2>2. DOMAIN LearnedOperation(p, held[e]).responses = DOMAIN held[e].statuses
    BY DEF LearnedOperation
  <2>3. LET op == LearnedOperation(p, held[e]) IN
        op = [params |-> op.params, responses |-> op.responses, security |-> op.security,
              observed |-> op.observed, manual |-> op.manual]
    BY DEF LearnedOperation
  <2> QED
    BY <2>1, <2>2, <2>3 DEF IsOperation
<1> HIDE DEF d, table
<1>7. ASSUME NEW p \in DOMAIN d.paths, NEW m \in DOMAIN d.paths[p]
      PROVE  IsOperation(d.paths[p][m])
  <2>1. HasOp(d, p, m)
    BY DEF HasOp, MethodsOf
  <2>2. <<m, p>> \in DOMAIN held /\ d.paths[p][m] = LearnedOperation(p, held[<<m, p>>])
    BY <1>4, <2>1
  <2>3. \A e \in DOMAIN held : IsOperation(LearnedOperation(p, held[e]))
    BY <1>6
  <2>4. IsOperation(LearnedOperation(p, held[<<m, p>>]))
    BY <2>2, <2>3
  <2> QED
    BY <2>2, <2>4
<1> QED
  BY <1>1, <1>4, <1>5, <1>7 DEF IsDocument, d

(* What a session writes is a document, whichever way it writes it.        *)
LEMMA WrittenDocument ==
    ASSUME NEW f, IsDocument(f.from), Learned(f.from, f.seen, f.log), f.doc \in Written(f)
    PROVE  IsDocument(f.doc)
<1>1. IsDocument(LearnedDocument(f.seen))
  BY LearnedEntries
<1>2. IsDocument(MergeObserved(f.from, LearnedDocument(f.seen)))
  BY <1>1, MergedDocument DEF MergeObserved
<1> QED
  BY <1>1, <1>2 DEF Written
(* Contents come from nowhere else.                                        *)
LEMMA MergedIsKnown ==
    ASSUME NEW base, IsDocument(base), Known(base), NEW extra, IsDocument(extra), Known(extra),
           NEW mark \in {"observed", "manual"}
    PROVE  Known(MergeInto(base, extra, mark))
<1> DEFINE d == MergeInto(base, extra, mark)
<1> SUFFICES ASSUME NEW p \in DOMAIN d.paths, NEW m \in DOMAIN d.paths[p]
             PROVE  p \in Templates /\ ServedBy(d, p, m) \subseteq Contents(p, m)
  BY DEF Known
<1>1. HasOp(d, p, m)
  BY DEF HasOp, MethodsOf
<1>2. /\ HasOp(base, p, m) => p \in Templates /\ ServedBy(base, p, m) \subseteq Contents(p, m)
      /\ HasOp(extra, p, m) => p \in Templates /\ ServedBy(extra, p, m) \subseteq Contents(p, m)
  BY DOMAIN << >> = {} DEF Known, HasOp, MethodsOf
<1>3. HasOp(base, p, m) \/ HasOp(extra, p, m)
  BY <1>1, MergedOperations
<1>4. ASSUME NEW c \in DOMAIN d.paths[p][m].responses
      PROVE  d.paths[p][m].responses[c].content \in Contents(p, m)
  <2>1. \/ /\ HasOp(base, p, m) /\ c \in DOMAIN base.paths[p][m].responses
           /\ d.paths[p][m].responses[c] = base.paths[p][m].responses[c]
        \/ /\ HasOp(extra, p, m) /\ c \in DOMAIN extra.paths[p][m].responses
           /\ d.paths[p][m].responses[c] = extra.paths[p][m].responses[c]
    BY <1>1, NothingElseIsAdded
  <2> HIDE DEF d
  <2> QED
    BY <1>2, <2>1 DEF ServedBy
<1> HIDE DEF d
<1> QED
  BY <1>1, <1>2, <1>3, <1>4 DEF ServedBy

LEMMA NothingManualIsServed ==
    ASSUME NEW p, NEW m
    PROVE  ServedBy(ManualDocument(Manual), p, m) \subseteq {<< >>}
<1> DEFINE last(q, n) == CHOOSE i \in DOMAIN Manual :
              /\ Manual[i].path = q /\ Manual[i].method = n
              /\ \A j \in DOMAIN Manual :
                   Manual[j].path = q /\ Manual[j].method = n => j <= i
           codes(r) == IF r.codes = {} THEN {200} ELSE r.codes
           op(r) == [params |-> << >>, responses |-> [c \in codes(r) |-> [content |-> << >>]],
                     security |-> {}, observed |-> FALSE, manual |-> FALSE]
           table == [q \in {r.path : r \in ToSet(Manual)} |->
                      [n \in {r.method : r \in {x \in ToSet(Manual) : x.path = q}} |->
                         op(Manual[last(q, n)])]]
           d == ManualDocument(Manual)
<1>1. d.paths = table
  BY DEF ManualDocument, NewDocument
<1>2. \A r : op(r).responses = [c \in codes(r) |-> [content |-> << >>]]
  OBVIOUS
<1>3. \A r : \A c \in DOMAIN op(r).responses : op(r).responses[c].content = << >>
  BY <1>2
<1>4. HasOp(d, p, m) => \E r : d.paths[p][m] = op(r)
  <2> SUFFICES ASSUME HasOp(d, p, m) PROVE \E r : d.paths[p][m] = op(r)
    OBVIOUS
  <2>1. p \in DOMAIN table /\ m \in DOMAIN table[p] /\ d.paths[p][m] = table[p][m]
    BY <1>1, DOMAIN << >> = {} DEF HasOp, MethodsOf
  <2> HIDE DEF op, last
  <2>2. table[p][m] = op(Manual[last(p, m)])
    BY <2>1
  <2> QED
    BY <2>1, <2>2
<1> HIDE DEF d, op
<1>5. ASSUME NEW content \in ServedBy(d, p, m)
      PROVE  content = << >>
  <2>1. HasOp(d, p, m) /\ \E c \in DOMAIN d.paths[p][m].responses :
          content = d.paths[p][m].responses[c].content
    BY DEF ServedBy
  <2> QED
    BY <1>3, <1>4, <2>1
<1> QED
  BY <1>5 DEF d

LEMMA GeneratedIsKnown ==
    ASSUME NEW s \in Sources
    PROVE  Known(Generate(s))
<1>1. IsDocument(s) /\ \A p, m : ServedBy(s, p, m) \subseteq Contents(p, m)
  BY SourcesAssumption DEF SourcesAssumption, Contents
<1>2. \A p \in DOMAIN Generate(s).paths : p \in Templates
  BY DEF Templates
<1>3. CASE Manual = << >>
  <2>1. Generate(s) = s
    BY <1>3 DEF Generate, ApplyManualRoutes
  <2> QED
    BY <1>1, <1>2, <2>1 DEF Known
<1>4. CASE Manual # << >>
  <2> DEFINE by == ManualDocument(Manual)
             d == MergeInto(s, by, "manual")
  <2>1. Generate(s) = d
    BY <1>4 DEF Generate, ApplyManualRoutes, MergeManual
  <2>2. IsDocument(by) /\ \A p, m : ServedBy(by, p, m) \subseteq Contents(p, m)
    BY ManualIsDocument, NothingManualIsServed DEF Contents
  <2> HIDE DEF by
  <2>3. ASSUME NEW p \in DOMAIN d.paths, NEW m \in DOMAIN d.paths[p],
               NEW c \in DOMAIN d.paths[p][m].responses
        PROVE  d.paths[p][m].responses[c].content \in Contents(p, m)
    <3>1. HasOp(d, p, m)
      BY DEF HasOp, MethodsOf
    <3>2. \/ /\ HasOp(s, p, m) /\ c \in DOMAIN s.paths[p][m].responses
             /\ d.paths[p][m].responses[c] = s.paths[p][m].responses[c]
          \/ /\ HasOp(by, p, m) /\ c \in DOMAIN by.paths[p][m].responses
             /\ d.paths[p][m].responses[c] = by.paths[p][m].responses[c]
      BY <1>1, <2>2, <3>1, NothingElseIsAdded
    <3> HIDE DEF d
    <3> QED
      BY <1>1, <2>2, <3>2 DEF ServedBy
  <2> HIDE DEF d
  <2>4. \A p \in DOMAIN d.paths : \A m \in DOMAIN d.paths[p] :
          ServedBy(d, p, m) \subseteq Contents(p, m)
    <3> SUFFICES ASSUME NEW p \in DOMAIN d.paths, NEW m \in DOMAIN d.paths[p],
                        NEW content \in ServedBy(d, p, m)
                 PROVE  content \in Contents(p, m)
      OBVIOUS
    <3>1. HasOp(d, p, m)
      BY DEF HasOp, MethodsOf
    <3>2. \E c \in DOMAIN d.paths[p][m].responses : content = d.paths[p][m].responses[c].content
      BY <3>1 DEF ServedBy
    <3> QED
      BY <2>3, <3>2
  <2> QED
    BY <1>2, <2>1, <2>4 DEF Known
<1> QED
  BY <1>3, <1>4

LEMMA LearnedIsKnown ==
    ASSUME NEW doc, NEW held, NEW exchanges, Learned(doc, held, exchanges)
    PROVE  Known(LearnedDocument(held))
<1> DEFINE d == LearnedDocument(held)
<1> SUFFICES ASSUME NEW p \in DOMAIN d.paths, NEW m \in DOMAIN d.paths[p]
             PROVE  p \in Templates /\ ServedBy(d, p, m) \subseteq Contents(p, m)
  BY DEF Known
<1> DEFINE entry == held[<<m, p>>]
<1>1. HasOp(d, p, m)
  BY DEF HasOp, MethodsOf
<1>2. <<m, p>> \in DOMAIN held /\ d.paths[p][m] = LearnedOperation(p, entry)
  BY <1>1, LearnedEntries
<1>3. p \in Templates /\ Entered(doc, <<m, p>>, entry)
  <2>1. <<m, p>>[2] = p
    OBVIOUS
  <2> QED
    BY <1>2, <2>1 DEF Learned
<1> HIDE DEF d, entry
<1>4. ASSUME NEW c \in DOMAIN d.paths[p][m].responses
      PROVE  d.paths[p][m].responses[c].content \in Contents(p, m)
  <2>1. d.paths[p][m].responses[c].content =
          IF c \in DOMAIN entry.bodies THEN Opt(Inferred(entry.bodies[c])) ELSE << >>
    BY <1>2 DEF LearnedOperation
  <2>2. CASE c \in DOMAIN entry.bodies
    <3>1. PICK a \in Replies : a.body = entry.bodies[c] /\ Parses(a.body)
      BY <1>3, <2>2 DEF Entered
    <3>2. Opt(Inferred(a.body)) \in Inferable
      BY <3>1 DEF Inferable
    <3>3. Opt(Inferred(a.body)) \in Contents(p, m)
      BY <3>2 DEF Contents
    <3> QED
      BY <2>1, <2>2, <3>1, <3>3
  <2>3. CASE c \notin DOMAIN entry.bodies
    BY <2>1, <2>3 DEF Contents
  <2> QED
    BY <2>2, <2>3
<1> QED
  BY <1>3, <1>4 DEF ServedBy, Contents

LEMMA WrittenIsKnown ==
    ASSUME NEW s \in Sources, NEW f, f.from = Generate(s),
           Learned(f.from, f.seen, f.log), f.doc \in Written(f)
    PROVE  Known(f.doc)
<1>1. IsDocument(LearnedDocument(f.seen)) /\ Known(LearnedDocument(f.seen))
  BY LearnedEntries, LearnedIsKnown
<1>2. IsDocument(f.from) /\ Known(f.from)
  BY GeneratedDocument, GeneratedIsKnown
<1>3. Known(MergeObserved(f.from, LearnedDocument(f.seen)))
  BY <1>1, <1>2, MergedIsKnown DEF MergeObserved
<1> QED
  BY <1>1, <1>3 DEF Written
----------------------------------------------------------------------------
(* When an exchange is not in the document (proxy.go, Findings).           *)
LEMMA KindsNoted ==
    /\ \A k, problems : \A f \in Noted(k, problems) : f.kind = k
    /\ \A k : KindsOf(Noted(k, {<< >>})) = {k}
<1>1. ASSUME NEW k, NEW problems, NEW f \in Noted(k, problems)
      PROVE  f.kind = k
  BY DEF Noted
<1>2. ASSUME NEW k
      PROVE  KindsOf(Noted(k, {<< >>})) = {k}
  <2>1. Noted(k, {<< >>}) = {[kind |-> k, problem |-> << >>]}
    BY DEF Noted
  <2>2. [kind |-> k, problem |-> << >>].kind = k
    OBVIOUS
  <2> QED
    BY <2>1, <2>2 DEF KindsOf
<1> QED
  BY <1>1, <1>2

LEMMA UnknownKinds ==
    ASSUME NEW doc, NEW routes, NEW r, NEW a
    PROVE  LET rt == Match(routes, r.method, r.path)
               op == doc.paths[rt[1].path][rt[1].method]
               kinds == KindsOf(Findings(doc, routes, r, a)) IN
           /\ "undocumented-endpoint" \in kinds <=> rt = << >>
           /\ "undocumented-status" \in kinds <=>
                rt # << >> /\ a.status \notin DOMAIN op.responses
<1> DEFINE rt == Match(routes, r.method, r.path)
           op == doc.paths[rt[1].path][rt[1].method]
           content == op.responses[a.status].content
           all == Findings(doc, routes, r, a)
<1>1. all =
        IF rt = << >> THEN Noted("undocumented-endpoint", {<< >>})
        ELSE IF a.status \notin DOMAIN op.responses THEN Noted("undocumented-status", {<< >>})
        ELSE IF content = << >> THEN {}
        ELSE IF ~ a.json THEN Noted("content-type", {<< >>})
        ELSE IF ~ Parses(a.body) THEN Noted("shape", {<< >>})
        ELSE Noted("shape", Problems(doc.components, content[1], a.body)) \cup
             Noted("undocumented-field", Unmentioned(doc.components, content[1], a.body))
  BY DEF Findings
<1> HIDE DEF all, rt, op, content
<1>2. CASE rt = << >>
  <2>1. all = Noted("undocumented-endpoint", {<< >>})
    BY <1>1, <1>2
  <2>2. KindsOf(all) = {"undocumented-endpoint"}
    BY <2>1, KindsNoted
  <2> QED
    BY <1>2, <2>2 DEF all, rt
<1>3. CASE rt # << >> /\ a.status \notin DOMAIN op.responses
  <2>1. all = Noted("undocumented-status", {<< >>})
    BY <1>1, <1>3
  <2>2. KindsOf(all) = {"undocumented-status"}
    BY <2>1, KindsNoted
  <2> QED
    BY <1>3, <2>2 DEF all, rt, op
<1>4. CASE rt # << >> /\ a.status \in DOMAIN op.responses
  <2>1. \/ all = {}
        \/ all = Noted("content-type", {<< >>})
        \/ all = Noted("shape", {<< >>})
        \/ all = Noted("shape", Problems(doc.components, content[1], a.body)) \cup
                 Noted("undocumented-field", Unmentioned(doc.components, content[1], a.body))
    BY <1>1, <1>4
  <2>2. \A f \in all : f.kind \in {"content-type", "shape", "undocumented-field"}
    BY <2>1, KindsNoted
  <2>3. \A k \in KindsOf(all) : k \in {"content-type", "shape", "undocumented-field"}
    BY <2>2 DEF KindsOf
  <2>4. "undocumented-endpoint" \notin KindsOf(all) /\ "undocumented-status" \notin KindsOf(all)
    BY <2>3
  <2> QED
    BY <1>4, <2>4 DEF all, rt, op
<1> QED
  BY <1>2, <1>3, <1>4

(* Where the learner files an exchange: a template of the document, or a   *)
(* path of its own that no operation of the document has; either fits.     *)
LEMMA WhereItIsFiled ==
    ASSUME NEW doc, IsDocument(doc), NEW r \in Requests, NEW a \in Replies
    PROVE  LET path == LearnedPath(Compile(doc.paths), r) IN
           /\ path \in Seq(Segment) /\ r.method \in ToSet(MethodOrder)
           /\ Fits([path |-> path, method |-> r.method], r.method, r.path)
           /\ Unknown(doc, r, a) <=>
                ~ (HasOp(doc, path, r.method) /\ a.status \in DOMAIN doc.paths[path][r.method].responses)
<1> DEFINE rt == Match(Compile(doc.paths), r.method, r.path)
           path == LearnedPath(Compile(doc.paths), r)
<1>1. path = IF rt = << >> THEN NormalisePath(r.path) ELSE rt[1].path
  BY DEF LearnedPath
<1>2. /\ rt # << >> => /\ rt[1].path \in DOMAIN doc.paths /\ rt[1].method = r.method
                       /\ HasOp(doc, rt[1].path, r.method)
                       /\ Fits(rt[1], r.method, r.path)
      /\ \A p : HasOp(doc, p, r.method)
                /\ Fits([path |-> p, method |-> r.method], r.method, r.path) => rt # << >>
  BY MatchedOperation
<1>3. r.method \in ToSet(MethodOrder) /\ DOMAIN doc.paths \subseteq Seq(Segment)
  BY TrafficAssumption DEF TrafficAssumption, IsDocument, Table
<1>4. Unknown(doc, r, a) <=>
        rt = << >> \/ a.status \notin DOMAIN doc.paths[rt[1].path][rt[1].method].responses
  <2> DEFINE kinds == KindsOf(Findings(doc, Compile(doc.paths), r, a))
  <2>1. /\ "undocumented-endpoint" \in kinds <=> rt = << >>
        /\ "undocumented-status" \in kinds <=>
             rt # << >> /\ a.status \notin DOMAIN doc.paths[rt[1].path][rt[1].method].responses
    BY UnknownKinds
  <2>2. Unknown(doc, r, a) <=> "undocumented-endpoint" \in kinds \/ "undocumented-status" \in kinds
    BY DEF Unknown
  <2> QED
    BY <2>1, <2>2
<1> HIDE DEF rt, path
<1>5. CASE rt = << >>
  <2>1. path \in Seq(Segment) /\ Fits([path |-> path, method |-> r.method], r.method, r.path)
    BY <1>1, <1>5, NormalisedPathFits
  <2>2. ~ HasOp(doc, path, r.method)
    BY <1>2, <1>5, <2>1
  <2> QED
    BY <1>3, <1>4, <1>5, <2>1, <2>2 DEF path
<1>6. CASE rt # << >>
  <2>1. path = rt[1].path /\ rt[1].method = r.method
    BY <1>1, <1>2, <1>6
  <2>2. Fits([path |-> path, method |-> r.method], r.method, r.path)
    BY <1>2, <1>6, <2>1 DEF Fits
  <2>3. path \in Seq(Segment) /\ HasOp(doc, path, r.method)
    BY <1>2, <1>3, <1>6, <2>1
  <2> QED
    BY <1>3, <1>4, <1>6, <2>1, <2>2, <2>3 DEF path
<1> QED
  BY <1>5, <1>6

(* One more entry, or one more exchange of an entry (learn.go, Observe).   *)
LEMMA ObserveEnters ==
    ASSUME NEW doc, NEW held, NEW e, NEW a \in Replies,
           e \in DOMAIN held => Entered(doc, e, held[e]),
           HasOp(doc, e[2], e[1]) => a.status \notin DOMAIN doc.paths[e[2]][e[1]].responses
    PROVE  LET entry == [statuses |-> Bumped(Entry(held, e).statuses, a.status),
                         bodies   |-> Sampled(Entry(held, e).bodies, a.status, a.body)] IN
           Entered(doc, e, entry) /\ a.status \in DOMAIN entry.statuses
<1> DEFINE old == Entry(held, e)
           statuses == Bumped(old.statuses, a.status)
           bodies == Sampled(old.bodies, a.status, a.body)
           entry == [statuses |-> statuses, bodies |-> bodies]
<1>1. /\ DOMAIN old.statuses \subseteq Nat /\ IsFiniteSet(DOMAIN old.statuses)
      /\ DOMAIN old.bodies \subseteq DOMAIN old.statuses
      /\ \A c \in DOMAIN old.bodies : \E b \in Replies : b.body = old.bodies[c] /\ Parses(b.body)
      /\ HasOp(doc, e[2], e[1]) =>
           DOMAIN old.statuses \cap DOMAIN doc.paths[e[2]][e[1]].responses = {}
  <2>1. CASE e \in DOMAIN held
    BY <2>1 DEF Entry, Entered
  <2>2. CASE e \notin DOMAIN held
    <3>1. old.statuses = << >> /\ old.bodies = << >>
      BY <2>2 DEF Entry, Unseen
    <3>2. DOMAIN old.statuses = {} /\ DOMAIN old.bodies = {}
      BY <3>1
    <3> QED
      BY <3>2, FS_EmptySet
  <2> QED
    BY <2>1, <2>2
<1> HIDE DEF old
<1>2. DOMAIN statuses = DOMAIN old.statuses \cup {a.status}
  BY DEF Bumped
<1>3. /\ DOMAIN bodies = DOMAIN old.bodies \cup (IF Parses(a.body) THEN {a.status} ELSE {})
      /\ \A c \in DOMAIN bodies :
           bodies[c] = IF c \in DOMAIN old.bodies THEN old.bodies[c] ELSE a.body
  BY DEF Sampled
<1> HIDE DEF statuses, bodies
<1>4. a.status \in Nat
  BY TrafficAssumption DEF TrafficAssumption
<1>5. /\ DOMAIN statuses \subseteq Nat /\ DOMAIN statuses # {}
      /\ IsFiniteSet(DOMAIN statuses)
  <2>1. IsFiniteSet(DOMAIN old.statuses \cup {a.status})
    BY <1>1, FS_AddElement
  <2> QED
    BY <1>1, <1>2, <1>4, <2>1
<1>6. \A c \in DOMAIN bodies : \E b \in Replies : b.body = bodies[c] /\ Parses(b.body)
  BY <1>1, <1>3
<1>7. DOMAIN bodies \subseteq DOMAIN statuses
  BY <1>1, <1>2, <1>3
<1>8. HasOp(doc, e[2], e[1]) => DOMAIN statuses \cap DOMAIN doc.paths[e[2]][e[1]].responses = {}
  BY <1>1, <1>2
<1>9. entry.statuses = statuses /\ entry.bodies = bodies
      /\ entry = [statuses |-> entry.statuses, bodies |-> entry.bodies]
  OBVIOUS
<1> HIDE DEF entry
<1>10. Entered(doc, e, entry) /\ a.status \in DOMAIN entry.statuses
  BY <1>2, <1>5, <1>6, <1>7, <1>8, <1>9 DEF Entered
<1> QED
  BY <1>10 DEF entry, statuses, bodies, old

(* One exchange of a session.                                              *)
Noticed(doc, held, r, a) ==
    IF ~ Unknown(doc, r, a) THEN held ELSE Observe(held, Endpoint(doc, r), a.status, a.body)
LEMMA ExchangeIsLearned ==
    ASSUME NEW doc \in {Generate(s) : s \in Sources}, IsDocument(doc), NEW held, NEW exchanges, Learned(doc, held, exchanges),
           NEW r \in Requests, NEW a \in Replies
    PROVE  Learned(doc, Noticed(doc, held, r, a), exchanges \cup {<<r, a>>})
<1> DEFINE e == Endpoint(doc, r)
           path == LearnedPath(Compile(doc.paths), r)
           now == Noticed(doc, held, r, a)
<1>1. /\ IsFiniteSet(DOMAIN held) /\ DOMAIN held \subseteq ToSet(MethodOrder) \X Seq(Segment)
      /\ \A x \in DOMAIN held : x[2] \in Templates /\ Entered(doc, x, held[x])
      /\ exchanges \subseteq Requests \X Replies
      /\ \A x \in exchanges : Unknown(doc, x[1], x[2]) => NotLost(doc, held, x)
  BY DEF Learned
<1>2. /\ e = <<r.method, path>> /\ e \in ToSet(MethodOrder) \X Seq(Segment)
      /\ e[1] = r.method /\ e[2] = path
      /\ Unknown(doc, r, a) <=>
           ~ (HasOp(doc, path, r.method) /\ a.status \in DOMAIN doc.paths[path][r.method].responses)
  BY WhereItIsFiled DEF Endpoint
<1>a. path \in Templates
  <2> DEFINE rt == Match(Compile(doc.paths), r.method, r.path)
  <2>1. path = IF rt = << >> THEN NormalisePath(r.path) ELSE rt[1].path
    BY DEF LearnedPath
  <2>2. rt # << >> => rt[1].path \in DOMAIN doc.paths
    BY MatchedOperation
  <2> HIDE DEF rt
  <2>3. DOMAIN doc.paths \subseteq Templates /\ NormalisePath(r.path) \in Templates
    <3>1. PICK s \in Sources : doc = Generate(s)
      OBVIOUS
    <3>2. DOMAIN Generate(s).paths \subseteq Templates
      BY DEF Templates
    <3>3. NormalisePath(r.path) \in Normalised
      BY DEF Normalised
    <3> QED
      BY <3>1, <3>2, <3>3 DEF Templates
  <2> QED
    BY <2>1, <2>2, <2>3
<1>3. /\ exchanges \cup {<<r, a>>} \subseteq Requests \X Replies
      /\ <<r, a>>[1] = r /\ <<r, a>>[2] = a
  BY <1>1
<1> HIDE DEF e, path, now
<1>4. CASE ~ Unknown(doc, r, a)
  <2>1. now = held
    BY <1>4 DEF now, Noticed
  <2>2. \A x \in exchanges \cup {<<r, a>>} : Unknown(doc, x[1], x[2]) => NotLost(doc, held, x)
    BY <1>1, <1>3, <1>4
  <2>3. Learned(doc, held, exchanges \cup {<<r, a>>})
    BY <1>1, <1>3, <2>2 DEF Learned
  <2> QED
    BY <2>1, <2>3 DEF now
<1>5. CASE Unknown(doc, r, a) /\ e \notin DOMAIN held /\ ~ HasRoom(held)
  <2>1. now = held
    BY <1>5 DEF now, Noticed, Observe, e
  <2>2. \A x \in exchanges \cup {<<r, a>>} : Unknown(doc, x[1], x[2]) => NotLost(doc, held, x)
    BY <1>1, <1>3, <1>5 DEF e, NotLost
  <2>3. Learned(doc, held, exchanges \cup {<<r, a>>})
    BY <1>1, <1>3, <2>2 DEF Learned
  <2> QED
    BY <2>1, <2>3 DEF now
<1>6. CASE Unknown(doc, r, a) /\ ~ (e \notin DOMAIN held /\ ~ HasRoom(held))
  <2> DEFINE entry == [statuses |-> Bumped(Entry(held, e).statuses, a.status),
                       bodies   |-> Sampled(Entry(held, e).bodies, a.status, a.body)]
  <2>1. now = [x \in DOMAIN held \cup {e} |-> IF x # e THEN held[x] ELSE entry]
    BY <1>6 DEF now, Noticed, Observe, e
  <2>2. HasOp(doc, e[2], e[1]) => a.status \notin DOMAIN doc.paths[e[2]][e[1]].responses
    BY <1>2, <1>6
  <2>3. Entered(doc, e, entry) /\ a.status \in DOMAIN entry.statuses
    BY <1>1, <2>2, ObserveEnters
  <2>4. e \in DOMAIN held => DOMAIN held[e].statuses \subseteq DOMAIN entry.statuses
    BY DEF Entry, Bumped
  <2> HIDE DEF entry
  <2>5. /\ DOMAIN now = DOMAIN held \cup {e} /\ now[e] = entry
        /\ \A x \in DOMAIN held : x # e => now[x] = held[x]
    BY <2>1
  <2>6. IsFiniteSet(DOMAIN now) /\ DOMAIN now \subseteq ToSet(MethodOrder) \X Seq(Segment)
    BY <1>1, <1>2, <2>5, FS_AddElement
  <2>7. \A x \in DOMAIN now : x[2] \in Templates /\ Entered(doc, x, now[x])
    BY <1>1, <1>2, <1>a, <2>3, <2>5
  <2>8. ASSUME NEW x \in exchanges \cup {<<r, a>>}, Unknown(doc, x[1], x[2])
        PROVE  NotLost(doc, now, x)
    <3>1. CASE x \in exchanges /\ e \in DOMAIN held
      <4>1. NotLost(doc, held, x) /\ DOMAIN now = DOMAIN held
        BY <1>1, <2>5, <2>8, <3>1
      <4>2. HasRoom(now) <=> HasRoom(held)
        BY <4>1 DEF HasRoom
      <4> QED
        BY <2>4, <2>5, <3>1, <4>1, <4>2 DEF NotLost
    <3>2. CASE x \in exchanges /\ e \notin DOMAIN held
      <4>1. NotLost(doc, held, x) /\ HasRoom(held)
        BY <1>1, <1>6, <2>8, <3>2
      <4> QED
        BY <2>5, <3>2, <4>1 DEF NotLost
    <3>3. CASE x = <<r, a>>
      BY <1>3, <2>3, <2>5, <3>3 DEF e, NotLost
    <3> QED
      BY <3>1, <3>2, <3>3
  <2> QED
    BY <1>3, <2>6, <2>7, <2>8 DEF Learned, now
<1> QED
  BY <1>4, <1>5, <1>6
----------------------------------------------------------------------------
(* What -merge-learned writes keeps the source.                            *)
LEMMA MergeKeepsSource ==
    ASSUME NEW s \in Sources, NEW fragment, IsDocument(fragment),
           NEW o, o.of = Generate(s), o.doc = MergeObserved(Generate(s), fragment)
    PROVE  /\ IsDocument(o.doc) /\ o.doc.components = o.of.components
           /\ \A p \in DOMAIN o.doc.paths : \A m \in DOMAIN o.doc.paths[p] :
                o.doc.paths[p][m].observed <=> ~ HasOp(o.of, p, m)
           /\ \A p \in DOMAIN o.of.paths : \A m \in DOMAIN o.of.paths[p] :
                HasOp(o.doc, p, m) /\ Extends(o.doc.paths[p][m], o.of.paths[p][m])
<1> DEFINE base == o.of
           d == o.doc
<1>1. IsDocument(base) /\ Unmarked(base) /\ d = MergeInto(base, fragment, "observed")
  BY GeneratedDocument DEF MergeObserved
<1>2. IsDocument(d) /\ d.components = base.components
  BY <1>1, MergedDocument
<1> HIDE DEF base, d
<1>3. ASSUME NEW p \in DOMAIN base.paths, NEW m \in DOMAIN base.paths[p]
      PROVE  /\ HasOp(base, p, m) /\ HasOp(d, p, m)
             /\ Extends(d.paths[p][m], base.paths[p][m])
             /\ ~ d.paths[p][m].observed
  <2>1. HasOp(base, p, m) /\ ~ base.paths[p][m].observed
    BY <1>1 DEF HasOp, MethodsOf, Unmarked
  <2>2. HasOp(d, p, m)
    BY <1>1, <2>1, MergedOperations
  <2>3. /\ Extends(d.paths[p][m], base.paths[p][m])
        /\ d.paths[p][m].observed = base.paths[p][m].observed
    BY <1>1, <2>1, BaseIsKept
  <2> QED
    BY <2>1, <2>2, <2>3
<1>4. ASSUME NEW p \in DOMAIN d.paths, NEW m \in DOMAIN d.paths[p]
      PROVE  d.paths[p][m].observed <=> ~ HasOp(base, p, m)
  <2>1. HasOp(d, p, m)
    BY DEF HasOp, MethodsOf
  <2>2. CASE HasOp(base, p, m)
    <3>1. p \in DOMAIN base.paths /\ m \in DOMAIN base.paths[p]
      BY <2>2, DOMAIN << >> = {} DEF HasOp, MethodsOf
    <3> QED
      BY <1>3, <2>2, <3>1
  <2>3. CASE ~ HasOp(base, p, m)
    <3>1. HasOp(fragment, p, m)
      BY <1>1, <2>1, <2>3, MergedOperations
    <3>2. d.paths[p][m] = Marked(fragment.paths[p][m], "observed")
      BY <1>1, <2>3, <3>1, MergedOperations
    <3>3. IsOperation(fragment.paths[p][m])
      BY <3>1, DOMAIN << >> = {} DEF HasOp, MethodsOf, IsDocument
    <3> QED
      BY <2>3, <3>2, <3>3 DEF Marked, IsOperation
  <2> QED
    BY <2>2, <2>3
<1> QED
  BY <1>2, <1>3, <1>4 DEF base, d

LEMMA InitInv == Init => DocumentsInv
<1> SUFFICES ASSUME Init PROVE DocumentsInv
  OBVIOUS
<1> QED
  BY DEF Init, DocumentsInv, SessionInv, FileInv, OutInv

(* A session is started on what Generate makes of the source.              *)
LEMMA StartInv == DocumentsInv /\ Start => DocumentsInv'
<1> SUFFICES ASSUME DocumentsInv, Start PROVE DocumentsInv'
  OBVIOUS
<1>1. source \in Sources /\ seen = << >> /\ log = {}
  BY DEF DocumentsInv, SessionInv, Start
<1>2. Learned(Generate(source), << >>, {})
  <2>1. DOMAIN << >> = {}
    OBVIOUS
  <2> QED
    BY <2>1, FS_EmptySet DEF Learned
<1>3. SessionInv'
  BY <1>1, <1>2 DEF Start, SessionInv
<1>4. (source \in Sources)' /\ FileInv' /\ OutInv'
  BY DEF DocumentsInv, Start, FileInv, OutInv, SourceIsKept
<1> QED
  BY <1>3, <1>4 DEF DocumentsInv

(* An exchange is judged and, when the document lacks it, learned.         *)
LEMMA ExchangeInv ==
    ASSUME NEW r \in Requests, NEW a \in Replies
    PROVE  DocumentsInv /\ Exchange(r, a) => DocumentsInv'
<1> SUFFICES ASSUME DocumentsInv, Exchange(r, a) PROVE DocumentsInv'
  OBVIOUS
<1>1. PICK s \in Sources :
        /\ session = <<[doc |-> Generate(s), routes |-> Compile(Generate(s).paths)]>>
        /\ Learned(Generate(s), seen, log)
  BY DEF DocumentsInv, SessionInv, Exchange
<1> DEFINE doc == Generate(s)
<1>2. session[1].doc = doc /\ session[1].routes = Compile(doc.paths)
  BY <1>1
<1>3. seen' = IF KindsOf(Findings(doc, Compile(doc.paths), r, a))
                   \cap {"undocumented-endpoint", "undocumented-status"} = {} THEN seen
              ELSE Observe(seen, <<r.method, LearnedPath(Compile(doc.paths), r)>>, a.status, a.body)
  BY <1>2 DEF Exchange
<1>4. seen' = Noticed(doc, seen, r, a) /\ log' = log \cup {<<r, a>>} /\ session' = session
  BY <1>3 DEF Noticed, Unknown, Endpoint, Exchange
<1>5. IsDocument(doc)
  BY GeneratedDocument
<1>6. Learned(doc, seen', log')
  BY <1>1, <1>4, <1>5, ExchangeIsLearned
<1>7. SessionInv'
  BY <1>1, <1>4, <1>6 DEF SessionInv
<1>8. (source \in Sources)' /\ FileInv' /\ OutInv'
  BY DEF DocumentsInv, Exchange, FileInv, OutInv, SourceIsKept
<1> QED
  BY <1>7, <1>8 DEF DocumentsInv

(* The session ends and writes what it saw.                                *)
LEMMA StopInv ==
    ASSUME NEW merge \in BOOLEAN
    PROVE  DocumentsInv /\ Stop(merge) => DocumentsInv'
<1> SUFFICES ASSUME DocumentsInv, Stop(merge) PROVE DocumentsInv'
  OBVIOUS
<1>1. PICK s \in Sources :
        /\ session = <<[doc |-> Generate(s), routes |-> Compile(Generate(s).paths)]>>
        /\ Learned(Generate(s), seen, log)
  BY DEF DocumentsInv, SessionInv, Stop
<1>2. session[1].doc = Generate(s)
  BY <1>1
<1>3. SessionInv'
  BY DEF Stop, SessionInv
<1>4. FileInv'
  <2>1. CASE seen = << >>
    BY <2>1 DEF DocumentsInv, Stop, FileInv
  <2>2. CASE seen # << >>
    <3> DEFINE fragment == LearnedDocument(seen)
               written == IF merge THEN MergeObserved(Generate(s), fragment) ELSE fragment
               f == [doc |-> written, from |-> Generate(s), seen |-> seen, log |-> log]
    <3>1. file' = <<f>>
      BY <1>2, <2>2 DEF Stop
    <3>2. f.doc = written /\ f.from = Generate(s) /\ f.seen = seen /\ f.log = log
      OBVIOUS
    <3> HIDE DEF f
    <3>3. f.doc \in Written(f)
      BY <3>2 DEF Written
    <3>4. Learned(f.from, f.seen, f.log)
      BY <1>1, <3>2
    <3>5. file'[1] = f
      BY <3>1
    <3> QED
      BY <3>1, <3>2, <3>3, <3>4, <3>5 DEF FileInv
  <2> QED
    BY <2>1, <2>2
<1>5. (source \in Sources)' /\ OutInv'
  BY DEF DocumentsInv, Stop, OutInv, SourceIsKept
<1> QED
  BY <1>3, <1>4, <1>5 DEF DocumentsInv

(* The file is folded into the source as it is then.                       *)
LEMMA MergeLearnedInv == DocumentsInv /\ MergeLearned => DocumentsInv'
<1> SUFFICES ASSUME DocumentsInv, MergeLearned PROVE DocumentsInv'
  OBVIOUS
<1> DEFINE f == file[1]
           o == [doc |-> MergeObserved(Generate(source), f.doc), of |-> Generate(source)]
<1>1. source \in Sources /\ \E s \in Sources : f.from = Generate(s)
      /\ Learned(f.from, f.seen, f.log) /\ f.doc \in Written(f)
  BY DEF DocumentsInv, FileInv, MergeLearned
<1>2. IsDocument(f.doc)
  BY <1>1, GeneratedDocument, WrittenDocument
<1>3. out' = <<o>>
  BY DEF MergeLearned
<1>4. o.of = Generate(source) /\ o.doc = MergeObserved(Generate(source), f.doc)
  OBVIOUS
<1> HIDE DEF o, f
<1>5. /\ IsDocument(o.doc) /\ o.doc.components = o.of.components
      /\ \A p \in DOMAIN o.doc.paths : \A m \in DOMAIN o.doc.paths[p] :
           o.doc.paths[p][m].observed <=> ~ HasOp(o.of, p, m)
      /\ \A p \in DOMAIN o.of.paths : \A m \in DOMAIN o.of.paths[p] :
           HasOp(o.doc, p, m) /\ Extends(o.doc.paths[p][m], o.of.paths[p][m])
  BY <1>1, <1>2, <1>4, MergeKeepsSource
<1>6. ToSet(out') = {o} /\ out'[1] = o
  BY <1>3, SequenceOfOne
<1>7. SourceIsKept'
  BY <1>5, <1>6 DEF SourceIsKept
<1>a. Known(o.doc)
  <2>1. PICK s \in Sources : f.from = Generate(s)
    BY <1>1
  <2>2. Known(f.doc)
    BY <1>1, <2>1, WrittenIsKnown
  <2>3. IsDocument(Generate(source)) /\ Known(Generate(source))
    BY <1>1, GeneratedDocument, GeneratedIsKnown
  <2> QED
    BY <1>2, <1>4, <2>2, <2>3, MergedIsKnown DEF MergeObserved
<1>8. OutInv'
  BY <1>1, <1>3, <1>4, <1>5, <1>6, <1>7, <1>a DEF OutInv
<1>9. (source \in Sources)' /\ SessionInv' /\ FileInv'
  BY DEF DocumentsInv, MergeLearned, SessionInv, FileInv
<1> QED
  BY <1>8, <1>9 DEF DocumentsInv

(* The invariant holds of every behaviour.                                 *)
THEOREM Invariance == Spec => []DocumentsInv
<1>1. DocumentsInv /\ Edit => DocumentsInv'
  BY DEF DocumentsInv, Edit, SessionInv, FileInv, OutInv, SourceIsKept
<1>2. DocumentsInv /\ UNCHANGED vars => DocumentsInv'
  BY DEF DocumentsInv, vars, SessionInv, FileInv, OutInv, SourceIsKept
<1>3. DocumentsInv /\ [Next]_vars => DocumentsInv'
  BY <1>1, <1>2, StartInv, ExchangeInv, StopInv, MergeLearnedInv DEF Next
<1> QED
  BY <1>3, InitInv, PTL DEF Spec

(* The documents there are to serve and to judge by.                       *)
LEMMA HeldDocuments ==
    DocumentsInv => \A doc \in Held :
        /\ IsDocument(doc) /\ Known(doc)
        /\ \E s \in Sources : doc.components = s.components
<1> SUFFICES ASSUME DocumentsInv, NEW doc \in Held
             PROVE  /\ IsDocument(doc) /\ Known(doc)
                    /\ \E s \in Sources : doc.components = s.components
  OBVIOUS
<1>1. CASE doc = Generate(source)
  BY <1>1, GeneratedDocument, GeneratedIsKnown DEF DocumentsInv
<1>2. CASE \E o \in ToSet(out) : doc = o.doc
  <2>1. PICK o \in ToSet(out) : doc = o.doc
    BY <1>2
  <2>2. o = out[1] /\ out # << >>
    BY SequenceOfOne DEF DocumentsInv, OutInv
  <2>3. PICK s \in Sources : o.of = Generate(s)
    BY <2>2 DEF DocumentsInv, OutInv
  <2>4. IsDocument(o.doc) /\ Known(o.doc) /\ SourceIsKept
    BY <2>2 DEF DocumentsInv, OutInv
  <2>5. o.doc.components = o.of.components
    BY <2>4 DEF SourceIsKept
  <2>6. o.of.components = s.components
    BY <2>3, GeneratedDocument
  <2> QED
    BY <2>1, <2>4, <2>5, <2>6
<1> QED
  BY <1>1, <1>2 DEF Held

(* Whatever was merged, a request meets the most specific of the documented*)
(* operations that fit it (route.go, Compile and Match).                   *)
THEOREM EveryRequestMeetsItsOwn == Spec => []MatchIsMostSpecific
<1>1. DocumentsInv => MatchIsMostSpecific
  BY HeldDocuments, RequestsMeetTheMostSpecific DEF MatchIsMostSpecific, IsDocument
<1> QED
  BY <1>1, Invariance, PTL

(* Whatever was learned, in whichever form it was written, and however the *)
(* source was edited since: a merge overwrites nothing the source has and  *)
(* marks what it lacks (merge.go, MergeObserved).                          *)
THEOREM NothingIsOverwritten == Spec => []SourceIsKept
<1>1. DocumentsInv => SourceIsKept
  BY SequenceOfOne DEF DocumentsInv, OutInv, SourceIsKept
<1> QED
  BY <1>1, Invariance, PTL
----------------------------------------------------------------------------
(* Of an exchange the session kept: the fragment has its operation, and    *)
(* the statuses and bodies of the entry it was filed under; so has what a  *)
(* merge into the document of the session makes of what was written.       *)
LEMMA MergedHasEntry ==
    ASSUME NEW f, IsDocument(f.from), Learned(f.from, f.seen, f.log), f.doc \in Written(f),
           NEW m, NEW p, <<m, p>> \in DOMAIN f.seen
    PROVE  LET doc == MergeObserved(f.from, f.doc)
               entry == f.seen[<<m, p>>]
               op == doc.paths[p][m] IN
           /\ IsDocument(doc) /\ doc.components = f.from.components /\ HasOp(doc, p, m)
           /\ \A c \in DOMAIN entry.statuses :
                /\ c \in DOMAIN op.responses
                /\ op.responses[c] = LearnedOperation(p, entry).responses[c]
           /\ HasOp(f.from, p, m) => DOMAIN f.from.paths[p][m].responses \subseteq DOMAIN op.responses
<1> DEFINE fragment == LearnedDocument(f.seen)
           entry == f.seen[<<m, p>>]
           learned == LearnedOperation(p, entry)
           doc == MergeObserved(f.from, f.doc)
<1>1. /\ IsDocument(fragment) /\ HasOp(fragment, p, m)
      /\ fragment.paths[p][m] = learned
  BY LearnedEntries
<1>2. DOMAIN learned.responses = DOMAIN entry.statuses
  BY DEF LearnedOperation
<1>3. HasOp(f.from, p, m) =>
        DOMAIN entry.statuses \cap DOMAIN f.from.paths[p][m].responses = {}
  <2>1. Entered(f.from, <<m, p>>, entry)
    BY DEF Learned
  <2>2. <<m, p>>[1] = m /\ <<m, p>>[2] = p
    OBVIOUS
  <2> QED
    BY <2>1, <2>2 DEF Entered
<1>4. IsDocument(f.doc)
  BY WrittenDocument
<1>5. f.doc \in {fragment, MergeInto(f.from, fragment, "observed")}
  BY DEF Written, MergeObserved
<1>6. doc = MergeInto(f.from, f.doc, "observed")
  BY DEF MergeObserved
<1> HIDE DEF fragment, learned, entry, doc
<1>7. /\ HasOp(f.doc, p, m)
      /\ \A c \in DOMAIN entry.statuses :
           /\ c \in DOMAIN f.doc.paths[p][m].responses
           /\ f.doc.paths[p][m].responses[c] = learned.responses[c]
  <2>1. CASE f.doc = fragment
    BY <1>1, <1>2, <2>1
  <2>2. CASE f.doc = MergeInto(f.from, fragment, "observed")
    <3>1. HasOp(f.doc, p, m)
      BY <1>1, <2>2, MergedOperations
    <3>2. /\ DOMAIN learned.responses \subseteq DOMAIN f.doc.paths[p][m].responses
          /\ \A c \in DOMAIN learned.responses :
               ~ (HasOp(f.from, p, m) /\ c \in DOMAIN f.from.paths[p][m].responses)
               => f.doc.paths[p][m].responses[c] = learned.responses[c]
      BY <1>1, <2>2, ExtraIsTaken
    <3> QED
      BY <1>2, <1>3, <3>1, <3>2
  <2> QED
    BY <1>5, <2>1, <2>2
<1>8. IsDocument(doc) /\ doc.components = f.from.components
  BY <1>4, <1>6, MergedDocument
<1>9. HasOp(doc, p, m)
  BY <1>4, <1>6, <1>7, MergedOperations
<1>a. HasOp(f.doc, p, m)
  BY <1>7
<1>10. /\ DOMAIN f.doc.paths[p][m].responses \subseteq DOMAIN doc.paths[p][m].responses
       /\ \A c \in DOMAIN f.doc.paths[p][m].responses :
            ~ (HasOp(f.from, p, m) /\ c \in DOMAIN f.from.paths[p][m].responses)
            => doc.paths[p][m].responses[c] = f.doc.paths[p][m].responses[c]
  <2> DEFINE merged == MergeInto(f.from, f.doc, "observed")
  <2>1. /\ DOMAIN f.doc.paths[p][m].responses \subseteq DOMAIN merged.paths[p][m].responses
        /\ \A c \in DOMAIN f.doc.paths[p][m].responses :
             ~ (HasOp(f.from, p, m) /\ c \in DOMAIN f.from.paths[p][m].responses)
             => merged.paths[p][m].responses[c] = f.doc.paths[p][m].responses[c]
    BY <1>4, <1>a, ExtraIsTaken
  <2> QED
    BY <1>6, <2>1
<1>11. ASSUME NEW c \in DOMAIN entry.statuses
       PROVE  /\ c \in DOMAIN doc.paths[p][m].responses
              /\ doc.paths[p][m].responses[c] = learned.responses[c]
  <2>1. c \in DOMAIN f.doc.paths[p][m].responses
        /\ f.doc.paths[p][m].responses[c] = learned.responses[c]
    BY <1>7
  <2>2. ~ (HasOp(f.from, p, m) /\ c \in DOMAIN f.from.paths[p][m].responses)
    BY <1>3
  <2> QED
    BY <1>10, <2>1, <2>2
<1>12. HasOp(f.from, p, m) =>
         DOMAIN f.from.paths[p][m].responses \subseteq DOMAIN doc.paths[p][m].responses
  <2> SUFFICES ASSUME HasOp(f.from, p, m)
               PROVE  DOMAIN f.from.paths[p][m].responses \subseteq DOMAIN doc.paths[p][m].responses
    OBVIOUS
  <2>1. Extends(doc.paths[p][m], f.from.paths[p][m])
    BY <1>4, <1>6, BaseIsKept
  <2> QED
    BY <2>1 DEF Extends
<1> QED
  BY <1>8, <1>9, <1>11, <1>12 DEF doc, learned, entry

(* What the checks say of a body that has nothing wrong with it.           *)
LEMMA NothingToSay ==
    ASSUME NEW doc, NEW routes, NEW r, NEW a,
           LET rt == Match(routes, r.method, r.path)
               content == doc.paths[rt[1].path][rt[1].method].responses[a.status].content IN
           content # << >> =>
               /\ Parses(a.body)
               /\ Problems(doc.components, content[1], a.body) = {}
               /\ Unmentioned(doc.components, content[1], a.body) = {}
    PROVE  KindsOf(Findings(doc, routes, r, a)) \cap {"shape", "undocumented-field"} = {}
<1> DEFINE rt == Match(routes, r.method, r.path)
           op == doc.paths[rt[1].path][rt[1].method]
           content == op.responses[a.status].content
           all == Findings(doc, routes, r, a)
<1>1. all =
        IF rt = << >> THEN Noted("undocumented-endpoint", {<< >>})
        ELSE IF a.status \notin DOMAIN op.responses THEN Noted("undocumented-status", {<< >>})
        ELSE IF content = << >> THEN {}
        ELSE IF ~ a.json THEN Noted("content-type", {<< >>})
        ELSE IF ~ Parses(a.body) THEN Noted("shape", {<< >>})
        ELSE Noted("shape", Problems(doc.components, content[1], a.body)) \cup
             Noted("undocumented-field", Unmentioned(doc.components, content[1], a.body))
  BY DEF Findings
<1>2. content # << >> =>
        /\ Parses(a.body)
        /\ Problems(doc.components, content[1], a.body) = {}
        /\ Unmentioned(doc.components, content[1], a.body) = {}
  OBVIOUS
<1> HIDE DEF all, rt, op, content
<1>3. Noted("shape", {}) = {} /\ Noted("undocumented-field", {}) = {}
  BY DEF Noted
<1>4. \/ all = {}
      \/ \E k \in {"undocumented-endpoint", "undocumented-status", "content-type"} :
           all = Noted(k, {<< >>})
  BY <1>1, <1>2, <1>3
<1>5. ASSUME NEW x \in all
      PROVE  x.kind \notin {"shape", "undocumented-field"}
  <2>1. PICK k \in {"undocumented-endpoint", "undocumented-status", "content-type"} :
          all = Noted(k, {<< >>})
    BY <1>4
  <2>2. x.kind = k
    BY <2>1, KindsNoted
  <2> QED
    BY <2>2
<1> QED
  BY <1>5 DEF KindsOf, all

(* One exchange that a session filed.                                      *)
LEMMA FiledIsDocumented ==
    ASSUME NEW s \in Sources, NEW f, f.from = Generate(s),
           Learned(f.from, f.seen, f.log), f.doc \in Written(f),
           NEW x \in f.log, Endpoint(f.from, x[1]) \in DOMAIN f.seen
    PROVE  LET r == x[1]
               a == x[2]
               path == LearnedPath(Compile(f.from.paths), r)
               doc == MergeObserved(f.from, f.doc)
               after == Compile(doc.paths)
               now == KindsOf(Findings(doc, after, r, a))
               o == f.seen[<<r.method, path>>] IN
           /\ "undocumented-endpoint" \notin now
           /\ LearnedPath(after, r) = path =>
                /\ "undocumented-status" \notin now
                /\ a.status \in DOMAIN o.bodies /\ a.body = o.bodies[a.status] /\ Uniform(a.body) =>
                     now \cap {"shape", "undocumented-field"} = {}
<1> DEFINE r == x[1]
           a == x[2]
           path == LearnedPath(Compile(f.from.paths), r)
           doc == MergeObserved(f.from, f.doc)
           after == Compile(doc.paths)
           now == KindsOf(Findings(doc, after, r, a))
           entry == f.seen[<<r.method, path>>]
           op == doc.paths[path][r.method]
           rt == Match(after, r.method, r.path)
<1>1. r \in Requests /\ a \in Replies
  BY DEF Learned
<1>2. IsDocument(f.from) /\ f.from.components = s.components
  BY GeneratedDocument
<1>3. /\ Fits([path |-> path, method |-> r.method], r.method, r.path)
      /\ Unknown(f.from, r, a) <=>
           ~ (HasOp(f.from, path, r.method)
              /\ a.status \in DOMAIN f.from.paths[path][r.method].responses)
  BY <1>1, <1>2, WhereItIsFiled
<1>4. <<r.method, path>> \in DOMAIN f.seen /\ Endpoint(f.from, r) = <<r.method, path>>
  BY DEF Endpoint
<1>5. /\ IsDocument(doc) /\ doc.components = s.components /\ HasOp(doc, path, r.method)
      /\ \A c \in DOMAIN entry.statuses :
           /\ c \in DOMAIN op.responses
           /\ op.responses[c] = LearnedOperation(path, entry).responses[c]
      /\ HasOp(f.from, path, r.method) =>
           DOMAIN f.from.paths[path][r.method].responses \subseteq DOMAIN op.responses
  BY <1>2, <1>4, MergedHasEntry
<1>6. Unknown(f.from, r, a) => a.status \in DOMAIN entry.statuses
  <2>1. Unknown(f.from, x[1], x[2]) => NotLost(f.from, f.seen, x)
    BY DEF Learned
  <2> QED
    BY <1>4, <2>1 DEF NotLost
<1>7. /\ Entered(f.from, <<r.method, path>>, entry)
      /\ DOMAIN entry.bodies \subseteq DOMAIN entry.statuses
      /\ \A c \in DOMAIN entry.bodies : Parses(entry.bodies[c])
  <2>1. Entered(f.from, <<r.method, path>>, entry)
    BY <1>4 DEF Learned
  <2> HIDE DEF entry
  <2> QED
    BY <2>1 DEF Entered
<1> HIDE DEF r, a, path, doc, entry, op, after
<1>8. /\ rt # << >> /\ rt[1].method = r.method
  BY <1>1, <1>3, <1>5, MatchedOperation DEF after
<1>9. /\ "undocumented-endpoint" \notin now
      /\ "undocumented-status" \in now =>
           a.status \notin DOMAIN doc.paths[rt[1].path][rt[1].method].responses
  BY <1>8, UnknownKinds
<1>10. ASSUME LearnedPath(after, r) = path
       PROVE  /\ "undocumented-status" \notin now
              /\ a.status \in DOMAIN entry.bodies /\ a.body = entry.bodies[a.status] /\ Uniform(a.body) =>
                   now \cap {"shape", "undocumented-field"} = {}
  <2>1. rt[1].path = path
    BY <1>8, <1>10 DEF LearnedPath
  <2>2. doc.paths[rt[1].path][rt[1].method] = op
    BY <1>8, <2>1 DEF op
  <2>3. a.status \in DOMAIN op.responses
    BY <1>3, <1>5, <1>6
  <2>4. ASSUME a.status \in DOMAIN entry.bodies, a.body = entry.bodies[a.status], Uniform(a.body)
        PROVE  now \cap {"shape", "undocumented-field"} = {}
    <3> DEFINE content == op.responses[a.status].content
    <3>1. op.responses[a.status] = LearnedOperation(path, entry).responses[a.status]
      BY <1>5, <1>7, <2>4
    <3>2. content = Opt(Inferred(a.body))
      BY <1>7, <2>4, <3>1 DEF LearnedOperation
    <3>3. content # << >> => content[1] = Inferred(a.body)
      BY <3>2 DEF Opt
    <3>4. Parses(a.body)
      BY <1>7, <2>4
    <3>5. /\ Problems(doc.components, Inferred(a.body), a.body) = {}
          /\ Unmentioned(doc.components, Inferred(a.body), a.body) = {}
      BY <1>1, <1>5, <2>4, <3>4, InferenceAssumption DEF InferenceAssumption
    <3> HIDE DEF content
    <3>6. content # << >> =>
            /\ Parses(a.body)
            /\ Problems(doc.components, content[1], a.body) = {}
            /\ Unmentioned(doc.components, content[1], a.body) = {}
      BY <3>3, <3>4, <3>5
    <3> QED
      BY <2>2, <3>6, NothingToSay DEF content
  <2> QED
    BY <1>9, <2>2, <2>3, <2>4
<1> QED
  BY <1>9, <1>10 DEF r, a, path, doc, after, entry

(* Whatever was learned and however it was written, a later run that reads *)
(* it documents the traffic it came from (learn.go, Document; merge.go,    *)
(* mergeInto).                                                             *)
THEOREM WhatWasLearnedIsDocumented == Spec => []LearnedIsDocumented
<1>1. DocumentsInv => LearnedIsDocumented
  <2> SUFFICES ASSUME DocumentsInv, NEW f \in ToSet(file), NEW x \in f.log,
                      <<x[1].method, LearnedPath(Compile(f.from.paths), x[1])>> \in DOMAIN f.seen
               PROVE  LET doc == MergeObserved(f.from, f.doc)
                          before == Compile(f.from.paths)
                          after  == Compile(doc.paths)
                          r == x[1]
                          a == x[2]
                          path == LearnedPath(before, r)
                          now  == KindsOf(Findings(doc, after, r, a)) IN
                      /\ "undocumented-endpoint" \notin now
                      /\ LearnedPath(after, r) = path =>
                           /\ "undocumented-status" \notin now
                           /\ LET o == f.seen[<<r.method, path>>] IN
                              a.status \in DOMAIN o.bodies /\ a.body = o.bodies[a.status]
                                /\ Uniform(a.body) =>
                                  now \cap {"shape", "undocumented-field"} = {}
    BY DEF LearnedIsDocumented
  <2>1. f = file[1]
    BY SequenceOfOne DEF DocumentsInv, FileInv
  <2>2. file # << >>
    BY SequenceOfOne
  <2>3. PICK s \in Sources : f.from = Generate(s)
    BY <2>1, <2>2 DEF DocumentsInv, FileInv
  <2>4. Learned(f.from, f.seen, f.log) /\ f.doc \in Written(f)
    BY <2>1, <2>2 DEF DocumentsInv, FileInv
  <2>5. Endpoint(f.from, x[1]) \in DOMAIN f.seen
    BY DEF Endpoint
  <2> QED
    BY <2>3, <2>4, <2>5, FiledIsDocumented
<1> QED
  BY <1>1, Invariance, PTL
----------------------------------------------------------------------------
(* An answer without Vary that lets its asker in says "*", and then every  *)
(* asker's own answer does.                                                *)
LEMMA GrantIsForAll ==
    ASSUME NEW opts, NEW mine \in Origins, NEW yours \in Origins
    PROVE  LET one == ApplyCORS(opts, mine)
               other == ApplyCORS(opts, yours) IN
           LetsIn(one, mine) /\ ~ one.vary =>
               (LetsIn(one, yours) <=> LetsIn(other, yours))
<1> DEFINE one == ApplyCORS(opts, mine)
           other == ApplyCORS(opts, yours)
<1> SUFFICES ASSUME LetsIn(one, mine), ~ one.vary
             PROVE  LetsIn(one, yours) /\ LetsIn(other, yours)
  OBVIOUS
<1>1. mine # "*" /\ yours # "*"
  BY TrafficAssumption DEF TrafficAssumption
<1>2. \A o : OriginFor(opts, o) =
        IF opts.origins = {} \/ "*" \in opts.origins
        THEN [value |-> IF opts.credentials THEN o ELSE "*", allowed |-> TRUE]
        ELSE [value   |-> IF o \in opts.origins THEN o ELSE NoOrigin,
              allowed |-> o = NoOrigin \/ o \in opts.origins]
  BY DEF OriginFor
<1>3. \A o : ApplyCORS(opts, o) =
        IF ~ OriginFor(opts, o).allowed THEN NoCors
        ELSE [allow |-> OriginFor(opts, o).value, credentials |-> opts.credentials,
              vary |-> OriginFor(opts, o).value \notin {"*", NoOrigin}]
  BY DEF ApplyCORS
<1> DEFINE value(o) == OriginFor(opts, o).value
<1>4. \A o : \/ ApplyCORS(opts, o) = NoCors
             \/ /\ ApplyCORS(opts, o).allow = value(o)
                /\ value(o) \notin {"*", NoOrigin} => ApplyCORS(opts, o).vary
  <2> TAKE o
  <2>1. CASE ~ OriginFor(opts, o).allowed
    BY <1>3, <2>1
  <2>2. CASE OriginFor(opts, o).allowed
    <3>1. ApplyCORS(opts, o) = [allow |-> value(o), credentials |-> opts.credentials,
                                vary |-> value(o) \notin {"*", NoOrigin}]
      BY <1>3, <2>2
    <3> HIDE DEF value
    <3>2. /\ ApplyCORS(opts, o).allow = value(o)
          /\ ApplyCORS(opts, o).vary = (value(o) \notin {"*", NoOrigin})
      BY <3>1
    <3> QED
      BY <3>2
  <2> QED
    BY <2>1, <2>2
<1>5. one.allow # NoOrigin /\ one.allow \in {"*", mine} /\ ~ one.vary
  BY DEF LetsIn
<1>6. NoCors.allow = NoOrigin
  BY DEF NoCors
<1>7. one.allow = value(mine) /\ value(mine) = "*"
  BY <1>4, <1>5, <1>6
<1>8. (opts.origins = {} \/ "*" \in opts.origins) /\ ~ opts.credentials
  <2>1. CASE opts.origins = {} \/ "*" \in opts.origins
    BY <1>1, <1>2, <1>7, <2>1
  <2>2. CASE ~ (opts.origins = {} \/ "*" \in opts.origins)
    <3>1. value(mine) = IF mine \in opts.origins THEN mine ELSE NoOrigin
      BY <1>2, <2>2
    <3> QED
      BY <1>1, <1>7, <3>1 DEF NoOrigin
  <2> QED
    BY <2>1, <2>2
<1>9. OriginFor(opts, yours) = [value |-> "*", allowed |-> TRUE]
  BY <1>2, <1>8
<1>10. OriginFor(opts, yours).allowed /\ value(yours) = "*"
  BY <1>9
<1>11. other.allow = "*"
  BY <1>3, <1>10
<1> QED
  BY <1>7, <1>11 DEF LetsIn, NoOrigin

(* One origin's answer, stored without Vary, is never another's: for every *)
(* setting of the mock and every document (cors.go, applyCORS).            *)
THEOREM GrantsCanBeCached == Spec => []GrantsAreSafeToCache
<1>1. GrantsAreSafeToCache
  <2> SUFFICES ASSUME NEW doc \in Held, NEW r \in Requests, NEW opts \in Options,
                      NEW one \in Grants(doc, Compile(doc.paths), opts, r),
                      NEW other \in Grants(doc, Compile(doc.paths), opts, r)
               PROVE  LetsIn(one.cors, one.origin) /\ ~ one.cors.vary =>
                          (LetsIn(one.cors, other.origin) <=> LetsIn(other.cors, other.origin))
    BY DEF GrantsAreSafeToCache
  <2>1. ASSUME NEW g \in Grants(doc, Compile(doc.paths), opts, r)
        PROVE  g.origin \in Origins /\ g.cors = ApplyCORS(opts, g.origin)
    <3> DEFINE ask(o) == [r EXCEPT !.origin = o]
    <3>1. PICK o \in Origins :
            g = [origin |-> o, cors |-> Answer(doc, Compile(doc.paths), opts, ask(o)).cors]
      BY DEF Grants
    <3>2. ask(o).origin = o
      <4>1. r = [method |-> r.method, path |-> r.path, status |-> r.status,
                 auth |-> r.auth, keys |-> r.keys, origin |-> r.origin]
        BY TrafficAssumption DEF TrafficAssumption
      <4>2. "origin" \in DOMAIN r
        BY <4>1
      <4> QED
        BY <4>2
    <3> HIDE DEF ask
    <3>3. Answer(doc, Compile(doc.paths), opts, ask(o)).cors = ApplyCORS(opts, ask(o).origin)
      BY DEF Answer
    <3> QED
      BY <3>1, <3>2, <3>3
  <2> QED
    BY <2>1, GrantIsForAll
<1> QED
  BY <1>1, PTL
----------------------------------------------------------------------------
(* What the proxy says of a body against the schema it was served by.      *)
Judged(components, schema, body) ==
    IF ~ Parses(body) THEN Noted("shape", {<< >>})
    ELSE Noted("shape", Problems(components, schema, body)) \cup
         Noted("undocumented-field", Unmentioned(components, schema, body))

(* Of an answer the mock takes from the document the proxy of the same     *)
(* document finds what the checker finds of the bare sample, with the      *)
(* values the request gives the path's placeholders, and nothing else: no  *)
(* undocumented endpoint or status and no wrong content type.  The schema  *)
(* is one that a scan gave this very operation, or inferred from a body.   *)
MockIsJudgedBySamples ==
    \A doc \in Held :
      LET routes == Compile(doc.paths) IN
      \A r \in Requests, opts \in Options :
        LET rt == Match(routes, r.method, r.path)
            op == doc.paths[rt[1].path][rt[1].method]
        IN rt # << >> /\ r.method # "OPTIONS" /\ DOMAIN op.responses # {0}
             /\ (opts.enforceAuth => AuthCheck(doc, op, r)) =>
             \A ask \in AsksOf(op, r) :
                LET a == Answer(doc, routes, opts, ask)
                    content == op.responses[a.status].content
                    sample == SampleBody(doc.components, content[1], Vals(rt[1], r.path)) IN
                /\ a.status \in DOMAIN op.responses
                /\ content \in Contents(rt[1].path, r.method)
                /\ Findings(doc, routes, ask, a) =
                      IF content = << >> THEN {} ELSE Judged(doc.components, content[1], sample)

(* The response served by default is one of the operation's, unless        *)
(* "default" is its only one (mock.go, primary).                           *)
LEMMA PrimaryIsDocumented ==
    ASSUME NEW op, IsOperation(op), DOMAIN op.responses # {0}
    PROVE  /\ Primary(op).status \in DOMAIN op.responses
           /\ Primary(op).response = op.responses[Primary(op).status]
<1> DEFINE codes == DOMAIN op.responses \ {0}
           good  == {c \in codes : c \in 200 .. 299}
           under(c) == [status |-> c, response |-> op.responses[c]]
<1>1. DOMAIN op.responses \subseteq Nat /\ DOMAIN op.responses # {} /\ IsFiniteSet(DOMAIN op.responses)
  BY DEF IsOperation
<1>2. codes \in SUBSET Nat /\ codes # {} /\ IsFiniteSet(codes)
  <2>1. codes # {}
    BY <1>1
  <2>2. IsFiniteSet(codes)
    BY <1>1, FS_Subset
  <2> QED
    BY <1>1, <2>1, <2>2
<1>3. good \in SUBSET codes /\ good \in SUBSET Nat /\ IsFiniteSet(good)
  <2>1. good \in SUBSET codes
    OBVIOUS
  <2> QED
    BY <1>2, <2>1, FS_Subset
<1>4. codes \in SUBSET DOMAIN op.responses
  OBVIOUS
<1>5. Primary(op) = IF good # {} THEN under(Min(good))
                    ELSE IF codes # {} THEN under(Min(codes))
                    ELSE [status |-> 200,
                          response |-> IF 0 \in DOMAIN op.responses THEN op.responses[0]
                                       ELSE NoResponse]
  BY DEF Primary
<1> HIDE DEF codes, good
<1>6. \E c \in codes : Primary(op) = under(c)
  <2>1. CASE good # {}
    <3>1. Min(good) \in good
      BY <1>3, <2>1, LeastMember
    <3>2. Primary(op) = under(Min(good))
      BY <1>5, <2>1
    <3> QED
      BY <1>3, <3>1, <3>2
  <2>2. CASE good = {}
    <3>1. Min(codes) \in codes
      BY <1>2, LeastMember
    <3>2. Primary(op) = under(Min(codes))
      BY <1>2, <1>5, <2>2
    <3> QED
      BY <3>1, <3>2
  <2> QED
    BY <2>1, <2>2
<1> QED
  BY <1>4, <1>6

(* What the mock answers a request that fits an operation, may make it and *)
(* asks for no response the operation lacks (mock.go, HandlerWith).        *)
LEMMA MockAnswersAsDocumented ==
    ASSUME NEW doc, IsDocument(doc), NEW opts, NEW ask, ask.method # "OPTIONS",
           Match(Compile(doc.paths), ask.method, ask.path) # << >>,
           LET rt == Match(Compile(doc.paths), ask.method, ask.path)
               op == doc.paths[rt[1].path][rt[1].method] IN
           /\ IsOperation(op) /\ DOMAIN op.responses # {0}
           /\ opts.enforceAuth => AuthCheck(doc, op, ask)
           /\ ask.status # 0 => ask.status \in DOMAIN op.responses
    PROVE  LET rt == Match(Compile(doc.paths), ask.method, ask.path)
               op == doc.paths[rt[1].path][rt[1].method]
               a == Answer(doc, Compile(doc.paths), opts, ask)
               content == op.responses[a.status].content IN
           /\ a.status \in DOMAIN op.responses
           /\ content # << >> =>
                /\ a.json
                /\ a.body = SampleBody(doc.components, content[1], Vals(rt[1], ask.path))
<1> DEFINE routes == Compile(doc.paths)
           rt == Match(routes, ask.method, ask.path)
           op == doc.paths[rt[1].path][rt[1].method]
           asked  == ask.status # 0
           chosen == IF asked THEN [status |-> ask.status, response |-> op.responses[ask.status]]
                     ELSE Primary(op)
           content == chosen.response.content
           body == SampleBody(doc.components, content[1], Vals(rt[1], ask.path))
           answer(status, json, bytes) == [status |-> status, json |-> json, body |-> bytes]
           handled == Handled(doc, routes, opts, ask)
           a == Answer(doc, routes, opts, ask)
<1>1. handled =
       IF ask.method = "OPTIONS" THEN answer(204, FALSE, NoBody)
       ELSE IF rt = << >> THEN answer(404, TRUE, Problem)
       ELSE IF opts.enforceAuth /\ ~ AuthCheck(doc, op, ask) THEN answer(401, TRUE, Problem)
       ELSE IF asked /\ ask.status \notin DOMAIN op.responses THEN answer(400, TRUE, Problem)
       ELSE IF content = << >> THEN answer(chosen.status, FALSE, NoBody)
       ELSE answer(chosen.status, TRUE, body)
  BY DEF Handled
<1>2. a.status = handled.status /\ a.json = handled.json /\ a.body = handled.body
  BY DEF Answer
<1>3. /\ ask.method # "OPTIONS" /\ rt # << >> /\ IsOperation(op) /\ DOMAIN op.responses # {0}
      /\ opts.enforceAuth => AuthCheck(doc, op, ask)
      /\ asked => ask.status \in DOMAIN op.responses
  OBVIOUS
<1> HIDE DEF rt, op, handled, a
<1>4. /\ chosen.status \in DOMAIN op.responses
      /\ chosen.response = op.responses[chosen.status]
  <2>1. CASE asked
    BY <1>3, <2>1
  <2>2. CASE ~ asked
    BY <1>3, <2>2, PrimaryIsDocumented
  <2> QED
    BY <2>1, <2>2
<1> HIDE DEF chosen, body, asked
<1>5. handled = IF content = << >> THEN answer(chosen.status, FALSE, NoBody)
                ELSE answer(chosen.status, TRUE, body)
  BY <1>1, <1>3
<1>6. /\ handled.status = chosen.status
      /\ content # << >> => handled.json /\ handled.body = body
  BY <1>5
<1> QED
  BY <1>2, <1>4, <1>6 DEF routes, rt, op, a, body

(* Whichever operation, status and credentials are asked for, and whatever *)
(* a merge added to the document, the mock and the proxy of it agree on    *)
(* everything but the sample itself (mock.go, HandlerWith; proxy.go,       *)
(* inspect).                                                               *)
THEOREM MockIsJudgedBySamplesAlone == Spec => []MockIsJudgedBySamples
<1>1. ASSUME DocumentsInv, NEW doc \in Held, NEW r \in Requests, NEW opts \in Options,
             LET rt == Match(Compile(doc.paths), r.method, r.path)
                 op == doc.paths[rt[1].path][rt[1].method] IN
             /\ rt # << >> /\ r.method # "OPTIONS" /\ DOMAIN op.responses # {0}
             /\ opts.enforceAuth => AuthCheck(doc, op, r),
             NEW ask \in AsksOf(doc.paths[Match(Compile(doc.paths), r.method, r.path)[1].path]
                                         [Match(Compile(doc.paths), r.method, r.path)[1].method], r)
      PROVE  LET rt == Match(Compile(doc.paths), r.method, r.path)
                 op == doc.paths[rt[1].path][rt[1].method]
                 a == Answer(doc, Compile(doc.paths), opts, ask)
                 content == op.responses[a.status].content
                 sample == SampleBody(doc.components, content[1], Vals(rt[1], r.path)) IN
             /\ a.status \in DOMAIN op.responses
             /\ content \in Contents(rt[1].path, r.method)
             /\ Findings(doc, Compile(doc.paths), ask, a) =
                   IF content = << >> THEN {} ELSE Judged(doc.components, content[1], sample)
  <2> DEFINE routes == Compile(doc.paths)
             rt == Match(routes, r.method, r.path)
             op == doc.paths[rt[1].path][rt[1].method]
             a == Answer(doc, routes, opts, ask)
             content == op.responses[a.status].content
  <2>1. IsDocument(doc) /\ Known(doc)
    BY <1>1, HeldDocuments
  <2>2. /\ rt # << >> /\ r.method # "OPTIONS" /\ DOMAIN op.responses # {0}
        /\ opts.enforceAuth => AuthCheck(doc, op, r)
    BY <1>1
  <2>3. /\ rt[1].path \in DOMAIN doc.paths /\ rt[1].method = r.method
        /\ rt[1] = [path |-> rt[1].path, method |-> r.method]
        /\ HasOp(doc, rt[1].path, r.method)
        /\ IsOperation(op) /\ Fits(rt[1], r.method, r.path)
    BY <1>1, <2>1, MatchedOperation
  <2>4. PICK c \in {0} \cup DOMAIN op.responses : ask = [r EXCEPT !.status = c]
    BY <1>1 DEF AsksOf
  <2>5. /\ ask.method = r.method /\ ask.path = r.path /\ ask.status = c
        /\ ask.auth = r.auth /\ ask.keys = r.keys
    <3>1. r = [method |-> r.method, path |-> r.path, status |-> r.status,
               auth |-> r.auth, keys |-> r.keys, origin |-> r.origin]
      BY TrafficAssumption DEF TrafficAssumption
    <3> QED
      BY <2>4, <3>1
  <2>6. AuthCheck(doc, op, ask) <=> AuthCheck(doc, op, r)
    BY <2>5 DEF AuthCheck, SchemeSatisfied
  <2>7. Match(routes, ask.method, ask.path) = rt
    BY <2>5
  <2> HIDE DEF rt
  <2>8. /\ a.status \in DOMAIN op.responses
        /\ content # << >> =>
             /\ a.json
             /\ a.body = SampleBody(doc.components, content[1], Vals(rt[1], r.path))
    <3> DEFINE rt2 == Match(Compile(doc.paths), ask.method, ask.path)
               op2 == doc.paths[rt2[1].path][rt2[1].method]
               a2 == Answer(doc, Compile(doc.paths), opts, ask)
               content2 == op2.responses[a2.status].content
    <3>1. rt2 = rt
      BY <2>7
    <3>2. op2 = op
      BY <3>1
    <3> HIDE DEF rt2, op, op2
    <3>3. ask.method # "OPTIONS" /\ rt2 # << >>
      BY <2>2, <2>5, <3>1
    <3>4. IsOperation(op2) /\ DOMAIN op2.responses # {0}
      BY <2>2, <2>3, <3>2
    <3>5. opts.enforceAuth => AuthCheck(doc, op2, ask)
      BY <2>2, <2>6, <3>2
    <3>6. ask.status # 0 => ask.status \in DOMAIN op2.responses
      BY <2>4, <2>5, <3>2
    <3>7. /\ a2.status \in DOMAIN op2.responses
          /\ content2 # << >> =>
               /\ a2.json
               /\ a2.body = SampleBody(doc.components, content2[1], Vals(rt2[1], ask.path))
      <4> HIDE DEF routes, a, content, a2, content2
      <4> QED
        BY <2>1, <3>3, <3>4, <3>5, <3>6, MockAnswersAsDocumented
           DEF rt2, op2, a2, content2
    <3>8. a2 = a /\ content2 = content
      BY <3>2
    <3> HIDE DEF a, content, a2, content2, routes
    <3> QED
      BY <2>5, <3>1, <3>2, <3>7, <3>8
  <2>c. content \in Contents(rt[1].path, r.method)
    <3>1. op = doc.paths[rt[1].path][r.method]
      BY <2>3
    <3>2. content \in ServedBy(doc, rt[1].path, r.method)
      BY <2>3, <2>8, <3>1 DEF ServedBy
    <3>3. rt[1].path \in DOMAIN doc.paths /\ r.method \in DOMAIN doc.paths[rt[1].path]
      BY <2>3 DEF HasOp, MethodsOf
    <3> HIDE DEF content
    <3> QED
      BY <2>1, <3>2, <3>3 DEF Known
  <2> HIDE DEF op, a, content, routes
  <2>9. Findings(doc, routes, ask, a) =
           IF rt = << >> THEN Noted("undocumented-endpoint", {<< >>})
           ELSE IF a.status \notin DOMAIN op.responses THEN Noted("undocumented-status", {<< >>})
           ELSE IF content = << >> THEN {}
           ELSE IF ~ a.json THEN Noted("content-type", {<< >>})
           ELSE IF ~ Parses(a.body) THEN Noted("shape", {<< >>})
           ELSE Noted("shape", Problems(doc.components, content[1], a.body)) \cup
                Noted("undocumented-field", Unmentioned(doc.components, content[1], a.body))
    BY <2>7 DEF Findings, op, content
  <2>10. Findings(doc, routes, ask, a) =
           IF content = << >> THEN {}
           ELSE Judged(doc.components, content[1],
                       SampleBody(doc.components, content[1], Vals(rt[1], r.path)))
    BY <2>2, <2>8, <2>9 DEF Judged
  <2> QED
    BY <2>8, <2>c, <2>10 DEF rt, op, a, content, routes
<1>2. DocumentsInv => MockIsJudgedBySamples
  BY <1>1 DEF MockIsJudgedBySamples
<1> QED
  BY <1>2, Invariance, PTL
=============================================================================
