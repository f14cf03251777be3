--------------------------- MODULE CaptureProofs ---------------------------
(***************************************************************************)
(* Proofs about Capture: its type invariant, that what it keeps is the     *)
(* beginning of what the client received, and that without a 1xx it holds  *)
(* the status the client got, for any chunks, statuses and maxBody.        *)
(***************************************************************************)
EXTENDS Capture, SequenceTheorems, TLAPS

Byte == {"x", "y"}

(* What capture.Write does to the two bodies. *)
Extends(chunk) ==
    /\ kept' = IF KeepsChunk(chunk) THEN kept \o chunk ELSE kept
    /\ received' = received \o chunk

(* Until the target answers the client has only what a 1xx sent; once it   *)
(* has answered, the writer holds what net/http committed.                 *)
StatusFollows ==
    /\ phase = "waiting" /\ informed = 0 => ~ wroteHeader /\ committed = Nothing
    /\ phase \in {"waiting", "failing", "tunnel"} => answer = Nothing
    /\ answer # Nothing =>
          answer \in FinalStatuses /\ (informed = 0 => committed = answer /\ status = answer)

IInv == TypeOK /\ KeptIsTheBeginning /\ StatusFollows

(* The beginning of a sequence stays the beginning when it grows. *)
LEMMA BeginningStays ==
    ASSUME NEW S, NEW s \in Seq(S), NEW t \in Seq(S), NEW n \in 0..Len(s)
    PROVE  SubSeq(s \o t, 1, n) = SubSeq(s, 1, n)
<1>0. Len(s) \in Nat
  BY LenProperties
<1>1. CASE n = 0
  BY <1>1, SubSeqEmpty
<1>2. CASE n # 0
  <2>1. n \in 1..Len(s) /\ 1 \in 1..Len(s)
    BY <1>0, <1>2
  <2> QED
    BY <2>1, SubSeqOfConcat1
<1> QED
  BY <1>1, <1>2

(* A final status is not one of the informational ones, nor none at all. *)
LEMMA StatusesDiffer ==
    /\ FinalStatuses \cap Informational = {}
    /\ Nothing \notin Statuses
    /\ BadGateway \notin Informational
    /\ FinalStatuses \subseteq Statuses /\ Informational \subseteq Statuses
    /\ OK \in Statuses /\ BadGateway \in Statuses
BY CaptureAssumption DEF Nothing, BadGateway, OK, Statuses

(* A write keeps the types of both bodies, and what was kept the beginning *)
(* of what was received.                                                   *)
LEMMA WriteKeepsBeginning ==
    ASSUME TypeOK, KeptIsTheBeginning, NEW chunk \in Chunks, Extends(chunk)
    PROVE  /\ kept' \in Seq(Byte) /\ received' \in Seq(Byte)
           /\ kept' = << >> \/ \E c \in Chunks : Len(kept') < MaxBody + Len(c)
           /\ KeptIsTheBeginning'
<1>1. /\ kept \in Seq(Byte) /\ received \in Seq(Byte) /\ chunk \in Seq(Byte)
      /\ MaxBody \in Nat /\ Len(chunk) \in Nat \ {0}
  BY CaptureAssumption DEF TypeOK, Byte
<1>2. Len(kept) \in Nat /\ Len(received) \in Nat
  BY <1>1
<1>3. /\ received \o chunk \in Seq(Byte) /\ kept \o chunk \in Seq(Byte)
      /\ Len(received \o chunk) = Len(received) + Len(chunk)
      /\ Len(kept \o chunk) = Len(kept) + Len(chunk)
  BY <1>1, ConcatProperties
<1>4. /\ Len(kept) <= Len(received) /\ kept = SubSeq(received, 1, Len(kept))
      /\ kept # received => Len(kept) >= MaxBody /\ Len(received) > MaxBody
  BY DEF KeptIsTheBeginning
<1>5. received' = received \o chunk
  BY DEF Extends
<1>6. CASE Len(kept) < MaxBody
  <2>1. kept = received
    BY <1>1, <1>2, <1>4, <1>6
  <2>2. kept' = kept \o chunk
    BY <1>6 DEF Extends, KeepsChunk
  <2>3. kept' = received' /\ Len(kept') = Len(received')
    BY <1>5, <2>1, <2>2
  <2>4. kept' = SubSeq(received', 1, Len(kept'))
    BY <1>3, <1>5, <2>3, SubSeqFull
  <2>5. Len(kept') < MaxBody + Len(chunk)
    BY <1>1, <1>2, <1>3, <1>6, <2>2
  <2>6. Len(kept') <= Len(received')
    BY <1>1, <1>2, <1>3, <2>2, <2>3
  <2> QED
    BY <1>3, <1>5, <2>2, <2>3, <2>4, <2>5, <2>6 DEF KeptIsTheBeginning
<1>7. CASE ~ Len(kept) < MaxBody
  <2>1. kept' = kept
    BY <1>7 DEF Extends, KeepsChunk
  <2>2. Len(kept) \in 0..Len(received)
    BY <1>2, <1>4
  <2>3. SubSeq(received \o chunk, 1, Len(kept)) = SubSeq(received, 1, Len(kept))
    BY <1>1, <2>2, BeginningStays
  <2>4. Len(kept) <= Len(received') /\ Len(kept) >= MaxBody /\ Len(received') > MaxBody
    BY <1>1, <1>2, <1>3, <1>4, <1>5, <1>7
  <2>5. kept' = << >> \/ \E c \in Chunks : Len(kept') < MaxBody + Len(c)
    BY <2>1 DEF TypeOK
  <2> QED
    BY <1>1, <1>3, <1>4, <1>5, <2>1, <2>3, <2>4, <2>5 DEF KeptIsTheBeginning
<1> QED
  BY <1>6, <1>7

LEMMA InitIInv == Init => IInv
<1> SUFFICES ASSUME Init PROVE IInv
  OBVIOUS
<1>1. TypeOK
  <2>1. kept \in Seq({"x", "y"}) /\ received \in Seq({"x", "y"})
    BY EmptySeq DEF Init
  <2>2. informed \in 0..MaxInformational
    BY CaptureAssumption DEF Init
  <2> QED
    BY <2>1, <2>2, StatusesDiffer DEF Init, TypeOK
<1>2. SubSeq(received, 1, Len(kept)) = << >>
  BY SubSeqEmpty DEF Init
<1>3. KeptIsTheBeginning
  BY <1>2 DEF Init, KeptIsTheBeginning
<1>4. StatusFollows
  BY DEF Init, StatusFollows
<1> QED
  BY <1>1, <1>3, <1>4 DEF IInv

(* capture.WriteHeader keeps the types, and what it passes on to net/http  *)
(* is what it remembers unless a 1xx went before.                          *)
LEMMA WriteHeaderType ==
    ASSUME TypeOK, NEW code \in Statuses, WriteHeader(code), informed' \in 0..MaxInformational
    PROVE  /\ wroteHeader' \in BOOLEAN /\ status' \in Statuses
           /\ committed' \in Statuses \cup {Nothing}
           /\ kept' = kept /\ received' = received
BY DEF TypeOK, WriteHeader, NetWriteHeader

LEMMA NextIInv ==
    ASSUME IInv, [Next]_vars
    PROVE  IInv'
<1>a. TypeOK /\ KeptIsTheBeginning /\ StatusFollows
  BY DEF IInv
<1>b. informed \in Nat /\ informed <= MaxInformational /\ MaxInformational \in Nat
  BY <1>a, CaptureAssumption DEF TypeOK
<1>1. CASE UNCHANGED vars
  BY <1>a, <1>1 DEF vars, IInv, TypeOK, KeptIsTheBeginning, StatusFollows
<1>2. CASE \E code \in Informational : Inform(code)
  <2> PICK code \in Informational : Inform(code)
    BY <1>2
  <2>1. code \in Statuses
    BY StatusesDiffer
  <2>2. informed' \in 0..MaxInformational
    BY <1>b DEF Inform, WriteHeader, NetWriteHeader
  <2>3. TypeOK'
    BY <1>a, <2>1, <2>2, WriteHeaderType DEF Inform, TypeOK
  <2>4. KeptIsTheBeginning'
    BY <1>a, <2>1, <2>2, WriteHeaderType DEF Inform, KeptIsTheBeginning
  <2>5. informed' # 0
    BY <1>a, <1>b DEF StatusFollows, Inform, WriteHeader, NetWriteHeader
  <2>6. StatusFollows'
    BY <1>a, <2>5 DEF StatusFollows, Inform
  <2> QED
    BY <2>3, <2>4, <2>6 DEF IInv
<1>3. CASE \E code \in FinalStatuses : Answer(code)
  <2> PICK code \in FinalStatuses : Answer(code)
    BY <1>3
  <2>1. code \in Statuses /\ code \notin Informational
    BY StatusesDiffer
  <2>2. informed' = informed
    BY <2>1 DEF Answer, WriteHeader, NetWriteHeader
  <2>3. informed = 0 => committed' = code /\ status' = code
    BY <1>a, <2>1 DEF StatusFollows, Answer, WriteHeader, NetWriteHeader
  <2>4. TypeOK'
    BY <1>a, <1>b, <2>1, <2>2, WriteHeaderType DEF Answer, TypeOK
  <2>5. KeptIsTheBeginning'
    BY <1>a, <1>b, <2>1, <2>2, WriteHeaderType DEF Answer, KeptIsTheBeginning
  <2>6. StatusFollows'
    BY <2>2, <2>3 DEF StatusFollows, Answer
  <2> QED
    BY <2>4, <2>5, <2>6 DEF IInv
<1>4. CASE \E chunk \in Chunks : Copy(chunk) \/ ErrorBody(chunk)
  <2> PICK chunk \in Chunks : Copy(chunk) \/ ErrorBody(chunk)
    BY <1>4
  <2>1. Extends(chunk)
    BY DEF Copy, ErrorBody, Write, NetWrite, Extends
  <2>2. /\ kept' \in Seq(Byte) /\ received' \in Seq(Byte)
        /\ kept' = << >> \/ \E c \in Chunks : Len(kept') < MaxBody + Len(c)
        /\ KeptIsTheBeginning'
    BY <1>a, <2>1, WriteKeepsBeginning
  <2>3. /\ wroteHeader' = TRUE /\ UNCHANGED <<status, informed, answer>>
        /\ committed' = IF committed = Nothing THEN OK ELSE committed
        /\ phase' \in {"copying", "returned"}
    BY DEF Copy, ErrorBody, Write, NetWrite
  <2>4. TypeOK'
    BY <1>a, <2>2, <2>3, StatusesDiffer DEF TypeOK, Byte
  <2>5. StatusFollows'
    BY <1>a, <2>3, StatusesDiffer DEF StatusFollows
  <2> QED
    BY <2>2, <2>4, <2>5 DEF IInv
<1>5. CASE ErrorStatus
  <2>1. BadGateway \in Statuses /\ BadGateway \notin Informational
    BY StatusesDiffer
  <2>2. informed' = informed
    BY <1>5, <2>1 DEF ErrorStatus, WriteHeader, NetWriteHeader
  <2>3. TypeOK'
    BY <1>a, <1>b, <1>5, <2>1, <2>2, WriteHeaderType DEF ErrorStatus, TypeOK
  <2>4. KeptIsTheBeginning'
    BY <1>a, <1>b, <1>5, <2>1, <2>2, WriteHeaderType DEF ErrorStatus, KeptIsTheBeginning
  <2>5. StatusFollows'
    BY <1>a, <1>5 DEF StatusFollows, ErrorStatus
  <2> QED
    BY <2>3, <2>4, <2>5 DEF IInv
<1>6. CASE Upgrade \/ Unwrap
  BY <1>a, <1>6 DEF Upgrade, Unwrap, IInv, TypeOK, KeptIsTheBeginning, StatusFollows
<1>7. CASE Return
  <2>1. TypeOK'
    BY <1>a, <1>7, StatusesDiffer DEF Return, TypeOK
  <2>2. KeptIsTheBeginning'
    BY <1>a, <1>7 DEF Return, KeptIsTheBeginning
  <2>3. StatusFollows'
    BY <1>a, <1>7, StatusesDiffer DEF Return, StatusFollows
  <2> QED
    BY <2>1, <2>2, <2>3 DEF IInv
<1> QED
  BY <1>1, <1>2, <1>3, <1>4, <1>5, <1>6, <1>7 DEF Next

LEMMA Invariance == Spec => []IInv
<1>1. Init => IInv
  BY InitIInv
<1>2. IInv /\ [Next]_vars => IInv'
  BY NextIInv
<1> QED
  BY <1>1, <1>2, PTL DEF Spec

(* capture's state is what its types say; in particular its buffer runs    *)
(* over maxBody by less than one chunk.                                    *)
THEOREM TypeCorrect == Spec => []TypeOK
<1>1. IInv => TypeOK
  BY DEF IInv
<1> QED
  BY <1>1, Invariance, PTL

(* However the target cuts its answer into writes, what the checker judges *)
(* is the beginning of what the client received, and all of it unless it   *)
(* was longer than maxBody.                                                *)
THEOREM BodyIsTheBeginning == Spec => []KeptIsTheBeginning
<1>1. IInv => KeptIsTheBeginning
  BY DEF IInv
<1> QED
  BY <1>1, Invariance, PTL

(* An exchange without a 1xx is judged by the status line the client got,  *)
(* and that is the target's.                                               *)
THEOREM PlainStatusIsExact == Spec => []PlainAnswersAreExact
<1>1. IInv => PlainAnswersAreExact
  BY DEF IInv, StatusFollows, PlainAnswersAreExact
<1> QED
  BY <1>1, Invariance, PTL
=============================================================================
