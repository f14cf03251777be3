-------------------------- MODULE GrpcStreamProofs --------------------------
(***************************************************************************)
(* Proofs about GrpcStream: its type invariant, that nothing follows the   *)
(* end frame and nobody sends on the closed channel, and that a call that  *)
(* was not cut short accounts to the client for everything once.           *)
(***************************************************************************)
EXTENDS GrpcStream, FiniteSetTheorems, FunctionTheorems, SequenceTheorems, TLAPS

One(b) == IF b THEN 1 ELSE 0
Is(x, y) == IF x = y THEN 1 ELSE 0
Has(x) == IF x = None THEN 0 ELSE 1

(* How often a frame is in a sequence of them. *)
Count(s, type) == Cardinality({i \in DOMAIN s : s[i] = type})

(* Counting in a sequence that grows or loses its head. *)
LEMMA CountType ==
    ASSUME NEW S, NEW s \in Seq(S), NEW type
    PROVE  IsFiniteSet({i \in DOMAIN s : s[i] = type}) /\ Count(s, type) \in Nat
<1>1. DOMAIN s = 1..Len(s) /\ Len(s) \in Int
  BY LenProperties
<1>2. IsFiniteSet(1..Len(s))
  BY <1>1, FS_Interval
<1>3. IsFiniteSet({i \in DOMAIN s : s[i] = type})
  BY <1>1, <1>2, FS_Subset
<1> QED
  BY <1>3, FS_CardinalityType DEF Count

LEMMA CountAppend ==
    ASSUME NEW S, NEW s \in Seq(S), NEW x \in S, NEW type
    PROVE  Count(Append(s, x), type) = Count(s, type) + Is(x, type)
<1> DEFINE before == {i \in DOMAIN s : s[i] = type}
           t == Append(s, x)
           after == {i \in DOMAIN t : t[i] = type}
<1>1. /\ Len(s) \in Nat /\ DOMAIN s = 1..Len(s) /\ DOMAIN t = 1..(Len(s) + 1)
      /\ \A i \in 1..Len(s) : t[i] = s[i]
      /\ t[Len(s) + 1] = x
  BY AppendProperties, LenProperties
<1>2. IsFiniteSet(before) /\ Cardinality(before) \in Nat
  BY CountType DEF Count
<1>3. CASE x = type
  <2>1. after = before \cup {Len(s) + 1} /\ Len(s) + 1 \notin before
    BY <1>1, <1>3
  <2>2. Cardinality(after) = Cardinality(before) + 1
    BY <1>2, <2>1, FS_AddElement
  <2> QED
    BY <1>3, <2>2 DEF Count, Is
<1>4. CASE x # type
  <2>1. after = before
    BY <1>1, <1>4
  <2>2. Cardinality(after) = Cardinality(before)
    BY <2>1
  <2>3. Is(x, type) = 0
    BY <1>4 DEF Is
  <2>4. Count(t, type) = Cardinality(after) /\ Count(s, type) = Cardinality(before)
    BY DEF Count
  <2> HIDE DEF before, after
  <2> QED
    BY <1>2, <2>2, <2>3, <2>4
<1> QED
  BY <1>3, <1>4

LEMMA CountTail ==
    ASSUME NEW S, NEW s \in Seq(S), s # << >>, NEW type
    PROVE  Count(s, type) = Count(Tail(s), type) + Is(Head(s), type)
<1> DEFINE t == Tail(s)
           all == {i \in DOMAIN s : s[i] = type}
           rest == {i \in DOMAIN t : t[i] = type}
           later == {i \in 2..Len(s) : s[i] = type}
           shift == [i \in rest |-> i + 1]
<1>1. /\ Len(s) \in Nat \ {0} /\ DOMAIN s = 1..Len(s) /\ DOMAIN t = 1..(Len(s) - 1)
      /\ \A i \in 1..(Len(s) - 1) : t[i] = s[i + 1]
      /\ Head(s) = s[1]
  <2>1. t \in Seq(S) /\ Len(t) = Len(s) - 1 /\ \A i \in 1..Len(t) : t[i] = s[i + 1]
    BY HeadTailProperties
  <2> QED
    BY <2>1, EmptySeq, LenProperties
<1>2. IsFiniteSet(rest)
  BY HeadTailProperties, CountType
<1>3. Cardinality(later) = Cardinality(rest) /\ IsFiniteSet(later)
  <2>1. shift \in [rest -> later]
    BY <1>1
  <2>2. \A a, b \in rest : shift[a] = shift[b] => a = b
    BY <1>1
  <2>3. \A j \in later : \E i \in rest : shift[i] = j
    <3> TAKE j \in later
    <3>1. j - 1 \in rest /\ shift[j - 1] = j
      BY <1>1
    <3> QED
      BY <3>1
  <2>4. shift \in Bijection(rest, later)
    BY <2>1, <2>2, <2>3, Fun_IsBij
  <2> QED
    BY <1>2, <2>4, FS_Bijection, Fun_ExistsBij
<1>4. Cardinality(later) \in Nat
  BY <1>3, FS_CardinalityType
<1>5. CASE Head(s) = type
  <2>1. all = later \cup {1} /\ 1 \notin later
    BY <1>1, <1>5
  <2>2. Cardinality(all) = Cardinality(later) + 1
    BY <1>3, <2>1, FS_AddElement
  <2> QED
    BY <1>3, <1>5, <2>2 DEF Count, Is
<1>6. CASE Head(s) # type
  <2>1. all = later
    BY <1>1, <1>6
  <2>2. Cardinality(all) = Cardinality(later)
    BY <2>1
  <2>3. Is(Head(s), type) = 0
    BY <1>6 DEF Is
  <2>4. Count(s, type) = Cardinality(all) /\ Count(t, type) = Cardinality(rest)
    BY DEF Count
  <2> HIDE DEF all, rest, later
  <2> QED
    BY <1>3, <1>4, <2>2, <2>3, <2>4
<1> QED
  BY <1>5, <1>6

---------------------------------------------------------------------------
(* The inductive invariant. *)

(* The types, without the bound on what the client was sent: that one      *)
(* follows from counting frames.                                           *)
Typed ==
    /\ kind \in {"bidi", "first"}
    /\ main \in {"init", "open", "wait", "error", "end", "close", "drain", "returned"}
    /\ invoke \in {"off", "requests", "receive", "trailers", "join", "returned"}
    /\ feed \in {"off", "reading", "sending", "done"}
    /\ reader \in {"off", "read", "data", "newline", "done"}
    /\ writer \in {"off", "range", "write", "done", "failed"}
    /\ watcher \in {"off", "waiting", "done"}
    /\ pipe \in {"open", "closed"}
    /\ ctx \in BOOLEAN /\ conn \in BOOLEAN /\ closed \in BOOLEAN
    /\ over \in BOOLEAN /\ fault \in BOOLEAN
    /\ queue \in Seq(Frames) /\ Len(queue) <= Buffer
    /\ parked \in [Senders -> Frames \cup {None}]
    /\ writing \in Frames \cup {None} /\ (writing # None <=> writer = "write")
    /\ wire \in Seq(Frames)
    /\ received \in [Answers -> 0..MaxMessages]
    /\ received["message"] + received["error"] <= MaxMessages
    /\ sends \in 0..MaxSends

(* Before the first frame was read nothing has begun. *)
Untouched ==
    main = "init" =>
        /\ invoke = "off" /\ writer = "off" /\ ~ closed
        /\ queue = << >> /\ wire = << >>
        /\ \A answer \in Answers : received[answer] = 0
        /\ \A s \in Senders : Quiet(s)

(* Stream goes on only when the invocation is over and has sent its last,  *)
(* and closes the channel only when it has sent its own last.              *)
Turns ==
    /\ main \in {"error", "end", "close", "drain"} => invoke = "returned"
    /\ main = "returned" => invoke \in {"off", "returned"}
    /\ main \in {"error", "end", "close", "drain", "returned"} => Quiet("invoke")
    /\ main = "drain" => closed
    /\ closed => main \in {"drain", "returned"} /\ invoke = "returned"
    /\ main \in {"drain", "returned"} => Quiet("main")
    /\ writer = "done" => closed /\ queue = << >>

(* Whether the call failed is settled before its outcome is sent.          *)
Outcome ==
    /\ fault => feed = "done"
    /\ invoke = "off" => feed = "off"
    /\ invoke = "returned" => feed = "done"
    /\ invoke = "trailers" => ~ fault
    /\ main = "error" => fault

(* "end" is the last of all frames on their way: nothing is behind it.     *)
Ending == {"close", "drain", "returned"}
EndComesLast ==
    /\ \A i \in 1..Len(wire) : wire[i] = "end" =>
          i = Len(wire) /\ writing = None /\ queue = << >> /\ Quiet("main") /\ main \in Ending
    /\ writing = "end" => queue = << >> /\ Quiet("main") /\ main \in Ending
    /\ \A i \in 1..Len(queue) : queue[i] = "end" =>
          i = Len(queue) /\ Quiet("main") /\ main \in Ending
    /\ parked["main"] = "end" => main \in Ending
    /\ parked["invoke"] # "end"

(* The frames that were sent, wherever they are now, and those that the    *)
(* two senders have sent by now.                                           *)
Parked(type) == Is(parked["main"], type) + Is(parked["invoke"], type)
Total(type) ==
    Count(wire, type) + Count(queue, type) + Is(writing, type) + Parked(type)

Sent(type) ==
    CASE type = "open" -> One(main \notin {"init", "open"})
      [] type = "message" -> received["message"]
      [] type = "status" -> One(invoke \in {"join", "returned"} /\ ~ fault)
      [] type = "error" ->
            received["error"] + One(fault /\ main \in {"end", "close", "drain", "returned"})
      [] type = "end" -> One(main \in {"close", "drain", "returned"})

NothingLost == ~ ctx => \A type \in Frames : Total(type) = Sent(type)

(* Cut short or not, no frame comes from nowhere.                          *)
Waiting == Has(parked["main"]) + Has(parked["invoke"])
Length == Len(wire) + Len(queue) + Has(writing) + Waiting
AllSent == Sent("open") + Sent("message") + Sent("status") + Sent("error") + Sent("end")
Bounded == Length <= AllSent

IInv ==
    /\ Typed /\ Untouched /\ Turns /\ Outcome /\ EndComesLast /\ NothingLost /\ Bounded

---------------------------------------------------------------------------
(* The types are kept.  *)
LEMMA TryTyped ==
    ASSUME Typed, NEW s \in Senders, NEW frame \in Frames, Try(s, frame)
    PROVE  /\ queue' \in Seq(Frames) /\ Len(queue') <= Buffer
           /\ parked' \in [Senders -> Frames \cup {None}]
           /\ closed' = closed
<1>1. Len(Append(queue, frame)) = Len(queue) + 1 /\ Append(queue, frame) \in Seq(Frames)
  BY AppendProperties DEF Typed
<1>2. Len(queue) \in Nat
  BY LenProperties DEF Typed
<1>3. queue' \in Seq(Frames) /\ Len(queue') <= Buffer
  <2>1. CASE Len(queue) < Buffer
    <3>1. queue' = Append(queue, frame)
      BY <2>1 DEF Try
    <3> QED
      BY <1>1, <1>2, <2>1, <3>1, StreamAssumption
  <2>2. CASE ~ (Len(queue) < Buffer)
    BY <2>2 DEF Try, Typed
  <2> QED
    BY <2>1, <2>2
<1>4. parked' \in [Senders -> Frames \cup {None}]
  BY DEF Typed, Try
<1> QED
  BY <1>3, <1>4 DEF Try

LEMMA NextTyped == ASSUME Typed, Untouched, [Next]_vars PROVE Typed'
<1> USE DEF Typed
<1>1. CASE Reject
  <2>1. PICK told \in {<<"error", "end">>, << >>} : wire' = told
    BY <1>1 DEF Reject
  <2>2. <<"error", "end">> \in Seq(Frames) /\ << >> \in Seq(Frames)
    BY DEF Frames
  <2>3. wire' \in Seq(Frames)
    BY <2>1, <2>2
  <2>4. ctx' \in BOOLEAN /\ conn' \in BOOLEAN
    BY <1>1 DEF Reject
  <2>5. UNCHANGED <<kind, invoke, feed, reader, writer, watcher, pipe, queue, closed, parked,
                    writing, over, fault, received, sends>> /\ main' = "returned"
    BY <1>1 DEF Reject, channel
  <2> QED
    BY <2>3, <2>4, <2>5
<1>2. CASE Start \/ StartReading \/ Finish \/ CloseQueue \/ Return
  <2>1. CASE Start \/ StartReading \/ Finish
    <3>1. Start => Typed'
      BY DEF Start, Untouched, world, channel
    <3>2. StartReading => Typed'
      BY DEF StartReading, world, channel
    <3>3. Finish => Typed'
      BY DEF Finish, channel
    <3> QED
      BY <2>1, <3>1, <3>2, <3>3
  <2>2. CASE CloseQueue
    <3>1. closed' \in BOOLEAN
      BY <2>2 DEF CloseQueue
    <3> QED
      BY <2>2, <3>1 DEF CloseQueue, world
  <2>3. CASE Return
    <3>1. ctx' \in BOOLEAN /\ conn' \in BOOLEAN
      BY <2>3 DEF Return
    <3>2. UNCHANGED <<kind, invoke, feed, reader, writer, watcher, pipe, queue, closed,
                      parked, writing, wire, over, fault, received, sends>>
          /\ main' = "returned"
      BY <2>3 DEF Return, channel
    <3> QED
      BY <3>1, <3>2
  <2> QED
    BY <1>2, <2>1, <2>2, <2>3
<1>3. ASSUME NEW frame \in Frames, NEW s \in Senders, Try(s, frame),
             UNCHANGED <<kind, ctx, feed, reader, writer, watcher, pipe, conn, over, fault,
                         sends, writing, wire>>,
             \/ main' \in {"wait", "end", "close"} /\ UNCHANGED <<invoke, received>>
             \/ invoke' = "join" /\ UNCHANGED <<main, received>>
             \/ /\ Responses < MaxMessages
                /\ \E answer \in Answers : received' = [received EXCEPT ![answer] = @ + 1]
                /\ UNCHANGED <<main, invoke>>
      PROVE  Typed'
  <2>1. /\ received' \in [Answers -> 0..MaxMessages]
        /\ received'["message"] + received'["error"] <= MaxMessages
    <3>1. CASE UNCHANGED received
      BY <3>1
    <3>2. ASSUME Responses < MaxMessages, NEW answer \in Answers,
                 received' = [received EXCEPT ![answer] = @ + 1]
          PROVE  /\ received' \in [Answers -> 0..MaxMessages]
                 /\ received'["message"] + received'["error"] <= MaxMessages
      <4>1. received["message"] \in Nat /\ received["error"] \in Nat /\ MaxMessages \in Nat
        BY StreamAssumption DEF Answers
      <4>2. \A a \in Answers : received'[a] = IF a = answer THEN received[a] + 1 ELSE received[a]
        BY <3>2
      <4>3. received'["message"] + received'["error"] = Responses + 1
        BY <3>2, <4>1, <4>2 DEF Responses, Answers
      <4>4. \A a \in Answers : received'[a] \in 0..MaxMessages
        BY <3>2, <4>1, <4>2, <4>3 DEF Responses, Answers
      <4> QED
        BY <3>2, <4>1, <4>3, <4>4 DEF Responses
    <3> QED
      BY <1>3, <3>1, <3>2
  <2> QED
    BY <1>3, <2>1, TryTyped
<1>4. CASE SendOpen \/ SendError \/ SendEnd
  <2>1. {"open", "error", "end"} \subseteq Frames /\ "main" \in Senders
    BY DEF Frames, Senders
  <2> QED
    BY <1>3, <1>4, <2>1 DEF SendOpen, SendError, SendEnd, world
<1>5. CASE OnReceiveResponse \/ OnReceiveTrailers
  <2>1. Answers \subseteq Frames /\ "status" \in Frames /\ "invoke" \in Senders
    BY DEF Answers, Frames, Senders
  <2> QED
    BY <1>3, <1>5, <2>1 DEF OnReceiveResponse, OnReceiveTrailers, world
<1>6. ASSUME NEW s \in Senders, Push(s) PROVE Typed'
  <2>1. parked[s] \in Frames /\ Len(queue) \in Nat /\ Len(queue) < Buffer
    BY <1>6, LenProperties DEF Push, Quiet
  <2>2. queue' \in Seq(Frames) /\ Len(queue') = Len(queue) + 1
    BY <1>6, <2>1, AppendProperties DEF Push
  <2>3. Len(queue') <= Buffer
    BY <2>1, <2>2, StreamAssumption
  <2> QED
    BY <1>6, <2>2, <2>3 DEF Push, world
<1>7. ASSUME NEW s \in Senders, Drop(s) PROVE Typed'
  BY <1>7 DEF Drop, world
<1>8. CASE Take
  <2>1. Head(queue) \in Frames /\ Tail(queue) \in Seq(Frames) /\ Len(Tail(queue)) = Len(queue) - 1
    BY <1>8, HeadTailProperties DEF Take
  <2>2. Len(queue') <= Buffer
    BY <1>8, <2>1, StreamAssumption, LenProperties DEF Take
  <2> QED
    BY <1>8, <2>1, <2>2, NoneAssumption DEF Take, world
<1>9. CASE Written
  <2>1. wire' \in Seq(Frames)
    BY <1>9, AppendProperties DEF Written
  <2> QED
    BY <1>9, <2>1 DEF Written, world, channel
<1>10. CASE WriteFails \/ RangeEnds
  BY <1>10 DEF WriteFails, RangeEnds, world, channel
<1>11. CASE Reader
  <2>1. CASE ReadSend
    <3>1. sends' \in 0..MaxSends
      BY <2>1, StreamAssumption DEF ReadSend
    <3> QED
      BY <2>1, <3>1 DEF ReadSend, channel
  <2> QED
    BY <1>11, <2>1
       DEF Reader, ReadHalfClose, StopReading, WriteRefused, world, channel
<1>12. CASE Timeout \/ Watch
  BY <1>12 DEF Timeout, Watch, world, channel
<1>13. CASE Feed \/ RequestSent
  <2>1. CASE BadRequest
    <3>1. fault' \in BOOLEAN
      BY <2>1 DEF BadRequest
    <3> QED
      BY <2>1, <3>1 DEF BadRequest, channel
  <2> QED
    BY <1>13, <2>1 DEF Feed, RequestSent, TakeData, TakeNewline, EndOfRequests, world, channel
<1>14. CASE ServerEnds \/ RequestsRead \/ NoMoreResponses \/ Joined
  BY <1>14 DEF ServerEnds, RequestsRead, NoMoreResponses, Joined, world, channel
<1>15. CASE UNCHANGED vars
  BY <1>15 DEF vars
<1> QED
  BY <1>1, <1>2, <1>4, <1>5, <1>6, <1>7, <1>8, <1>9, <1>10, <1>11, <1>12, <1>13, <1>14, <1>15
     DEF Next, Main, Writer, Invoke, Senders

---------------------------------------------------------------------------
(* The turns are kept: who may still send is settled by where Stream and   *)
(* the invocation stand.                                                   *)
Control == Untouched /\ Turns /\ Outcome

LEMMA NextControl == ASSUME Typed, Control, [Next]_vars PROVE Control'
<1> USE DEF Control, Untouched, Turns, Outcome, Quiet
<1>0. "main" \in Senders /\ "invoke" \in Senders /\ Senders = {"main", "invoke"}
  BY DEF Senders
<1>1. parked \in [Senders -> Frames \cup {None}] /\ fault \in BOOLEAN
  BY DEF Typed
<1>2. CASE Reject
  BY <1>0, <1>2 DEF Reject, channel
<1>3. CASE Start
  BY <1>3 DEF Start, world, channel
<1>4. CASE StartReading \/ CloseQueue \/ Return
  BY <1>4 DEF StartReading, CloseQueue, Return, world, channel
<1>5. CASE Finish
  BY <1>5 DEF Finish, InvokeDone, Failed, channel
<1>6. CASE SendOpen \/ SendError \/ SendEnd
  BY <1>0, <1>1, <1>6 DEF SendOpen, SendError, SendEnd, Try, world
<1>7. CASE OnReceiveResponse \/ OnReceiveTrailers
  BY <1>0, <1>1, <1>7 DEF OnReceiveResponse, OnReceiveTrailers, Try, world
<1>8. ASSUME NEW s \in Senders, Push(s) PROVE Control'
  BY <1>0, <1>1, <1>8 DEF Push, world
<1>9. ASSUME NEW s \in Senders, Drop(s) PROVE Control'
  BY <1>0, <1>1, <1>9 DEF Drop, world
<1>10. CASE Take \/ Written
  BY <1>10 DEF Take, Written, world, channel
<1>11. CASE WriteFails \/ RangeEnds
  BY <1>11 DEF WriteFails, RangeEnds, world, channel
<1>12. CASE Reader
  BY <1>12 DEF Reader, ReadSend, ReadHalfClose, StopReading, WriteRefused, world, channel
<1>13. CASE Timeout \/ Watch
  BY <1>13 DEF Timeout, Watch, world, channel
<1>14. CASE TakeData \/ TakeNewline \/ EndOfRequests \/ RequestSent
  BY <1>14 DEF RequestSent, TakeData, TakeNewline, EndOfRequests, world, channel
<1>15. CASE BadRequest
  <2>1. invoke # "off" /\ main # "init"
    BY <1>15 DEF BadRequest
  <2>2. invoke # "returned" /\ main # "error"
    BY <1>15 DEF BadRequest
  <2>3. invoke = "trailers" => ~ fault'
    BY <1>15 DEF BadRequest
  <2> QED
    BY <1>15, <2>1, <2>2, <2>3 DEF BadRequest, channel
<1>16. CASE ServerEnds \/ RequestsRead \/ NoMoreResponses \/ Joined
  BY <1>16 DEF ServerEnds, RequestsRead, NoMoreResponses, Joined, world, channel
<1>17. CASE UNCHANGED vars
  BY <1>17 DEF vars
<1> QED
  BY <1>0, <1>2, <1>3, <1>4, <1>5, <1>6, <1>7, <1>8, <1>9, <1>10, <1>11, <1>12, <1>13, <1>14,
     <1>15, <1>16, <1>17
     DEF Next, Main, Writer, Invoke, Feed

---------------------------------------------------------------------------
(* Nothing follows the end frame.  A sender that sends anything finds no   *)
(* end frame on its way: Stream has not come that far.                     *)
LEMMA CalmEnd ==
    ASSUME Typed, EndComesLast,
           UNCHANGED <<wire, queue, writing, parked>>, main \in Ending => main' \in Ending
    PROVE  EndComesLast'
BY DEF EndComesLast, Quiet, Ending

LEMMA TryEnd ==
    ASSUME Typed, Turns, EndComesLast, main \notin Ending,
           NEW s \in Senders, NEW frame \in Frames, Try(s, frame),
           UNCHANGED <<wire, writing>>,
           frame = "end" => s = "main" /\ main' \in Ending
    PROVE  EndComesLast'
<1>0. s \in {"main", "invoke"} /\ parked \in [{"main", "invoke"} -> Frames \cup {None}]
  BY DEF Senders, Typed
<1>1. /\ \A i \in 1..Len(wire) : wire[i] # "end"
      /\ \A i \in 1..Len(queue) : queue[i] # "end"
      /\ writing # "end" /\ parked["main"] # "end" /\ parked["invoke"] # "end"
  BY DEF EndComesLast
<1>2. CASE Len(queue) < Buffer
  <2>1. queue' = Append(queue, frame) /\ UNCHANGED parked /\ parked[s] = None
    BY <1>2 DEF Try, Quiet
  <2>2. /\ Len(queue) \in Nat /\ Len(queue') = Len(queue) + 1
        /\ \A i \in 1..Len(queue) : queue'[i] = queue[i]
        /\ queue'[Len(queue) + 1] = frame
    BY <2>1, AppendProperties, LenProperties DEF Typed
  <2>3. \A i \in 1..Len(queue') : queue'[i] = "end" => i = Len(queue') /\ frame = "end"
    BY <1>1, <2>2
  <2> QED
    BY <1>0, <1>1, <2>1, <2>3 DEF EndComesLast, Quiet
<1>3. CASE ~ (Len(queue) < Buffer)
  <2>1. parked' = [parked EXCEPT ![s] = frame] /\ UNCHANGED queue
    BY <1>3 DEF Try
  <2> QED
    BY <1>0, <1>1, <2>1 DEF EndComesLast, Quiet
<1> QED
  BY <1>2, <1>3

LEMMA NextEnd ==
    ASSUME Typed, Control, EndComesLast, [Next]_vars PROVE EndComesLast'
<1>0. parked \in [{"main", "invoke"} -> Frames \cup {None}]
  BY DEF Senders, Typed
<1>1. CASE Reject
  <2>1. wire' = <<"error", "end">> \/ wire' = << >>
    BY <1>1 DEF Reject
  <2>2. /\ UNCHANGED <<queue, parked, writing>> /\ queue = << >> /\ writing = None
        /\ parked["main"] = None /\ parked["invoke"] = None /\ main' = "returned"
    BY <1>1 DEF Reject, channel, Control, Untouched, Quiet, Senders, Typed
  <2>3. \A i \in 1..Len(wire') : wire'[i] = "end" => i = Len(wire')
    BY <2>1
  <2> QED
    BY <2>2, <2>3, NoneAssumption DEF EndComesLast, Quiet, Ending, Frames
<1>2. CASE Start \/ StartReading \/ Finish \/ CloseQueue \/ Return
  BY <1>2, CalmEnd DEF Start, StartReading, Finish, CloseQueue, Return, Ending, world, channel
<1>3. CASE SendOpen \/ SendError \/ SendEnd
  <2>1. {"open", "error", "end"} \subseteq Frames /\ "main" \in Senders
    BY DEF Frames, Senders
  <2>2. main \notin Ending /\ UNCHANGED <<wire, writing>>
    BY <1>3 DEF SendOpen, SendError, SendEnd, Ending
  <2>3. \E frame \in Frames : Try("main", frame) /\ (frame = "end" => main' \in Ending)
    BY <1>3, <2>1 DEF SendOpen, SendError, SendEnd, Ending
  <2> QED
    BY <2>1, <2>2, <2>3, TryEnd DEF Control
<1>4. CASE OnReceiveResponse \/ OnReceiveTrailers
  <2>1. Answers \cup {"status"} \subseteq Frames \ {"end"} /\ "invoke" \in Senders
    BY DEF Answers, Frames, Senders
  <2>2. main \notin Ending /\ UNCHANGED <<wire, writing>>
    BY <1>4 DEF OnReceiveResponse, OnReceiveTrailers, Ending, Control, Turns
  <2>3. \E frame \in Frames \ {"end"} : Try("invoke", frame)
    BY <1>4, <2>1 DEF OnReceiveResponse, OnReceiveTrailers
  <2> QED
    BY <2>1, <2>2, <2>3, TryEnd DEF Control
<1>5. ASSUME NEW s \in Senders, Push(s) PROVE EndComesLast'
  <2>1. /\ parked[s] # None /\ queue' = Append(queue, parked[s])
        /\ parked' = [parked EXCEPT ![s] = None] /\ UNCHANGED <<wire, writing, main>>
    BY <1>5 DEF Push, Quiet
  <2>2. parked[s] \in Frames /\ s \in {"main", "invoke"}
    BY <1>0, <2>1 DEF Senders
  <2>3. /\ Len(queue) \in Nat /\ Len(queue') = Len(queue) + 1
        /\ \A i \in 1..Len(queue) : queue'[i] = queue[i]
        /\ queue'[Len(queue) + 1] = parked[s]
    BY <2>1, <2>2, AppendProperties, LenProperties DEF Typed
  <2>4. s = "invoke" => main \notin Ending /\ parked[s] # "end"
    BY <2>1 DEF Control, Turns, Ending, Quiet, EndComesLast
  <2>5. /\ \A i \in 1..Len(wire) : wire[i] # "end"
        /\ \A i \in 1..Len(queue) : queue[i] # "end"
        /\ writing # "end"
    BY <2>1, <2>2, <2>4 DEF EndComesLast, Quiet
  <2>6. \A i \in 1..Len(queue') : queue'[i] = "end" => i = Len(queue') /\ parked[s] = "end"
    BY <2>3, <2>5
  <2>7. parked[s] = "end" => s = "main" /\ main \in Ending /\ parked'["main"] = None
    BY <1>0, <2>1, <2>2, <2>4 DEF EndComesLast
  <2>8. parked'["main"] \in {parked["main"], None} /\ parked'["invoke"] \in {parked["invoke"], None}
    BY <1>0, <2>1, <2>2
  <2>9. None # "end"
    BY NoneAssumption DEF Frames
  <2> QED
    BY <2>1, <2>5, <2>6, <2>7, <2>8, <2>9 DEF EndComesLast, Quiet
<1>6. ASSUME NEW s \in Senders, Drop(s) PROVE EndComesLast'
  <2>1. /\ parked' = [parked EXCEPT ![s] = None]
        /\ UNCHANGED <<wire, writing, queue, main>>
    BY <1>6 DEF Drop
  <2>2. parked'["main"] \in {parked["main"], None} /\ parked'["invoke"] \in {parked["invoke"], None}
    BY <1>0, <2>1 DEF Senders
  <2>3. None # "end"
    BY NoneAssumption DEF Frames
  <2> QED
    BY <2>1, <2>2, <2>3 DEF EndComesLast, Quiet
<1>7. CASE Take
  <2>1. /\ queue # << >> /\ queue' = Tail(queue) /\ writing' = Head(queue)
        /\ UNCHANGED <<wire, parked, main>>
    BY <1>7 DEF Take
  <2>2. /\ Len(queue) \in Nat \ {0} /\ Head(queue) = queue[1] /\ Len(queue') = Len(queue) - 1
        /\ \A i \in 1..Len(queue') : queue'[i] = queue[i + 1]
        /\ queue' \in Seq(Frames)
    BY <2>1, HeadTailProperties, EmptySeq, LenProperties DEF Typed
  <2>3. \A i \in 1..Len(wire) : wire[i] # "end"
    BY <2>1 DEF EndComesLast
  <2>4. writing' = "end" => Len(queue) = 1 /\ Quiet("main") /\ main \in Ending
    <3>1. 1 \in 1..Len(queue) /\ writing' = queue[1]
      BY <2>1, <2>2
    <3> QED
      BY <3>1 DEF EndComesLast
  <2>5. Len(queue) = 1 => queue' = << >>
    BY <2>2, EmptySeq
  <2>6. \A i \in 1..Len(queue') : queue'[i] = "end" =>
          i = Len(queue') /\ Quiet("main") /\ main \in Ending
    BY <2>2 DEF EndComesLast
  <2> QED
    BY <2>1, <2>3, <2>4, <2>5, <2>6 DEF EndComesLast, Quiet
<1>8. CASE Written
  <2>1. /\ writing \in Frames /\ wire' = Append(wire, writing) /\ writing' = None
        /\ UNCHANGED <<queue, parked, main>>
    BY <1>8 DEF Written, channel, Typed
  <2>2. /\ Len(wire) \in Nat /\ Len(wire') = Len(wire) + 1
        /\ \A i \in 1..Len(wire) : wire'[i] = wire[i]
        /\ wire'[Len(wire) + 1] = writing
    BY <2>1, AppendProperties, LenProperties DEF Typed
  <2>3. \A i \in 1..Len(wire) : wire[i] # "end"
    BY <2>1, NoneAssumption DEF EndComesLast
  <2>4. \A i \in 1..Len(wire') : wire'[i] = "end" => i = Len(wire') /\ writing = "end"
    BY <2>2, <2>3
  <2>5. None # "end"
    BY NoneAssumption DEF Frames
  <2> QED
    BY <2>1, <2>4, <2>5 DEF EndComesLast, Quiet
<1>9. CASE WriteFails
  <2>1. writing' = None /\ None # "end" /\ UNCHANGED <<queue, parked, main, wire>> /\ writing # None
    BY <1>9, NoneAssumption DEF WriteFails, Frames, channel, Typed
  <2> QED
    BY <2>1 DEF EndComesLast, Quiet
<1>10. CASE RangeEnds
  BY <1>10, CalmEnd DEF RangeEnds, world, channel
<1>11. CASE Reader
  BY <1>11, CalmEnd DEF Reader, ReadSend, ReadHalfClose, StopReading, WriteRefused, world, channel
<1>12. CASE Timeout \/ Watch
  BY <1>12, CalmEnd DEF Timeout, Watch, world, channel
<1>13. CASE Feed \/ RequestSent
  BY <1>13, CalmEnd
     DEF Feed, RequestSent, TakeData, BadRequest, TakeNewline, EndOfRequests, world, channel
<1>14. CASE ServerEnds \/ RequestsRead \/ NoMoreResponses \/ Joined
  BY <1>14, CalmEnd DEF ServerEnds, RequestsRead, NoMoreResponses, Joined, world, channel
<1>15. CASE UNCHANGED vars
  BY <1>15, CalmEnd DEF vars
<1> QED
  BY <1>1, <1>2, <1>3, <1>4, <1>5, <1>6, <1>7, <1>8, <1>9, <1>10, <1>11, <1>12, <1>13, <1>14, <1>15
     DEF Next, Main, Writer, Invoke, Senders

---------------------------------------------------------------------------
(* What a step does to the frames on their way, and to the frames sent.    *)
Kept == (\A type \in Frames : Total(type)' = Total(type)) /\ Length' = Length
Cut == ctx' /\ Length' \in 0..Length
Added(frame) ==
    (\A type \in Frames : Total(type)' = Total(type) + Is(frame, type)) /\ Length' = Length + 1
NoneSent == \A type \in Frames : Sent(type)' = Sent(type)
OneSent(frame) == \A type \in Frames : Sent(type)' = Sent(type) + Is(frame, type)

LEMMA IsOne ==
    ASSUME NEW x, NEW y
    PROVE  Is(x, y) \in Nat /\ (x = y => Is(x, y) = 1) /\ (x # y => Is(x, y) = 0)
BY DEF Is

LEMMA HasOne ==
    ASSUME NEW x PROVE Has(x) \in Nat /\ (x # None => Has(x) = 1) /\ (x = None => Has(x) = 0)
BY DEF Has

LEMMA SomeNumbers ==
    ASSUME Typed
    PROVE  /\ Len(wire) \in Nat /\ Len(queue) \in Nat
           /\ \A type : Count(wire, type) \in Nat /\ Count(queue, type) \in Nat
           /\ \A type \in Frames : Total(type) \in Nat /\ Sent(type) \in Nat
           /\ \A type : Parked(type) \in Nat /\ Is(writing, type) \in Nat
           /\ Waiting \in Nat /\ Has(writing) \in Nat
           /\ Length \in Nat /\ AllSent \in Nat
<1>1. Len(wire) \in Nat /\ Len(queue) \in Nat
  BY LenProperties DEF Typed
<1>2. ASSUME NEW type PROVE Count(wire, type) \in Nat /\ Count(queue, type) \in Nat
  BY CountType DEF Typed
<1>3. ASSUME NEW type \in Frames PROVE Total(type) \in Nat
  BY <1>2, IsOne DEF Total, Parked
<1>4. ASSUME NEW type \in Frames PROVE Sent(type) \in Nat
  <2>1. received["message"] \in Nat /\ received["error"] \in Nat
    BY StreamAssumption DEF Typed, Answers
  <2> QED
    BY <2>1 DEF Sent, One, Frames
<1>5. Length \in Nat
  BY <1>1, HasOne DEF Length, Waiting
<1>6. AllSent \in Nat
  BY <1>4 DEF AllSent, Frames
<1>7. Waiting \in Nat /\ Has(writing) \in Nat
  BY HasOne DEF Waiting
<1>8. ASSUME NEW type PROVE Parked(type) \in Nat /\ Is(writing, type) \in Nat
  BY IsOne DEF Parked
<1> QED
  BY <1>1, <1>2, <1>3, <1>4, <1>5, <1>6, <1>7, <1>8

LEMMA CountNumbers ==
    ASSUME Typed, NEW type
    PROVE  /\ Count(wire, type) \in Nat /\ Count(queue, type) \in Nat
           /\ Parked(type) \in Nat /\ Is(writing, type) \in Nat
BY SomeNumbers

LEMMA LengthNumbers ==
    ASSUME Typed
    PROVE  /\ Len(wire) \in Nat /\ Len(queue) \in Nat
           /\ Waiting \in Nat /\ Has(writing) \in Nat
BY SomeNumbers

LEMMA Balance ==
    ASSUME Typed, NothingLost, Bounded, ctx => ctx',
           \/ NoneSent /\ (Kept \/ Cut)
           \/ \E frame \in Frames : OneSent(frame) /\ Added(frame)
    PROVE  NothingLost' /\ Bounded'
<1>1. /\ \A type \in Frames : Sent(type) \in Nat
      /\ {"open", "message", "status", "error", "end"} = Frames
      /\ Length \in Nat /\ AllSent \in Nat
  BY SomeNumbers DEF Frames
<1>2. NothingLost'
  BY DEF NothingLost, NoneSent, OneSent, Kept, Cut, Added
<1>3. ASSUME NoneSent /\ (Kept \/ Cut) PROVE Bounded'
  <2>1. AllSent' = AllSent
    BY <1>1, <1>3 DEF AllSent, NoneSent
  <2>2. Length' \in 0..Length
    BY <1>1, <1>3 DEF Kept, Cut
  <2>3. Length' <= AllSent'
    BY <1>1, <2>1, <2>2 DEF Bounded
  <2> QED
    BY <2>3 DEF Bounded
<1>4. ASSUME NEW frame \in Frames, OneSent(frame), Added(frame) PROVE Bounded'
  <2>1. /\ Sent("open")' = Sent("open") + Is(frame, "open")
        /\ Sent("message")' = Sent("message") + Is(frame, "message")
        /\ Sent("status")' = Sent("status") + Is(frame, "status")
        /\ Sent("error")' = Sent("error") + Is(frame, "error")
        /\ Sent("end")' = Sent("end") + Is(frame, "end")
    BY <1>1, <1>4 DEF OneSent
  <2>2. Is(frame, "open") + Is(frame, "message") + Is(frame, "status")
        + Is(frame, "error") + Is(frame, "end") = 1
    BY DEF Is, Frames
  <2>3. AllSent' = AllSent + 1
    <3>1. /\ Sent("open") \in Nat /\ Sent("message") \in Nat /\ Sent("status") \in Nat
          /\ Sent("error") \in Nat /\ Sent("end") \in Nat
      BY <1>1
    <3>2. /\ Is(frame, "open") \in Nat /\ Is(frame, "message") \in Nat
          /\ Is(frame, "status") \in Nat /\ Is(frame, "error") \in Nat
          /\ Is(frame, "end") \in Nat
      BY IsOne
    <3> QED
      BY <2>1, <2>2, <3>1, <3>2 DEF AllSent
  <2> QED
    BY <1>1, <1>4, <2>3 DEF Bounded, Added
<1> QED
  BY <1>2, <1>3, <1>4

LEMMA CalmKeeps == ASSUME UNCHANGED <<wire, queue, writing, parked>> PROVE Kept
BY DEF Kept, Total, Parked, Length, Waiting

(* A sender that begins or stops to wait with a frame.                     *)
LEMMA BeginsToWait ==
    ASSUME Typed, NEW s \in Senders, NEW frame \in Frames,
           parked[s] = None, parked' = [parked EXCEPT ![s] = frame]
    PROVE  /\ \A type \in Frames : Parked(type)' = Parked(type) + Is(frame, type)
           /\ Waiting' = Waiting + 1
<1>0. /\ s \in {"main", "invoke"} /\ parked \in [{"main", "invoke"} -> Frames \cup {None}]
      /\ \A type \in Frames : type # None
  BY NoneAssumption DEF Senders, Typed
<1>1. ASSUME NEW type \in Frames PROVE Parked(type)' = Parked(type) + Is(frame, type)
  BY <1>0, IsOne DEF Parked
<1>2. Waiting' = Waiting + 1
  BY <1>0, HasOne DEF Waiting
<1> QED
  BY <1>1, <1>2

LEMMA StopsToWait ==
    ASSUME Typed, NEW s \in Senders, parked[s] # None, parked' = [parked EXCEPT ![s] = None]
    PROVE  /\ \A type \in Frames : Parked(type) = Parked(type)' + Is(parked[s], type)
           /\ Waiting = Waiting' + 1
           /\ \A type \in Frames : Parked(type)' \in Nat
           /\ Waiting' \in Nat
<1>0. /\ s \in {"main", "invoke"} /\ parked \in [{"main", "invoke"} -> Frames \cup {None}]
      /\ \A type \in Frames : type # None
  BY NoneAssumption DEF Senders, Typed
<1>1. ASSUME NEW type \in Frames PROVE Parked(type) = Parked(type)' + Is(parked[s], type)
  BY <1>0, IsOne DEF Parked
<1>2. Waiting = Waiting' + 1
  BY <1>0, HasOne DEF Waiting
<1>3. ASSUME NEW type \in Frames PROVE Parked(type)' \in Nat
  BY IsOne DEF Parked
<1>4. Waiting' \in Nat
  BY HasOne DEF Waiting
<1> QED
  BY <1>1, <1>2, <1>3, <1>4

LEMMA TryAdds ==
    ASSUME Typed, NEW s \in Senders, NEW frame \in Frames, Try(s, frame),
           UNCHANGED <<wire, writing>>
    PROVE  Added(frame)
<1>1. CASE Len(queue) < Buffer
  <2>1. queue' = Append(queue, frame) /\ UNCHANGED parked
    BY <1>1 DEF Try
  <2>2. ASSUME NEW type \in Frames PROVE Total(type)' = Total(type) + Is(frame, type)
    <3>1. Count(queue', type) = Count(queue, type) + Is(frame, type)
      BY <2>1, CountAppend DEF Typed
    <3>2. Parked(type)' = Parked(type)
      BY <2>1 DEF Parked
    <3>3. Is(frame, type) \in Nat
      BY IsOne
    <3> QED
      BY <3>1, <3>2, <3>3, CountNumbers DEF Total
  <2>3. Length' = Length + 1
    <3>1. Len(queue') = Len(queue) + 1
      BY <2>1, AppendProperties DEF Typed
    <3>2. Waiting' = Waiting
      BY <2>1 DEF Waiting
    <3> QED
      BY <3>1, <3>2, LengthNumbers DEF Length
  <2> QED
    BY <2>2, <2>3 DEF Added
<1>2. CASE ~ (Len(queue) < Buffer)
  <2>1. parked' = [parked EXCEPT ![s] = frame] /\ UNCHANGED queue /\ parked[s] = None
    BY <1>2 DEF Try, Quiet
  <2>2. ASSUME NEW type \in Frames PROVE Total(type)' = Total(type) + Is(frame, type)
    <3>1. Parked(type)' = Parked(type) + Is(frame, type) /\ Is(frame, type) \in Nat
      BY <2>1, BeginsToWait, IsOne
    <3> QED
      BY <2>1, <3>1, CountNumbers DEF Total
  <2>3. Length' = Length + 1
    <3>1. Waiting' = Waiting + 1
      BY <2>1, BeginsToWait
    <3> QED
      BY <2>1, <3>1, LengthNumbers DEF Length
  <2> QED
    BY <2>2, <2>3 DEF Added
<1> QED
  BY <1>1, <1>2

LEMMA PushKeeps == ASSUME Typed, NEW s \in Senders, Push(s) PROVE Kept
<1>1. /\ parked[s] # None /\ queue' = Append(queue, parked[s])
      /\ parked' = [parked EXCEPT ![s] = None] /\ UNCHANGED <<wire, writing>>
  BY DEF Push, Quiet
<1>2. parked[s] \in Frames
  BY <1>1 DEF Typed
<1>3. ASSUME NEW type \in Frames PROVE Total(type)' = Total(type)
  <2>1. Count(queue', type) = Count(queue, type) + Is(parked[s], type)
    BY <1>1, <1>2, CountAppend DEF Typed
  <2>2. Parked(type) = Parked(type)' + Is(parked[s], type) /\ Parked(type)' \in Nat
    BY <1>1, StopsToWait
  <2>3. Is(parked[s], type) \in Nat
    BY IsOne
  <2> QED
    BY <1>1, <2>1, <2>2, <2>3, CountNumbers DEF Total
<1>4. Length' = Length
  <2>1. Len(queue') = Len(queue) + 1
    BY <1>1, <1>2, AppendProperties DEF Typed
  <2> QED
    <3>1. Waiting = Waiting' + 1 /\ Waiting' \in Nat
      BY <1>1, StopsToWait
    <3> QED
      BY <1>1, <2>1, <3>1, LengthNumbers DEF Length
<1> QED
  BY <1>3, <1>4 DEF Kept

LEMMA DropCuts == ASSUME Typed, NEW s \in Senders, Drop(s) PROVE Cut
<1>1. /\ parked[s] # None /\ parked' = [parked EXCEPT ![s] = None]
      /\ UNCHANGED <<wire, queue, writing>> /\ ctx'
  BY DEF Drop, GivesUp, Quiet
<1>2. Length' \in 0..Length
  <2>1. Waiting = Waiting' + 1 /\ Waiting' \in Nat
    BY <1>1, StopsToWait
  <2> QED
    BY <1>1, <2>1, LengthNumbers DEF Length
<1> QED
  BY <1>1, <1>2 DEF Cut

LEMMA TakeKeeps == ASSUME Typed, Take PROVE Kept
<1>1. /\ queue # << >> /\ queue' = Tail(queue) /\ writing' = Head(queue) /\ writing = None
      /\ UNCHANGED <<wire, parked>>
  BY DEF Take, Typed
<1>2. Head(queue) \in Frames /\ Tail(queue) \in Seq(Frames) /\ Len(Tail(queue)) = Len(queue) - 1
  BY <1>1, HeadTailProperties DEF Typed
<1>3. ASSUME NEW type \in Frames PROVE Total(type)' = Total(type)
  <2>1. Count(queue, type) = Count(queue', type) + Is(writing', type)
    BY <1>1, CountTail DEF Typed
  <2>2. Is(writing, type) = 0 /\ Is(writing', type) \in Nat
    BY <1>1, NoneAssumption, IsOne
  <2>3. Parked(type)' = Parked(type)
    BY <1>1 DEF Parked
  <2>4. Count(queue', type) \in Nat
    BY <1>1, <1>2, CountType
  <2> QED
    BY <1>1, <2>1, <2>2, <2>3, <2>4, CountNumbers DEF Total
<1>4. Length' = Length
  <2>1. Has(writing) = 0 /\ Has(writing') = 1
    BY <1>1, <1>2, NoneAssumption, HasOne
  <2>2. Waiting' = Waiting
    BY <1>1 DEF Waiting
  <2> QED
    BY <1>1, <1>2, <2>1, <2>2, LengthNumbers DEF Length
<1> QED
  BY <1>3, <1>4 DEF Kept

LEMMA WrittenKeeps == ASSUME Typed, Written PROVE Kept
<1>1. /\ writing \in Frames /\ wire' = Append(wire, writing) /\ writing' = None
      /\ UNCHANGED <<queue, parked>>
  BY DEF Written, Typed, channel
<1>2. ASSUME NEW type \in Frames PROVE Total(type)' = Total(type)
  <2>1. Count(wire', type) = Count(wire, type) + Is(writing, type)
    BY <1>1, CountAppend DEF Typed
  <2>2. Is(writing', type) = 0
    BY <1>1, NoneAssumption, IsOne
  <2>3. Parked(type)' = Parked(type)
    BY <1>1 DEF Parked
  <2> QED
    BY <1>1, <2>1, <2>2, <2>3, CountNumbers DEF Total
<1>3. Length' = Length
  <2>1. Has(writing) = 1 /\ Has(writing') = 0
    BY <1>1, NoneAssumption, HasOne
  <2>2. Len(wire') = Len(wire) + 1
    BY <1>1, AppendProperties DEF Typed
  <2>3. Waiting' = Waiting
    BY <1>1 DEF Waiting
  <2> QED
    BY <1>1, <2>1, <2>2, <2>3, LengthNumbers DEF Length
<1> QED
  BY <1>2, <1>3 DEF Kept

LEMMA WriteFailsCuts == ASSUME Typed, WriteFails PROVE Cut
<1>1. writing' = None /\ ctx' /\ UNCHANGED <<wire, queue, parked>>
  BY DEF WriteFails, channel
<1>2. Has(writing') = 0 /\ Waiting' = Waiting
  BY <1>1, HasOne DEF Waiting
<1>3. Length' \in 0..Length
  BY <1>1, <1>2, LengthNumbers DEF Length
<1> QED
  BY <1>1, <1>3 DEF Cut

(* Which steps send a frame. *)
LEMMA StillSent == ASSUME UNCHANGED <<main, invoke, fault, received>> PROVE NoneSent
BY DEF NoneSent, Sent

LEMMA CalmMainSends ==
    ASSUME Typed, Control, Start \/ Finish \/ CloseQueue \/ Return PROVE NoneSent
<1> USE DEF NoneSent, Sent, One, Frames
<1>1. CASE Start
  BY <1>1 DEF Start, world, Control, Untouched
<1>2. CASE Finish
  BY <1>2 DEF Finish, Failed
<1>3. CASE CloseQueue
  BY <1>3 DEF CloseQueue, world
<1>4. CASE Return
  BY <1>4 DEF Return
<1> QED
  BY <1>1, <1>2, <1>3, <1>4

LEMMA CalmInvokeSends ==
    ASSUME Typed, Control, RequestsRead \/ NoMoreResponses \/ Joined \/ BadRequest PROVE NoneSent
<1> USE DEF NoneSent, Sent, One, Frames
<1>1. CASE RequestsRead
  BY <1>1 DEF RequestsRead, world
<1>2. CASE NoMoreResponses
  BY <1>2 DEF NoMoreResponses, world
<1>3. CASE Joined
  BY <1>3 DEF Joined, world
<1>4. CASE BadRequest
  <2>1. ~ fault /\ main \notin {"end", "close", "drain", "returned"}
    BY <1>4 DEF BadRequest, Control, Turns, Outcome
  <2>2. invoke \in {"join", "returned"} => ~ fault'
    BY <1>4 DEF BadRequest
  <2> QED
    BY <1>4, <2>1, <2>2 DEF BadRequest
<1> QED
  BY <1>1, <1>2, <1>3, <1>4

LEMMA MainSends ==
    ASSUME Typed, Control, SendOpen \/ SendError \/ SendEnd
    PROVE  \E frame \in Frames : OneSent(frame) /\ Added(frame)
<1>0. /\ "open" \in Frames /\ "error" \in Frames /\ "end" \in Frames /\ "main" \in Senders
      /\ UNCHANGED <<invoke, fault, received, wire, writing>>
      /\ received["message"] \in Nat /\ received["error"] \in Nat
  BY StreamAssumption DEF SendOpen, SendError, SendEnd, world, Frames, Senders, Typed, Answers
<1>1. CASE SendOpen
  <2>1. OneSent("open")
    BY <1>0, <1>1 DEF SendOpen, OneSent, Sent, One, Is, Frames
  <2> QED
    BY <1>0, <1>1, <2>1, TryAdds DEF SendOpen
<1>2. CASE SendError
  <2>1. fault
    BY <1>2 DEF SendError, Control, Outcome
  <2>2. OneSent("error")
    BY <1>0, <1>2, <2>1 DEF SendError, OneSent, Sent, One, Is, Frames
  <2> QED
    BY <1>0, <1>2, <2>2, TryAdds DEF SendError
<1>3. CASE SendEnd
  <2>1. OneSent("end")
    BY <1>0, <1>3 DEF SendEnd, OneSent, Sent, One, Is, Frames
  <2> QED
    BY <1>0, <1>3, <2>1, TryAdds DEF SendEnd
<1> QED
  BY <1>1, <1>2, <1>3

LEMMA InvokeSends ==
    ASSUME Typed, Control, OnReceiveResponse \/ OnReceiveTrailers
    PROVE  \E frame \in Frames : OneSent(frame) /\ Added(frame)
<1>0. /\ Answers \subseteq Frames /\ "status" \in Frames /\ "invoke" \in Senders
      /\ UNCHANGED <<main, fault, wire, writing>>
      /\ received \in [Answers -> Nat]
  BY StreamAssumption
     DEF OnReceiveResponse, OnReceiveTrailers, world, Frames, Senders, Typed, Answers
<1>1. CASE OnReceiveResponse
  <2>1. PICK answer \in Answers :
          Try("invoke", answer) /\ received' = [received EXCEPT ![answer] = @ + 1]
    BY <1>1 DEF OnReceiveResponse
  <2>2. \A a \in Answers : received'[a] = received[a] + Is(a, answer)
    BY <1>0, <2>1 DEF Is
  <2>3. received'["message"] = received["message"] + Is("message", answer)
        /\ received'["error"] = received["error"] + Is("error", answer)
        /\ received["error"] \in Nat
    BY <1>0, <2>2 DEF Answers
  <2>4. UNCHANGED <<main, invoke, fault>>
    BY <1>0, <1>1 DEF OnReceiveResponse
  <2>5. OneSent(answer)
    <3>1. ASSUME NEW type \in Frames PROVE Sent(type)' = Sent(type) + Is(answer, type)
      <4>1. CASE type = "message"
        BY <2>3, <4>1 DEF Sent, Is
      <4>2. CASE type = "error"
        BY <2>3, <2>4, <4>2 DEF Sent, Is, One
      <4>3. CASE type \in {"open", "status", "end"}
        BY <2>4, <4>3 DEF Sent, Is, One, Answers
      <4> QED
        BY <4>1, <4>2, <4>3 DEF Frames
    <3> QED
      BY <3>1 DEF OneSent
  <2> QED
    BY <1>0, <2>1, <2>5, TryAdds
<1>2. CASE OnReceiveTrailers
  <2>1. ~ fault /\ UNCHANGED received
    BY <1>2 DEF OnReceiveTrailers, Control, Outcome, world
  <2>2. OneSent("status")
    <3>1. received["message"] \in Nat /\ received["error"] \in Nat
      BY <1>0 DEF Answers
    <3> QED
      BY <1>0, <1>2, <2>1, <3>1 DEF OnReceiveTrailers, OneSent, Sent, One, Is, Frames
  <2> QED
    BY <1>0, <1>2, <2>2, TryAdds DEF OnReceiveTrailers
<1> QED
  BY <1>1, <1>2

(* The books balance: a step that moves a frame keeps it, one that sends   *)
(* adds it, and one that loses frames ends the context.                    *)
LEMMA NextBalance ==
    ASSUME Typed, Control, NothingLost, Bounded, [Next]_vars
    PROVE  NothingLost' /\ Bounded'
<1>1. CASE Reject
  <2>1. ctx' /\ UNCHANGED <<queue, parked, writing, invoke, fault, received>> /\ main' = "returned"
    BY <1>1 DEF Reject, channel
  <2>2. /\ queue = << >> /\ writing = None /\ parked["main"] = None /\ parked["invoke"] = None
        /\ ~ fault /\ invoke = "off"
        /\ received["message"] = 0 /\ received["error"] = 0
    BY <1>1 DEF Reject, Control, Untouched, Outcome, Quiet, Senders, Answers, Typed
  <2>3. Len(wire') \in 0..2
    BY <1>1 DEF Reject
  <2>4. Length' \in 0..2
    BY <2>1, <2>2, <2>3 DEF Length, Waiting, Has
  <2>5. AllSent' = 2
    BY <2>1, <2>2 DEF AllSent, Sent, One
  <2> QED
    BY <2>1, <2>4, <2>5 DEF NothingLost, Bounded
<1>2. CASE Start \/ Finish \/ CloseQueue \/ Return
  <2>1. UNCHANGED <<wire, queue, writing, parked>> /\ (ctx => ctx')
    BY <1>2 DEF Start, Finish, CloseQueue, Return, world, channel
  <2> QED
    BY <1>2, <2>1, CalmMainSends, CalmKeeps, Balance
<1>3. CASE RequestsRead \/ NoMoreResponses \/ Joined \/ BadRequest
  <2>1. UNCHANGED <<wire, queue, writing, parked>> /\ (ctx => ctx')
    BY <1>3 DEF RequestsRead, NoMoreResponses, Joined, BadRequest, world, channel
  <2> QED
    BY <1>3, <2>1, CalmInvokeSends, CalmKeeps, Balance
<1>4. CASE SendOpen \/ SendError \/ SendEnd
  <2>1. UNCHANGED ctx
    BY <1>4 DEF SendOpen, SendError, SendEnd
  <2> QED
    BY <1>4, <2>1, MainSends, Balance
<1>5. CASE OnReceiveResponse \/ OnReceiveTrailers
  <2>1. UNCHANGED ctx
    BY <1>5 DEF OnReceiveResponse, OnReceiveTrailers
  <2> QED
    BY <1>5, <2>1, InvokeSends, Balance
<1>6. ASSUME NEW s \in Senders, Push(s) \/ Drop(s) PROVE NothingLost' /\ Bounded'
  <2>1. UNCHANGED <<ctx, main, invoke, fault, received>>
    BY <1>6 DEF Push, Drop, world
  <2> QED
    BY <1>6, <2>1, StillSent, PushKeeps, DropCuts, Balance
<1>7. CASE Take \/ Written \/ WriteFails
  <2>1. UNCHANGED <<main, invoke, fault, received>> /\ (ctx => ctx')
    BY <1>7 DEF Take, Written, WriteFails, world
  <2> QED
    BY <1>7, <2>1, StillSent, TakeKeeps, WrittenKeeps, WriteFailsCuts, Balance
<1>8. ASSUME UNCHANGED <<main, invoke, fault, received, wire, queue, writing, parked>>, ctx => ctx'
      PROVE  NothingLost' /\ Bounded'
  BY <1>8, StillSent, CalmKeeps, Balance
<1>9. CASE StartReading \/ RangeEnds \/ Reader \/ Timeout \/ Watch
  BY <1>8, <1>9
     DEF StartReading, RangeEnds, Reader, ReadSend, ReadHalfClose, StopReading, WriteRefused,
         Timeout, Watch, world, channel
<1>10. CASE TakeData \/ TakeNewline \/ EndOfRequests \/ RequestSent \/ ServerEnds
  BY <1>8, <1>10 DEF TakeData, TakeNewline, EndOfRequests, RequestSent, ServerEnds, world, channel
<1>11. CASE UNCHANGED vars
  BY <1>8, <1>11 DEF vars
<1> QED
  BY <1>1, <1>2, <1>3, <1>4, <1>5, <1>6, <1>7, <1>9, <1>10, <1>11
     DEF Next, Main, Writer, Invoke, Feed, Senders

---------------------------------------------------------------------------
LEMMA InitIInv == Init => IInv
<1> SUFFICES ASSUME Init PROVE IInv
  OBVIOUS
<1>0. /\ queue = << >> /\ wire = << >> /\ writing = None /\ main = "init" /\ invoke = "off"
      /\ parked = [s \in {"main", "invoke"} |-> None] /\ ~ fault /\ Len(queue) = 0
      /\ received["message"] = 0 /\ received["error"] = 0
  BY DEF Init, Senders, Answers
<1>1. Typed
  <2>1. << >> \in Seq(Frames) /\ Len(queue) <= Buffer /\ 0 \in 0..MaxMessages /\ 0 \in 0..MaxSends
    BY <1>0, StreamAssumption
  <2>2. parked \in [Senders -> Frames \cup {None}]
    BY DEF Init
  <2>3. ctx \in BOOLEAN /\ conn \in BOOLEAN /\ closed \in BOOLEAN /\ over \in BOOLEAN /\ fault \in BOOLEAN
    BY DEF Init
  <2> QED
    BY <1>0, <2>1, <2>2, <2>3 DEF Init, Typed
<1>2. Untouched /\ Turns /\ Outcome
  BY DEF Init, Untouched, Turns, Outcome, Quiet, Senders
<1>3. EndComesLast
  BY <1>0, NoneAssumption DEF EndComesLast, Frames
<1>4. ASSUME NEW type \in Frames PROVE Total(type) = Sent(type)
  <2>1. Count(<< >>, type) = 0
    BY FS_EmptySet DEF Count
  <2>2. Is(None, type) = 0
    BY NoneAssumption, IsOne
  <2>3. Total(type) = 0
    BY <1>0, <2>1, <2>2 DEF Total, Parked
  <2>4. Sent(type) = 0
    BY <1>0 DEF Sent, One, Frames
  <2> QED
    BY <2>3, <2>4
<1>5. Length = 0
  BY <1>0 DEF Length, Waiting, Has
<1>6. AllSent = 0
  BY <1>0 DEF AllSent, Sent, One
<1> QED
  BY <1>1, <1>2, <1>3, <1>4, <1>5, <1>6 DEF IInv, NothingLost, Bounded

LEMMA NextIInv == IInv /\ [Next]_vars => IInv'
BY NextTyped, NextControl, NextEnd, NextBalance DEF IInv, Control

LEMMA Invariant == Spec => []IInv
BY InitIInv, NextIInv, PTL DEF Spec

(* At most one outcome is ever sent, so the client gets the opening frame, *)
(* one outcome and the end on top of the responses.                        *)
LEMMA IInvTypeOK == IInv => TypeOK
<1> SUFFICES ASSUME IInv PROVE TypeOK
  OBVIOUS
<1>0. received["message"] \in Nat /\ received["error"] \in Nat
  BY StreamAssumption DEF IInv, Typed, Answers
<1>1. Sent("open") \in 0..1 /\ Sent("end") \in 0..1 /\ Sent("message") = received["message"]
  BY DEF Sent, One
<1>2. /\ Sent("status") \in 0..1 /\ Sent("error") - received["error"] \in 0..1
      /\ Sent("status") + Sent("error") <= received["error"] + 1
  BY <1>0 DEF Sent, One
<1>3. Len(wire) <= Length
  BY LengthNumbers DEF IInv, Length
<1>4. Responses <= MaxMessages /\ Responses \in Nat /\ Length \in Nat /\ Len(wire) \in Nat
  BY <1>0, SomeNumbers DEF IInv, Typed, Responses
<1>5. AllSent <= Responses + 3 /\ AllSent \in Nat
  <2>1. Sent("error") \in Nat
    BY <1>0 DEF Sent, One
  <2> QED
    BY <1>0, <1>1, <1>2, <2>1 DEF AllSent, Responses
<1>6. Len(wire) <= MaxMessages + 3
  BY <1>3, <1>4, <1>5, StreamAssumption DEF IInv, Bounded
<1> QED
  BY <1>4, <1>6 DEF IInv, Typed, TypeOK

(* The variables keep their types, for every size of the buffer and number *)
(* of frames: in particular the buffer is never overfull, and the client   *)
(* is sent at most three frames besides the responses.                     *)
THEOREM TypeCorrect == Spec => []TypeOK
BY Invariant, IInvTypeOK, PTL

(* When sendCh is closed nobody waits to send on it and nobody will, and   *)
(* the end frame is the last the client gets (stream.go:192-199).          *)
THEOREM EndStaysLast == Spec => []EndIsLast
<1>1. IInv => EndIsLast
  <2> SUFFICES ASSUME IInv PROVE EndIsLast
    OBVIOUS
  <2>1. closed => invoke = "returned" /\ Quiet("main") /\ Quiet("invoke")
    BY DEF IInv, Turns
  <2>2. DOMAIN wire = 1..Len(wire)
    BY LenProperties DEF IInv, Typed
  <2> QED
    BY <2>1, <2>2 DEF IInv, EndComesLast, EndIsLast, Senders
<1> QED
  BY Invariant, <1>1, PTL

(* A call that was not cut short accounts to the client for the opening    *)
(* frame, every response (as a message, or as an error where format        *)
(* failed), one outcome and the end, each once, however small the buffer   *)
(* is and however slowly the client reads (stream.go:43-51, 136-151).      *)
THEOREM UncutIsWhole == Spec => []UncutStreamIsWhole
<1>1. IInv => UncutStreamIsWhole
  <2> SUFFICES ASSUME IInv, Ended, ~ ctx PROVE UncutStreamIsWhole
    BY DEF UncutStreamIsWhole
  <2>1. /\ queue = << >> /\ parked["main"] = None /\ parked["invoke"] = None
        /\ invoke = "returned" /\ main = "drain" /\ writing = None
    BY DEF Ended, IInv, Turns, Typed, Quiet
  <2>2. ASSUME NEW type \in Frames PROVE Frame(type) = Sent(type)
    <3>1. Count(<< >>, type) = 0
      BY FS_EmptySet DEF Count
    <3>2. Is(None, type) = 0
      BY NoneAssumption, IsOne
    <3>3. Count(wire, type) \in Nat
      BY CountNumbers DEF IInv
    <3>4. Total(type) = Count(wire, type)
      BY <2>1, <3>1, <3>2, <3>3 DEF Total, Parked
    <3>5. Frame(type) = Count(wire, type)
      BY DEF Frame, Count
    <3> QED
      BY <3>4, <3>5 DEF IInv, NothingLost
  <2>3. received["error"] \in Nat
    BY StreamAssumption DEF IInv, Typed, Answers
  <2>4. /\ Sent("open") = 1 /\ Sent("message") = received["message"] /\ Sent("end") = 1
        /\ Sent("status") = IF fault THEN 0 ELSE 1
        /\ Sent("status") + Sent("error") = received["error"] + 1
    BY <2>1, <2>3 DEF Sent, One
  <2> QED
    BY <2>2, <2>4 DEF UncutStreamIsWhole, Frames
<1> QED
  BY Invariant, <1>1, PTL
=============================================================================
