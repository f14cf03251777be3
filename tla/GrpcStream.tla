----------------------------- MODULE GrpcStream -----------------------------
(***************************************************************************)
(* One RPC over the console's WebSocket (internal/grpcx/stream.go, Stream):*)
(* the goroutines of one call, the channel their frames are funnelled      *)
(* through and the pipe that feeds the request parser.                     *)
(*                                                                         *)
(* grpcurl's InvokeRPC is external.  It pulls requests from the pipe: a    *)
(* bidirectional call does so in a goroutine of its own, which it joins    *)
(* before it returns; any other call reads its requests first.             *)
(***************************************************************************)
EXTENDS Naturals, Sequences, FiniteSets

CONSTANTS Buffer,        \* capacity of sendCh
          None,          \* no frame
          MaxMessages,   \* model bound: responses the server sends
          MaxSends       \* model bound: "send" frames the client sends

ASSUME StreamAssumption ==
    Buffer \in Nat \ {0} /\ MaxMessages \in Nat /\ MaxSends \in Nat

Frames == {"open", "message", "status", "error", "end"}
ASSUME NoneAssumption == None \notin Frames
Senders == {"main", "invoke"}    \* the goroutines that call send
Answers == {"message", "error"}  \* what a response becomes: error when format fails

VARIABLES kind,       \* "bidi", or "first" when requests are read first
          ctx,        \* the call's context is done
          main,       \* Stream itself
          invoke,     \* the goroutine of grpcurl.InvokeRPC
          feed,       \* whoever in grpcurl reads the pipe
          reader,     \* the read loop
          writer,     \* the writer goroutine
          watcher,    \* the goroutine that waits for ctx
          pipe,       \* the request pipe is "open" or "closed"
          conn,       \* Stream has not closed the socket
          queue,      \* sendCh
          closed,     \* close(sendCh) was called
          parked,     \* sender -> the frame it waits to send
          writing,    \* the frame the writer holds
          wire,       \* frames the client was sent
          over,       \* the server's status has come
          fault,      \* InvokeRPC returns an error of its own
          received,   \* history: responses grpcurl handed to wsHandler, by what they became
          sends       \* "send" frames read

vars == <<kind, ctx, main, invoke, feed, reader, writer, watcher, pipe, conn, queue,
          closed, parked, writing, wire, over, fault, received, sends>>

Responses == received["message"] + received["error"]

TypeOK ==
    /\ kind \in {"bidi", "first"}
    /\ main \in {"init", "open", "wait", "error", "end", "close", "drain", "returned"}
    /\ invoke \in {"off", "requests", "receive", "trailers", "join", "returned"}
    /\ feed \in {"off", "reading", "sending", "done"}
    /\ reader \in {"off", "read", "data", "newline", "done"}
    /\ writer \in {"off", "range", "write", "done", "failed"}
    /\ watcher \in {"off", "waiting", "done"}
    /\ pipe \in {"open", "closed"}
    /\ {ctx, conn, closed, over, fault} \subseteq BOOLEAN
    /\ queue \in Seq(Frames) /\ Len(queue) <= Buffer
    /\ parked \in [Senders -> Frames \cup {None}]
    /\ writing \in Frames \cup {None} /\ (writing # None <=> writer = "write")
    /\ wire \in Seq(Frames) /\ Len(wire) <= MaxMessages + 3
    /\ received \in [Answers -> 0..MaxMessages] /\ Responses <= MaxMessages
    /\ sends \in 0..MaxSends

Init ==
    /\ kind \in {"bidi", "first"}
    /\ main = "init"
    /\ invoke = "off" /\ feed = "off" /\ reader = "off" /\ writer = "off"
    /\ watcher = "off"
    /\ ctx = FALSE /\ pipe = "open" /\ conn = TRUE /\ closed = FALSE
    /\ queue = << >> /\ parked = [s \in Senders |-> None]
    /\ writing = None /\ wire = << >>
    /\ over = FALSE /\ fault = FALSE /\ sends = 0
    /\ received = [answer \in Answers |-> 0]

world == <<pipe, conn, over, fault, received, sends>>
channel == <<queue, closed, parked>>

---------------------------------------------------------------------------
(* send: into the buffer if there is room; failing that, whichever of room *)
(* and the end of the context is found first.                              *)

Quiet(s) == parked[s] = None

Try(s, frame) ==
    /\ Quiet(s)
    /\ IF Len(queue) < Buffer
       THEN queue' = Append(queue, frame) /\ UNCHANGED parked
       ELSE parked' = [parked EXCEPT ![s] = frame] /\ UNCHANGED queue
    /\ UNCHANGED closed

Push(s) ==
    /\ ~ Quiet(s) /\ Len(queue) < Buffer
    /\ queue' = Append(queue, parked[s])
    /\ parked' = [parked EXCEPT ![s] = None]
    /\ UNCHANGED <<kind, ctx, main, invoke, feed, reader, writer, watcher, world,
                   closed, writing, wire>>

\* variant of GivesUp, with a slip
GivesUpAtOnce(s) == ~ Quiet(s)
GivesUp(s) == ~ Quiet(s) /\ ctx

Drop(s) ==
    /\ GivesUp(s)
    /\ parked' = [parked EXCEPT ![s] = None]
    /\ UNCHANGED <<kind, ctx, main, invoke, feed, reader, writer, watcher, world,
                   queue, closed, writing, wire>>

---------------------------------------------------------------------------
(* Stream.  *)

(* The first frame was no init with a target, or the target could not be   *)
(* described: Stream writes two frames itself and returns.                 *)
Reject ==
    /\ main = "init"
    /\ \E told \in {<<"error", "end">>, << >>} : wire' = told
    /\ main' = "returned" /\ ctx' = TRUE /\ conn' = FALSE
    /\ UNCHANGED <<kind, invoke, feed, reader, writer, watcher, pipe, channel, writing,
                   over, fault, received, sends>>

Start ==
    /\ main = "init"
    /\ main' = "open"
    /\ watcher' = "waiting" /\ writer' = "range"
    /\ invoke' = IF kind = "bidi" THEN "receive" ELSE "requests"
    /\ feed' = "reading"
    /\ UNCHANGED <<kind, ctx, reader, world, channel, writing, wire>>

SendOpen ==
    /\ main = "open"
    /\ Try("main", "open")
    /\ main' = "wait"
    /\ UNCHANGED <<kind, ctx, invoke, feed, reader, writer, watcher, world, writing, wire>>

(* The read loop is started once the open frame was sent. *)
StartReading ==
    /\ main = "wait" /\ Quiet("main") /\ reader = "off"
    /\ reader' = "read"
    /\ UNCHANGED <<kind, ctx, main, invoke, feed, writer, watcher, world, channel,
                   writing, wire>>

(* <-invokeDone, then pw.Close() *)
\* variant of InvokeDone, with a slip
InvokeOrCancel == ctx
InvokeDone == invoke = "returned" /\ Quiet("invoke")

(* ierr != nil && ierr != io.EOF *)
Failed == fault

Finish ==
    /\ main = "wait" /\ reader # "off" /\ InvokeDone
    /\ pipe' = "closed"
    /\ main' = IF Failed THEN "error" ELSE "end"
    /\ UNCHANGED <<kind, ctx, invoke, feed, reader, writer, watcher, conn, over, fault,
                   received, sends, channel, writing, wire>>

SendError ==
    /\ main = "error"
    /\ Try("main", "error")
    /\ main' = "end"
    /\ UNCHANGED <<kind, ctx, invoke, feed, reader, writer, watcher, world, writing, wire>>

SendEnd ==
    /\ main = "end"
    /\ Try("main", "end")
    /\ main' = "close"
    /\ UNCHANGED <<kind, ctx, invoke, feed, reader, writer, watcher, world, writing, wire>>

CloseQueue ==
    /\ main = "close" /\ Quiet("main")
    /\ closed' = TRUE
    /\ main' = "drain"
    /\ UNCHANGED <<kind, ctx, invoke, feed, reader, writer, watcher, world, queue,
                   parked, writing, wire>>

(* <-writerDone, then the deferred cc.Close, cancel and conn.Close *)
Return ==
    /\ main = "drain" /\ writer \in {"done", "failed"}
    /\ main' = "returned" /\ ctx' = TRUE /\ conn' = FALSE
    /\ UNCHANGED <<kind, invoke, feed, reader, writer, watcher, pipe, channel, writing,
                   wire, over, fault, received, sends>>

Main ==
    \/ Start \/ SendOpen \/ StartReading \/ Finish \/ SendError \/ SendEnd
    \/ CloseQueue \/ Return \/ Push("main") \/ Drop("main")

---------------------------------------------------------------------------
(* The writer. *)

Take ==
    /\ writer = "range" /\ queue # << >>
    /\ writing' = Head(queue) /\ queue' = Tail(queue)
    /\ writer' = "write"
    /\ UNCHANGED <<kind, ctx, main, invoke, feed, reader, watcher, world, closed, parked,
                   wire>>

Written ==
    /\ writer = "write"
    /\ wire' = Append(wire, writing)
    /\ writer' = "range" /\ writing' = None
    /\ UNCHANGED <<kind, ctx, main, invoke, feed, reader, watcher, world, channel>>

(* The client is gone, or took no byte for ten seconds. *)
WriteFails ==
    /\ writer = "write"
    /\ writer' = "failed" /\ writing' = None
    /\ ctx' = TRUE
    /\ UNCHANGED <<kind, main, invoke, feed, reader, watcher, world, channel, wire>>

RangeEnds ==
    /\ writer = "range" /\ queue = << >> /\ closed
    /\ writer' = "done"
    /\ UNCHANGED <<kind, ctx, main, invoke, feed, reader, watcher, world, channel,
                   writing, wire>>

Writer == Take \/ Written \/ WriteFails \/ RangeEnds

---------------------------------------------------------------------------
(* The read loop.  A "send" is written to the pipe in two pieces, each of  *)
(* which waits for the parser to take it; errors of the pipe are ignored.  *)

ReadSend ==
    /\ reader = "read" /\ conn /\ sends < MaxSends
    /\ sends' = sends + 1
    /\ reader' = "data"
    /\ UNCHANGED <<kind, ctx, main, invoke, feed, writer, watcher, pipe, conn, over,
                   fault, received, channel, writing, wire>>

ReadHalfClose ==
    /\ reader = "read" /\ conn
    /\ pipe' = "closed"
    /\ UNCHANGED <<kind, ctx, main, invoke, feed, reader, writer, watcher, conn, over,
                   fault, received, sends, channel, writing, wire>>

(* A cancel frame; the socket failed or carried no JSON; Stream closed it. *)
StopReading ==
    /\ reader = "read"
    /\ reader' = "done" /\ ctx' = TRUE
    /\ UNCHANGED <<kind, main, invoke, feed, writer, watcher, world, channel, writing, wire>>

WriteRefused ==
    /\ reader \in {"data", "newline"} /\ pipe = "closed"
    /\ reader' = "read"
    /\ UNCHANGED <<kind, ctx, main, invoke, feed, writer, watcher, world, channel,
                   writing, wire>>

Reader == ReadSend \/ ReadHalfClose \/ StopReading \/ WriteRefused

---------------------------------------------------------------------------
(* The context. *)

Timeout ==
    /\ main # "init" /\ ~ ctx
    /\ ctx' = TRUE
    /\ UNCHANGED <<kind, main, invoke, feed, reader, writer, watcher, world, channel,
                   writing, wire>>

(* <-ctx.Done(), then pw.CloseWithError(io.EOF) *)
\* variant of Watch, with a slip
WatchForgets ==
    /\ watcher = "waiting" /\ ctx
    /\ watcher' = "done"
    /\ UNCHANGED <<kind, ctx, main, invoke, feed, reader, writer, world, channel,
                   writing, wire>>
Watch ==
    /\ watcher = "waiting" /\ ctx
    /\ watcher' = "done" /\ pipe' = "closed"
    /\ UNCHANGED <<kind, ctx, main, invoke, feed, reader, writer, conn, over, fault,
                   received, sends, channel, writing, wire>>

---------------------------------------------------------------------------
(* grpcurl: requests.  A request is complete with its data; the newline is *)
(* taken with the read that looks for the next one.                        *)

TakeData ==
    /\ feed = "reading" /\ reader = "data"
    /\ reader' = "newline"
    /\ feed' = "sending"
    /\ UNCHANGED <<kind, ctx, main, invoke, writer, watcher, world, channel, writing, wire>>

(* The data does not parse, or a call of one request has been given two:   *)
(* the call is over, and fails if its outcome was not settled before.      *)
BadRequest ==
    /\ feed = "reading" /\ reader = "data"
    /\ reader' = "newline"
    /\ feed' = "done" /\ over' = TRUE
    /\ fault' = (invoke \in {"requests", "receive"})
    /\ UNCHANGED <<kind, ctx, main, invoke, writer, watcher, pipe, conn, received, sends,
                   channel, writing, wire>>

TakeNewline ==
    /\ feed = "reading" /\ reader = "newline"
    /\ reader' = "read"
    /\ UNCHANGED <<kind, ctx, main, invoke, feed, writer, watcher, world, channel,
                   writing, wire>>

(* The server's flow control lets the request go. *)
RequestSent ==
    /\ feed = "sending"
    /\ feed' = "reading"
    /\ UNCHANGED <<kind, ctx, main, invoke, reader, writer, watcher, world, channel,
                   writing, wire>>

EndOfRequests ==
    /\ \/ feed = "reading" /\ pipe = "closed"
       \/ feed = "sending" /\ (over \/ ctx)
    /\ feed' = "done"
    /\ UNCHANGED <<kind, ctx, main, invoke, reader, writer, watcher, world, channel,
                   writing, wire>>

---------------------------------------------------------------------------
(* grpcurl: responses, and the wsHandler's callbacks. *)

ServerEnds ==
    /\ invoke \in {"requests", "receive"} /\ ~ over
    /\ over' = TRUE
    /\ UNCHANGED <<kind, ctx, main, invoke, feed, reader, writer, watcher, pipe, conn,
                   fault, received, sends, channel, writing, wire>>

RequestsRead ==
    /\ invoke = "requests" /\ feed = "done"
    /\ invoke' = IF fault THEN "join" ELSE "receive"
    /\ UNCHANGED <<kind, ctx, main, feed, reader, writer, watcher, world, channel,
                   writing, wire>>

(* A response that came before the status may be read after it came.  One  *)
(* that cannot be formatted is told as an error, and the call goes on.     *)
OnReceiveResponse ==
    /\ invoke = "receive" /\ Responses < MaxMessages
    /\ \E answer \in Answers :
          /\ Try("invoke", answer)
          /\ received' = [received EXCEPT ![answer] = @ + 1]
    /\ UNCHANGED <<kind, ctx, main, invoke, feed, reader, writer, watcher, pipe, conn,
                   over, fault, sends, writing, wire>>

NoMoreResponses ==
    /\ invoke = "receive" /\ Quiet("invoke") /\ (over \/ ctx)
    /\ invoke' = IF fault THEN "join" ELSE "trailers"
    /\ UNCHANGED <<kind, ctx, main, feed, reader, writer, watcher, world, channel,
                   writing, wire>>

OnReceiveTrailers ==
    /\ invoke = "trailers"
    /\ Try("invoke", "status")
    /\ invoke' = "join"
    /\ UNCHANGED <<kind, ctx, main, feed, reader, writer, watcher, world, writing, wire>>

(* The deferred wait for the goroutine that reads the pipe. *)
Joined ==
    /\ invoke = "join" /\ Quiet("invoke") /\ feed = "done"
    /\ invoke' = "returned"
    /\ UNCHANGED <<kind, ctx, main, feed, reader, writer, watcher, world, channel,
                   writing, wire>>

Feed == TakeData \/ BadRequest \/ TakeNewline \/ EndOfRequests
Invoke ==
    \/ RequestsRead \/ NoMoreResponses \/ OnReceiveTrailers \/ Joined
    \/ Push("invoke") \/ Drop("invoke")

Next ==
    \/ Reject \/ Main \/ Writer \/ Reader \/ Timeout \/ Watch
    \/ Feed \/ RequestSent \/ ServerEnds \/ OnReceiveResponse \/ Invoke

Spec == Init /\ [][Next]_vars

(* Goroutines run, the timeout comes, a socket write ends one way or the   *)
(* other by its deadline, and reading a closed socket fails.  Neither the  *)
(* client nor the server owes anything.                                    *)
ReaderRuns == WriteRefused \/ (~ conn /\ StopReading)
FairSpec ==
    /\ Spec
    /\ WF_vars(Main) /\ WF_vars(Writer) /\ WF_vars(ReaderRuns)
    /\ WF_vars(Timeout) /\ WF_vars(Watch) /\ WF_vars(Feed) /\ WF_vars(Invoke)

---------------------------------------------------------------------------
Frame(type) == Cardinality({i \in DOMAIN wire : wire[i] = type})
Ended == main = "drain" /\ writer = "done"

(* Nobody is left who could send when sendCh is closed (a send would       *)
(* panic), and "end" is "terminal": nothing follows it                     *)
(* (stream.go:192-199).                                                    *)
EndIsLast ==
    /\ closed => /\ invoke = "returned"
                 /\ \A s \in Senders : Quiet(s)
    /\ \A i \in DOMAIN wire : wire[i] = "end" => i = Len(wire)

(* A call that was neither cancelled nor timed out and whose client kept   *)
(* reading accounts to it for every response, once, as a message or, where *)
(* format failed, as an error; beside them it gets one outcome and the     *)
(* end, however slowly it read (stream.go:43-51, 136-151).                 *)
UncutStreamIsWhole ==
    Ended /\ ~ ctx =>
        /\ Frame("open") = 1 /\ Frame("message") = received["message"]
        /\ Frame("status") + Frame("error") = received["error"] + 1
        /\ Frame("status") = (IF fault THEN 0 ELSE 1) /\ Frame("end") = 1

(* A call that was started ends, and no goroutine outlives it: neither the *)
(* request reader on the pipe nor a sender on the channel nor the reader   *)
(* on the socket (stream.go:106-112, 126-135, 192-199).                    *)
AllGone ==
    /\ main = "returned" /\ watcher = "done"
    /\ invoke = "returned" /\ feed = "done"
    /\ reader = "done" /\ writer \in {"done", "failed"}

StartedEnds == main = "open" ~> AllGone
=============================================================================
