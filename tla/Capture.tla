------------------------------ MODULE Capture ------------------------------
(***************************************************************************)
(* The response writer the verifying proxy puts between httputil's reverse *)
(* proxy and the client (internal/proxy/proxy.go, type capture).           *)
(*                                                                         *)
(* One exchange.  The reverse proxy (external) passes on any informational *)
(* 1xx answers, then exactly one of: the target's final status and a body  *)
(* in chunks, its error handler's 502, or an upgrade that hijacks the      *)
(* client's connection.  capture keeps what it believes went out; net/http *)
(* (external) decides what the client really receives.                     *)
(***************************************************************************)
EXTENDS Naturals, Sequences

CONSTANTS FinalStatuses,     \* statuses the target may finally answer with
          Informational,     \* the 1xx statuses it may send before that
          Chunks,            \* pieces of body one Write may carry
          MaxBody,           \* maxBody: capture stops keeping once it holds this much
          MaxInformational,  \* model bound: 1xx answers per exchange
          MaxWritten         \* model bound: bytes of body per exchange

OK         == 200            \* http.StatusOK
BadGateway == 502            \* http.StatusBadGateway
Nothing    == 0              \* no status yet

Statuses == FinalStatuses \cup Informational \cup {OK, BadGateway}

ASSUME CaptureAssumption ==
    /\ FinalStatuses \subseteq 200..599
    /\ Informational \subseteq 102..199
    /\ \A c \in Chunks : c \in Seq({"x", "y"}) /\ Len(c) > 0
    /\ MaxBody \in Nat /\ MaxInformational \in Nat /\ MaxWritten \in Nat

VARIABLES phase,        \* where the reverse proxy is with this exchange
          answer,       \* the status the target answered with, Nothing before it did
          wroteHeader,  \* capture.wroteHeader
          status,       \* capture.status
          kept,         \* capture.body
          informed,     \* how many 1xx answers the client has received
          committed,    \* the status line the client received, Nothing before
          received      \* the body the client received

vars == <<phase, answer, wroteHeader, status, kept, informed, committed, received>>

(* The buffer is a bounded one: at most one chunk runs over maxBody        *)
(* (proxy.go:353-357).                                                     *)
TypeOK ==
    /\ phase \in {"waiting", "copying", "failing", "tunnel", "returned"}
    /\ answer \in Statuses \cup {Nothing}
    /\ wroteHeader \in BOOLEAN
    /\ status \in Statuses
    /\ kept \in Seq({"x", "y"})
    /\ kept = << >> \/ \E c \in Chunks : Len(kept) < MaxBody + Len(c)
    /\ informed \in 0..MaxInformational
    /\ committed \in Statuses \cup {Nothing}
    /\ received \in Seq({"x", "y"})

Init ==
    /\ phase = "waiting" /\ answer = Nothing
    /\ wroteHeader = FALSE /\ status = OK /\ kept = << >>
    /\ informed = 0 /\ committed = Nothing /\ received = << >>

---------------------------------------------------------------------------
(* net/http's own writer: a 1xx goes out without committing the header, a  *)
(* second final status is ignored, a body with no header is a 200.         *)

NetWriteHeader(code) ==
    IF committed # Nothing THEN UNCHANGED <<informed, committed>>
    ELSE IF code \in Informational
         THEN informed' = informed + 1 /\ UNCHANGED committed
         ELSE committed' = code /\ UNCHANGED informed

NetWrite(chunk) ==
    /\ committed' = IF committed = Nothing THEN OK ELSE committed
    /\ received' = received \o chunk
    /\ UNCHANGED informed

(* capture.WriteHeader: only the first call is passed on. *)
WriteHeader(code) ==
    /\ IF ~ wroteHeader
       THEN /\ wroteHeader' = TRUE
            /\ status' = code
            /\ NetWriteHeader(code)
       ELSE UNCHANGED <<wroteHeader, status, informed, committed>>
    /\ UNCHANGED <<kept, received>>

(* capture.Write: keeps the chunk while it still holds less than maxBody.  *)
\* variant of KeepsChunk, with a slip
KeepsIfItFits(chunk) == Len(kept) + Len(chunk) <= MaxBody
KeepsChunk(chunk) == Len(kept) < MaxBody

\* variant of Write, with a slip
WriteResetsStatus(chunk) ==
    /\ wroteHeader' = TRUE /\ status' = OK
    /\ kept' = IF KeepsChunk(chunk) THEN kept \o chunk ELSE kept
    /\ NetWrite(chunk)

Write(chunk) ==
    /\ wroteHeader' = TRUE
    /\ kept' = IF KeepsChunk(chunk) THEN kept \o chunk ELSE kept
    /\ NetWrite(chunk)
    /\ UNCHANGED status

---------------------------------------------------------------------------
(* httputil.ReverseProxy's calls on the writer. *)

Inform(code) ==
    /\ phase = "waiting" /\ informed < MaxInformational
    /\ WriteHeader(code)
    /\ UNCHANGED <<phase, answer>>

Answer(code) ==
    /\ phase = "waiting"
    /\ phase' = "copying" /\ answer' = code
    /\ WriteHeader(code)

Copy(chunk) ==
    /\ phase = "copying" /\ Len(received) + Len(chunk) <= MaxWritten
    /\ Write(chunk)
    /\ UNCHANGED <<phase, answer>>

(* rp.ErrorHandler: the target could not be reached; 502 and then a body.  *)
ErrorStatus ==
    /\ phase = "waiting"
    /\ phase' = "failing"
    /\ WriteHeader(BadGateway)
    /\ UNCHANGED answer

ErrorBody(chunk) ==
    /\ phase = "failing"
    /\ phase' = "returned"
    /\ Write(chunk)
    /\ UNCHANGED answer

(* A 101: the reverse proxy unwraps capture and hijacks the connection, so *)
(* nothing that follows passes through capture.                            *)
Upgrade ==
    /\ phase = "waiting"
    /\ phase' = "tunnel"
    /\ UNCHANGED <<answer, wroteHeader, status, kept, informed, committed, received>>

Unwrap ==
    /\ phase = "tunnel"
    /\ phase' = "returned"
    /\ UNCHANGED <<answer, wroteHeader, status, kept, informed, committed, received>>

(* The handler returns; net/http commits a 200 if nothing was committed.   *)
Return ==
    /\ phase = "copying"
    /\ phase' = "returned"
    /\ committed' = IF committed = Nothing THEN OK ELSE committed
    /\ UNCHANGED <<answer, wroteHeader, status, kept, informed, received>>

Next ==
    \/ \E code \in Informational : Inform(code)
    \/ \E code \in FinalStatuses : Answer(code)
    \/ \E chunk \in Chunks : Copy(chunk) \/ ErrorBody(chunk)
    \/ ErrorStatus \/ Upgrade \/ Unwrap \/ Return

Spec == Init /\ [][Next]_vars

---------------------------------------------------------------------------
(* Whatever capture kept is the beginning of what the client received, and *)
(* a body that was not kept whole is longer than maxBody: short bodies are *)
(* always judged complete, however they were cut into writes, and the      *)
(* checker never judges a body the API did not send (proxy.go:353-357).    *)
KeptIsTheBeginning ==
    /\ Len(kept) <= Len(received)
    /\ kept = SubSeq(received, 1, Len(kept))
    /\ kept # received => Len(kept) >= MaxBody /\ Len(received) > MaxBody

(* Without a 1xx the exchange judged and recorded carries the status line  *)
(* the client got, which is the target's (proxy.go:153-157).               *)
PlainAnswersAreExact ==
    phase = "returned" /\ answer # Nothing /\ informed = 0
        => committed = answer /\ status = answer

(* "The client must receive exactly what the API sent"                     *)
(* (internal/proxy/proxy_test.go:104-106): the status as well.             *)
StatusForwarded ==
    phase = "returned" /\ answer # Nothing => committed = answer
============================================================================
