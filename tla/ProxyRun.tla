----------------------------- MODULE ProxyRun -----------------------------
(***************************************************************************)
(* One run of "spector -proxy" (cmd/spector/proxy.go, runProxy): the main  *)
(* goroutine serves until a signal, lets the server drain, and then reads  *)
(* the proxy's shared state one lock at a time - for the summary, for the  *)
(* report, for the learned fragment - before it decides the exit code.     *)
(*                                                                         *)
(* Shutdown waits for the handlers in flight for a while only, and never   *)
(* for a hijacked connection, so handlers may still be at work when the    *)
(* reports are written; the process's exit ends them.                      *)
(***************************************************************************)
EXTENDS Proxy

CONSTANT Strict          \* -proxy-strict

ASSUME RunAssumption == Strict \in BOOLEAN

VARIABLES main,          \* where the main goroutine is
          hijacked,      \* requests whose connection the server let go of
          expired,       \* Shutdown's deadline passed with handlers in flight
          summary,       \* the summary printed: findings, then requests
          report,        \* the report written: requests, then findings
          fragment,      \* what the learned document was made from
          exit           \* the exit code

runVars == <<main, hijacked, expired, summary, report, fragment, exit>>
allVars == <<vars, runVars>>

Unread == [findings |-> {}, requests |-> 0]

RunInit ==
    /\ Init
    /\ main = "serving" /\ hijacked = {} /\ expired = FALSE
    /\ summary = Unread /\ report = Unread /\ fragment = {} /\ exit = 0

RunTypeOK ==
    /\ TypeOK
    /\ main \in {"serving", "draining", "summary", "counting", "report",
                 "reporting", "learning", "exited", "failed"}
    /\ hijacked \subseteq Requests /\ expired \in BOOLEAN
    /\ {summary, report} \subseteq [findings : SUBSET Finding, requests : Nat]
    /\ fragment \subseteq Paths /\ exit \in {0, 1}

Ended == {"exited", "failed"}

(* What one reading of the findings under the lock yields. *)
Findings == DOMAIN findings

---------------------------------------------------------------------------
(* A handler's step: the listener is closed once the server drains, and    *)
(* nothing runs after exit.  The command's OnFinding does not panic.       *)
Listening(r) == pc[r] = "idle" => main = "serving"

HandlerStep(r) ==
    /\ main \notin Ended /\ Listening(r)
    /\ (Arrive(r) \/ Forward(r) \/ Observation(r))
    /\ hijacked' = IF pc'[r] = "tunnel" THEN hijacked \cup {r} ELSE hijacked
    /\ UNCHANGED <<main, expired, summary, report, fragment, exit>>

Signal ==
    /\ main = "serving"
    /\ main' = "draining"
    /\ UNCHANGED <<vars, hijacked, expired, summary, report, fragment, exit>>

(* Handlers Shutdown has to wait for. *)
Over == {"idle", "aborted", "recovered", "done"}
InFlight == {r \in Requests \ hijacked : pc[r] \notin Over}

\* variant of Quiet, with a slip
AnyTime == TRUE
Quiet == InFlight = {}

Drained ==
    /\ main = "draining" /\ Quiet
    /\ main' = "summary"
    /\ UNCHANGED <<vars, hijacked, expired, summary, report, fragment, exit>>

\* variant of DeadlineExpires, with a slip
ShutdownWaits ==
    /\ main = "draining" /\ Quiet
    /\ main' = "summary" /\ expired' = TRUE
    /\ UNCHANGED <<vars, hijacked, summary, report, fragment, exit>>
DeadlineExpires ==
    /\ main = "draining" /\ ~ Quiet
    /\ main' = "summary" /\ expired' = TRUE
    /\ UNCHANGED <<vars, hijacked, summary, report, fragment, exit>>

(* findings := p.Findings() *)
SummariseFindings ==
    /\ main = "summary"
    /\ summary' = [summary EXCEPT !.findings = Findings]
    /\ main' = "counting"
    /\ UNCHANGED <<vars, hijacked, expired, report, fragment, exit>>

(* p.Requests(), for the same line of the summary *)
SummariseRequests ==
    /\ main = "counting"
    /\ summary' = [summary EXCEPT !.requests = requests]
    /\ main' = "report"
    /\ UNCHANGED <<vars, hijacked, expired, report, fragment, exit>>

(* p.Report: Requests() first, then Findings() *)
ReportRequests ==
    /\ main = "report"
    /\ report' = [report EXCEPT !.requests = requests]
    /\ main' = "reporting"
    /\ UNCHANGED <<vars, hijacked, expired, summary, fragment, exit>>

ReportFindings ==
    /\ main = "reporting"
    /\ report' = [report EXCEPT !.findings = Findings]
    /\ main' = "learning"
    /\ UNCHANGED <<vars, hijacked, expired, summary, fragment, exit>>

(* The listener failed, or a file could not be written: exit 1, at once    *)
Fails ==
    /\ main \in {"serving", "reporting", "learning"}
    /\ main' = "failed" /\ exit' = 1
    /\ UNCHANGED <<vars, hijacked, expired, summary, report, fragment>>

(* The strict exit code is decided by the summary's reading, not the report's *)
ExitCode == IF Strict /\ summary.findings # {} THEN 1 ELSE 0

(* learner.Document, then the return from runProxy *)
LearnAndExit ==
    /\ main = "learning"
    /\ fragment' = DOMAIN seen
    /\ exit' = ExitCode
    /\ main' = "exited"
    /\ UNCHANGED <<vars, hijacked, expired, summary, report>>

Main ==
    \/ Signal \/ Drained \/ DeadlineExpires
    \/ SummariseFindings \/ SummariseRequests
    \/ ReportRequests \/ ReportFindings \/ LearnAndExit \/ Fails

RunNext == Main \/ \E r \in Requests : HandlerStep(r)

RunSpec == RunInit /\ [][RunNext]_allVars

(* Once signalled, Shutdown returns by its deadline at the latest, and the *)
(* main goroutine runs on; the handlers owe nothing.                       *)
RunFairSpec ==
    RunSpec /\ WF_allVars(Drained \/ DeadlineExpires)
            /\ WF_allVars(SummariseFindings \/ SummariseRequests)
            /\ WF_allVars(ReportRequests \/ ReportFindings \/ LearnAndExit)

---------------------------------------------------------------------------
(* A run that drained, with no connection hijacked, reports all there was: *)
(* the report, the summary and the shared state agree, every request that  *)
(* arrived is in the count, every gap observed to the end is in the        *)
(* fragment up to its limit, and with -proxy-strict the run fails exactly  *)
(* when its report shows drift (cmd/spector/proxy.go:110-170).             *)
DrainedRunIsComplete ==
    main = "exited" /\ ~ expired /\ hijacked = {} =>
        /\ summary = report /\ report.findings = Findings
        /\ report.requests = Cardinality({r \in Requests : pc[r] \in {"recovered", "done"}})
        /\ \A r \in Requests :
              pc[r] = "done" /\ Learns(ex[r])
                => Endpoint(ex[r]) \in fragment \/ Cardinality(fragment) = MaxLearned
        /\ exit = 1 <=> Strict /\ report.findings # {}

(* Whatever is still running, a finding in the summary is in the report    *)
(* too, and "zero findings over zero requests says nothing" never turns    *)
(* into findings over zero requests in the summary, which reads the        *)
(* findings first (cmd/spector/proxy.go:117-129).                          *)
SummaryIsCovered ==
    main = "exited" =>
        /\ summary.findings \subseteq report.findings
        /\ summary.findings # {} => summary.requests > 0
        /\ summary.requests <= report.requests

(* A signalled run ends, even if the target never answers again            *)
(* (cmd/spector/proxy.go:110-115).                                         *)
SignalEndsTheRun == main = "draining" ~> main \in Ended
============================================================================
