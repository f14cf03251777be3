--------------------------- MODULE BaselineProofs ---------------------------
(***************************************************************************)
(* Proofs about Baseline: its type invariant, and that what is scanned is  *)
(* the whole revision, for every size of the archive and of the pipe; and  *)
(* about EvolveRun: that the command is the baseline's protocol besides    *)
(* what it does itself, and what a gated run may let pass.                 *)
(***************************************************************************)
EXTENDS EvolveRun, TLAPS

(* No block is lost or made up between the two commands. *)
BlocksAreConserved == sent = extracted + pipe

(* A command that ended well did all of its work: git wrote the archive,   *)
(* tar read to the end of what a git that ended had written.               *)
EndsAreHonest ==
    /\ git = "ok" => sent = size
    /\ tar = "ok" => pipe = 0 /\ git \in {"ok", "failed"}

(* How far the program is says what it waited for. *)
WaitsAreKept ==
    /\ main \in {"start", "temp", "started"} => git = "off"
    /\ main \in {"extract", "scan", "scanned"} => git = "ok"
    /\ main \in {"scan", "scanned"} => tar = "ok"

IInv == TypeOK /\ BlocksAreConserved /\ EndsAreHonest /\ WaitsAreKept

LEMMA InitIInv == Init => IInv
<1> SUFFICES ASSUME Init PROVE IInv
  OBVIOUS
<1>1. /\ size \in 0..MaxBlocks /\ sent \in 0..size /\ extracted \in 0..size
      /\ pipe \in 0..PipeSize /\ extracted + pipe <= sent
  BY BaselineAssumption DEF Init
<1>2. TypeOK
  BY <1>1 DEF Init, TypeOK, Process
<1>3. BlocksAreConserved /\ EndsAreHonest /\ WaitsAreKept
  BY DEF Init, BlocksAreConserved, EndsAreHonest, WaitsAreKept
<1> QED
  BY <1>2, <1>3 DEF IInv

(* A step of revisionDoc keeps the invariant: it moves no block, and waits *)
(* for the commands it says it waited for.                                 *)
LEMMA MainIInv ==
    ASSUME IInv, Main
    PROVE  IInv'
<1>a. TypeOK /\ BlocksAreConserved /\ EndsAreHonest /\ WaitsAreKept
  BY DEF IInv
<1>b. UNCHANGED <<size, sent, pipe, extracted>>
  BY DEF Main, Refuse, Prepare, StartExtract, StartExtractFails, StartArchive,
         StartArchiveFails, WaitArchive, WaitExtract, Scan
<1>1. TypeOK'
  <2>1. /\ size' \in 0..MaxBlocks /\ sent' \in 0..size'
        /\ pipe' \in 0..PipeSize /\ extracted' \in 0..size' /\ extracted' + pipe' <= sent'
    BY <1>a, <1>b DEF TypeOK
  <2>2. git' \in Process /\ tar' \in Process /\ held' \in BOOLEAN
    BY <1>a DEF TypeOK, Process, Main, Refuse, Prepare, StartExtract, StartExtractFails,
                StartArchive, StartArchiveFails, WaitArchive, WaitExtract, Scan
  <2>3. /\ main' \in {"start", "temp", "started", "archive", "extract", "scan", "scanned", "error"}
        /\ temp' = (main' \notin {"start", "scanned", "error"})
    BY <1>a DEF TypeOK, Main, Refuse, Prepare, StartExtract, StartExtractFails,
                StartArchive, StartArchiveFails, WaitArchive, WaitExtract, Scan, Returns
  <2> QED
    BY <2>1, <2>2, <2>3 DEF TypeOK
<1>2. BlocksAreConserved'
  BY <1>a, <1>b DEF BlocksAreConserved
<1>3. EndsAreHonest'
  BY <1>a, <1>b DEF EndsAreHonest, WaitsAreKept, Main, Refuse, Prepare, StartExtract,
         StartExtractFails, StartArchive, StartArchiveFails, WaitArchive, WaitExtract, Scan
<1>4. WaitsAreKept'
  BY <1>a DEF WaitsAreKept, Main, Refuse, Prepare, StartExtract, StartExtractFails, StartArchive,
         StartArchiveFails, WaitArchive, WaitExtract, ExtractDone, Scan, Returns
<1> QED
  BY <1>1, <1>2, <1>3, <1>4 DEF IInv

(* So does a step of a command: a block that leaves one place is in the    *)
(* next, and a command that ended stays ended.                             *)
LEMMA CommandIInv ==
    ASSUME IInv, Commands \/ GitFails \/ TarFails
    PROVE  IInv'
<1>a. TypeOK /\ BlocksAreConserved /\ EndsAreHonest /\ WaitsAreKept
  BY DEF IInv
<1>b. /\ size \in Nat /\ sent \in Nat /\ sent <= size /\ size <= MaxBlocks
      /\ pipe \in Nat /\ pipe <= PipeSize /\ extracted \in Nat /\ sent = extracted + pipe
  BY <1>a, BaselineAssumption DEF TypeOK, BlocksAreConserved
<1>1. CASE GitWrites
  <2>1. TypeOK'
    BY <1>a, <1>b, <1>1, BaselineAssumption DEF GitWrites, TypeOK
  <2>2. BlocksAreConserved'
    BY <1>b, <1>1 DEF GitWrites, BlocksAreConserved
  <2>3. EndsAreHonest' /\ WaitsAreKept'
    BY <1>a, <1>b, <1>1 DEF GitWrites, EndsAreHonest, WaitsAreKept
  <2> QED
    BY <2>1, <2>2, <2>3 DEF IInv
<1>2. CASE GitEnds
  <2>1. TypeOK'
    BY <1>a, <1>2 DEF GitEnds, TypeOK, Process
  <2>2. BlocksAreConserved'
    BY <1>b, <1>2 DEF GitEnds, BlocksAreConserved
  <2>3. EndsAreHonest' /\ WaitsAreKept'
    BY <1>a, <1>b, <1>2 DEF GitEnds, EndsAreHonest, WaitsAreKept
  <2> QED
    BY <2>1, <2>2, <2>3 DEF IInv
<1>3. CASE TarReads
  <2>1. TypeOK'
    <3>1. pipe' \in 0..PipeSize /\ extracted' \in 0..size /\ extracted' + pipe' = extracted + pipe
      BY <1>b, <1>3, BaselineAssumption DEF TarReads
    <3> QED
      BY <1>a, <1>3, <3>1 DEF TarReads, TypeOK
  <2>2. BlocksAreConserved'
    BY <1>b, <1>3 DEF TarReads, BlocksAreConserved
  <2>3. EndsAreHonest' /\ WaitsAreKept'
    BY <1>a, <1>b, <1>3 DEF TarReads, EndsAreHonest, WaitsAreKept
  <2> QED
    BY <2>1, <2>2, <2>3 DEF IInv
<1>4. CASE TarEnds
  <2>1. TypeOK'
    BY <1>a, <1>4 DEF TarEnds, TypeOK, Process
  <2>2. BlocksAreConserved'
    BY <1>b, <1>4 DEF TarEnds, BlocksAreConserved
  <2>3. EndsAreHonest' /\ WaitsAreKept'
    BY <1>a, <1>4 DEF TarEnds, EndsAreHonest, WaitsAreKept
  <2> QED
    BY <2>1, <2>2, <2>3 DEF IInv
<1>5. CASE GitFails
  <2>1. TypeOK'
    BY <1>a, <1>5 DEF GitFails, TypeOK, Process
  <2>2. BlocksAreConserved'
    BY <1>b, <1>5 DEF GitFails, BlocksAreConserved
  <2>3. EndsAreHonest' /\ WaitsAreKept'
    BY <1>a, <1>5 DEF GitFails, EndsAreHonest, WaitsAreKept
  <2> QED
    BY <2>1, <2>2, <2>3 DEF IInv
<1>6. CASE TarFails
  <2>1. TypeOK'
    BY <1>a, <1>6 DEF TarFails, TypeOK, Process
  <2>2. BlocksAreConserved'
    BY <1>b, <1>6 DEF TarFails, BlocksAreConserved
  <2>3. EndsAreHonest' /\ WaitsAreKept'
    BY <1>a, <1>6 DEF TarFails, EndsAreHonest, WaitsAreKept
  <2> QED
    BY <2>1, <2>2, <2>3 DEF IInv
<1> QED
  BY <1>1, <1>2, <1>3, <1>4, <1>5, <1>6 DEF Commands

LEMMA Invariance == Spec => []IInv
<1>1. Init => IInv
  BY InitIInv
<1>2. IInv /\ [Next]_vars => IInv'
  <2>1. IInv /\ UNCHANGED vars => IInv'
    BY DEF IInv, TypeOK, BlocksAreConserved, EndsAreHonest, WaitsAreKept, vars
  <2> QED
    BY <2>1, MainIInv, CommandIInv DEF Next
<1> QED
  BY <1>1, <1>2, PTL DEF Spec

(* The protocol's state is what its types say; in particular the export    *)
(* directory exists exactly while revisionDoc is at work.                  *)
THEOREM TypeCorrect == Spec => []TypeOK
<1>1. IInv => TypeOK
  BY DEF IInv
<1> QED
  BY <1>1, Invariance, PTL

(* Who is past both waits has all of the revision before it.              *)
LEMMA CompleteWhenScanned == IInv => ScannedIsComplete
<1> SUFFICES ASSUME IInv, main \in {"scan", "scanned"}
             PROVE  git = "ok" /\ tar = "ok" /\ extracted = size
  BY DEF ScannedIsComplete
<1>1. git = "ok" /\ tar = "ok"
  BY DEF IInv, WaitsAreKept
<1>2. sent = size /\ pipe = 0 /\ sent = extracted + pipe /\ extracted \in 0..size
  BY <1>1 DEF IInv, TypeOK, BlocksAreConserved, EndsAreHonest
<1> QED
  BY <1>1, <1>2, BaselineAssumption

(* A baseline is scanned only when all of the revision was extracted:      *)
(* whichever command dies, in whichever order the two waits return, and    *)
(* however little of the archive the pipe holds.                           *)
THEOREM BaselineIsWhole == Spec => []ScannedIsComplete
BY CompleteWhenScanned, Invariance, PTL
-----------------------------------------------------------------------------
(* The command takes the steps of the extraction or none of them, so what  *)
(* is proved of the one holds in every run of the other.                   *)
THEOREM RunIsBaseline == RunSpec => Spec
<1>1. RunInit => Init
  BY DEF RunInit
<1>2. [RunNext]_allVars => [Next]_vars
  <2>1. ASSUME ScanTree \/ NotOneBaseline \/ ReadBaseline \/ Report
        PROVE  UNCHANGED vars
    BY <2>1 DEF ScanTree, NotOneBaseline, ReadBaseline, Report
  <2>2. ExtractBaseline => Main
    BY DEF ExtractBaseline
  <2>3. RunCommands => Commands \/ GitFails \/ TarFails
    BY DEF RunCommands
  <2>4. UNCHANGED allVars => UNCHANGED vars
    BY DEF allVars
  <2> QED
    BY <2>1, <2>2, <2>3, <2>4 DEF RunNext, Next
<1> QED
  BY <1>1, <1>2, PTL DEF RunSpec, Spec

(* What the command has in hand, step by step.  What is compared is what   *)
(* the baseline documents, and a run that passed found nothing breaking.   *)
Passed(was, is) == ~ (gate /\ Summarize(Differences(was, is))["breaking"] > 0)
RunInv ==
    /\ step \in {"generate", "baseline", "compare", "done"}
    /\ step \in {"baseline", "compare"} => new \in Trees
    /\ step = "compare" => before \in Revisions /\ old = before
    /\ step # "done" => exit = 2
    /\ step = "done" /\ exit = 0 =>
         new \in Trees /\ before \in Revisions /\ Passed(before, new)

(* A failure leaves nothing to be said of the documents.                   *)
LEMMA FailKeeps ==
    ASSUME Fail
    PROVE  RunInv'
BY DEF Fail, RunInv

(* The extraction hands a document over only when it is whole.             *)
LEMMA ExtractKeeps ==
    ASSUME IInv, RunInv, ExtractBaseline
    PROVE  RunInv'
<1>1. IInv'
  BY MainIInv DEF ExtractBaseline
<1>2. CASE main' = "scanned"
  <2>1. PICK doc \in Revisions :
           HaveBaseline(doc) /\ old' = IF extracted = size THEN doc ELSE [doc EXCEPT !.ops = << >>]
    BY <1>2 DEF ExtractBaseline
  <2>2. extracted = size
    <3>1. ScannedIsComplete'
      BY <1>1, CompleteWhenScanned, PTL
    <3>2. extracted' = size'
      BY <1>2, <3>1 DEF ScannedIsComplete
    <3>3. UNCHANGED <<extracted, size>>
      BY DEF ExtractBaseline, Main, Refuse, Prepare, StartExtract, StartExtractFails, StartArchive,
             StartArchiveFails, WaitArchive, WaitExtract, Scan
    <3> QED
      BY <3>2, <3>3
  <2>3. step = "baseline"
    BY DEF ExtractBaseline
  <2> QED
    BY <2>1, <2>2, <2>3 DEF HaveBaseline, RunInv
<1>3. CASE main' = "error"
  BY <1>3, FailKeeps DEF ExtractBaseline
<1>4. CASE main' \notin {"scanned", "error"}
  <2>1. UNCHANGED runVars
    BY <1>4 DEF ExtractBaseline
  <2> QED
    BY <2>1 DEF runVars, RunInv, Passed
<1> QED
  BY <1>2, <1>3, <1>4

LEMMA RunStepKeeps ==
    ASSUME IInv, RunInv, [RunNext]_allVars
    PROVE  RunInv'
<1>1. CASE ScanTree
  <2>1. CASE Fail
    BY <2>1, FailKeeps
  <2>2. CASE /\ \E doc \in Trees : new' = doc
             /\ step' = "baseline"
             /\ UNCHANGED <<given, gate, old, before, exit>>
    BY <1>1, <2>2 DEF ScanTree, RunInv
  <2> QED
    BY <1>1, <2>1, <2>2 DEF ScanTree
<1>2. CASE NotOneBaseline
  BY <1>2, FailKeeps DEF NotOneBaseline
<1>3. CASE ReadBaseline
  <2>1. CASE Fail
    BY <2>1, FailKeeps
  <2>2. CASE \E doc \in Revisions : HaveBaseline(doc) /\ old' = doc
    BY <1>3, <2>2 DEF ReadBaseline, HaveBaseline, RunInv
  <2> QED
    BY <1>3, <2>1, <2>2 DEF ReadBaseline
<1>4. CASE ExtractBaseline
  BY <1>4, ExtractKeeps
<1>5. CASE RunCommands
  BY <1>5 DEF RunCommands, runVars, RunInv, Passed
<1>6. CASE Report
  <2>1. CASE Fail
    BY <2>1, FailKeeps
  <2>2. CASE /\ exit' = Verdict(Differences(old, new)) /\ step' = "done"
             /\ UNCHANGED <<given, gate, new, old, before>>
    <3>1. new \in Trees /\ before \in Revisions /\ old = before
      BY <1>6 DEF Report, RunInv
    <3>2. exit' = 0 => Passed(before, new)
      BY <2>2, <3>1 DEF Verdict, Passed
    <3>3. Passed(before, new)' <=> Passed(before, new)
      BY <2>2 DEF Passed
    <3> QED
      BY <2>2, <3>1, <3>2, <3>3 DEF RunInv
  <2> QED
    BY <1>6, <2>1, <2>2 DEF Report
<1>7. CASE UNCHANGED allVars
  BY <1>7 DEF allVars, runVars, RunInv, Passed
<1> QED
  BY <1>1, <1>2, <1>3, <1>4, <1>5, <1>6, <1>7 DEF RunNext

LEMMA RunInvariance == RunSpec => []RunInv
<1>1. RunInit => RunInv
  BY DEF RunInit, RunInv
<1> QED
  BY <1>1, RunStepKeeps, RunIsBaseline, Invariance, PTL DEF RunSpec

(* A gated run that exits 0 has compared the tree with what the baseline   *)
(* really documents, all of it, and counted nothing breaking between the   *)
(* two; that the comparison sees every breaking change is another matter.  *)
PassedRunCompared ==
    step = "done" /\ exit = 0 /\ gate =>
        /\ new \in Trees /\ before \in Revisions
        /\ ~ (Summarize(Differences(before, new))["breaking"] > 0)

(* The gate never passes on half a revision, nor on another document than  *)
(* the one the baseline has, nor without a comparison, whichever way the   *)
(* baseline came and whatever fails on the way (spector.go:563-586;        *)
(* cmd/spector/evolve.go:61-65).                                           *)
THEOREM NothingPassesUncompared == RunSpec => []PassedRunCompared
<1>1. RunInv => PassedRunCompared
  BY DEF RunInv, Passed, PassedRunCompared
<1> QED
  BY <1>1, RunInvariance, PTL
=============================================================================
