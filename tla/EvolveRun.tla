------------------------------ MODULE EvolveRun ------------------------------
(***************************************************************************)
(* spector -evolve (cmd/spector/evolve.go; spector.go, Evolve): the tree   *)
(* as it is now is scanned, then the baseline is made (from a revision, as *)
(* module Baseline has it, from a directory, or read from a file), then    *)
(* both are compared and the exit code says whether a pipeline may go on.  *)
(* What a tree or a revision documents is chosen when it is read.          *)
(***************************************************************************)
EXTENDS Baseline, FiniteSets

CONSTANTS Differences(_, _),  \* Evolve!Compare: the changes from one document to another
          Serves(_, _)        \* Evolve!ServesClientsOf, for the properties

CONSTANTS Trees,       \* documents of the working tree
          Revisions    \* documents of the baseline

VARIABLES given,    \* the baselines named on the command line
          gate,     \* -fail-on-breaking
          step,     \* where runEvolve is
          new,      \* the tree's document, once scanned
          old,      \* the baseline's document, once there is one
          before,   \* what the baseline really documents
          exit      \* exit code, 2 before there is one
runVars == <<given, gate, step, new, old, before, exit>>
allVars == <<vars, runVars>>

None == [ops |-> << >>, components |-> << >>]

RunInit ==
    /\ Init
    /\ given \in SUBSET {"rev", "dir", "json"} /\ gate \in BOOLEAN
    /\ step = "generate" /\ new = None /\ old = None /\ before = None /\ exit = 2

Fail == /\ step' = "done" /\ exit' = 1
        /\ UNCHANGED <<given, gate, new, old, before>>

(* Generate(cfg), before the baseline is looked at; a scan may fail.       *)
ScanTree ==
    /\ step = "generate"
    /\ \/ /\ \E doc \in Trees : new' = doc
          /\ step' = "baseline"
          /\ UNCHANGED <<given, gate, old, before, exit>>
       \/ Fail
    /\ UNCHANGED vars

(* No baseline, or more than one. *)
NotOneBaseline ==
    /\ step = "baseline" /\ \A kind \in {"rev", "dir", "json"} : given # {kind}
    /\ Fail
    /\ UNCHANGED vars

HaveBaseline(doc) ==
    /\ before' = doc /\ step' = "compare"
    /\ UNCHANGED <<given, gate, new, exit>>

(* A file that decodes, or another directory that can be scanned.          *)
ReadBaseline ==
    /\ step = "baseline" /\ (given = {"dir"} \/ given = {"json"})
    /\ \/ \E doc \in Revisions : HaveBaseline(doc) /\ old' = doc
       \/ Fail
    /\ UNCHANGED vars

(* revisionDoc; a scan of half an export misses operations.                *)
ExtractBaseline ==
    /\ step = "baseline" /\ given = {"rev"} /\ Main
    /\ IF main' = "scanned" THEN
          \E doc \in Revisions :
             HaveBaseline(doc) /\ old' = IF extracted = size THEN doc ELSE [doc EXCEPT !.ops = << >>]
       ELSE IF main' = "error" THEN Fail
       ELSE UNCHANGED runVars

(* The commands run on whatever the program does.                          *)
RunCommands == (Commands \/ GitFails \/ TarFails) /\ UNCHANGED runVars

Summarize(changes) ==
    [s \in {"breaking", "compatible", "addition"} |->
        Cardinality({ch \in changes : ch[2].severity = s})]

(* The report, then the verdict; an unknown format or a failed write ends  *)
(* it before.                                                              *)
Verdict(changes) == IF gate /\ Summarize(changes)["breaking"] > 0 THEN 1 ELSE 0
Report ==
    /\ step = "compare"
    /\ \/ /\ exit' = Verdict(Differences(old, new)) /\ step' = "done"
          /\ UNCHANGED <<given, gate, new, old, before>>
       \/ Fail
    /\ UNCHANGED vars

RunNext == ScanTree \/ NotOneBaseline \/ ReadBaseline \/ ExtractBaseline \/ RunCommands \/ Report

RunSpec == RunInit /\ [][RunNext]_allVars
RunFairSpec ==
    /\ RunSpec
    /\ WF_allVars(ScanTree \/ NotOneBaseline \/ ReadBaseline \/ ExtractBaseline \/ Report)
    /\ WF_allVars((GitWrites \/ GitEnds) /\ UNCHANGED runVars)
    /\ WF_allVars((TarReads \/ TarEnds) /\ UNCHANGED runVars)
----------------------------------------------------------------------------
(* A gated run that lets a change pass (exit 0 under -fail-on-breaking)    *)
(* lets no client of the baseline down: the baseline is what the revision  *)
(* really documents, not what was extracted of it so far, and no breaking  *)
(* change went unnoticed (evolve.go, Breaking: a client that worked        *)
(* against the old document can fail against the new one;                  *)
(* cmd/spector/evolve.go:61-65).                                           *)
PassedChangeIsSafe == step = "done" /\ exit = 0 /\ gate => Serves(before, new)

(* However large the revision, the command ends with a verdict or an       *)
(* error, unless tar dies: git and tar do not wait for each other for ever *)
(* (spector.go:563-586).                                                   *)
RunEnds == <>(step = "done") \/ <>(tar = "failed")
============================================================================
