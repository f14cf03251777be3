------------------------------- MODULE Watch -------------------------------
(***************************************************************************)
(* "spector -watch" (cmd/spector/main.go): the first generation, then      *)
(* watchLoop, which polls the fingerprint of the tree and generates again  *)
(* when it has moved.  Every mode generates the same way: each artifact is *)
(* built from the tree as it is just then, and what was built is written.  *)
(*                                                                         *)
(* The tree is a version number that every edit moves.                     *)
(***************************************************************************)
EXTENDS Naturals

CONSTANTS Artifacts,      \* files a generation of -all writes
          Out,            \* the one a generation of -o, or of -sdk, writes
          MaxEdits,       \* model bound: edits of the tree
          MaxFailures,    \* model bound: builds that fail
          MaxRounds       \* model bound: where the generations' counters stop

ASSUME WatchAssumption ==
    /\ Out \in Artifacts
    /\ MaxEdits \in Nat /\ MaxFailures \in Nat /\ MaxRounds \in Nat

VARIABLES mode,      \* how the command was called: "out" (-o), "all" or "sdk"
          watched,   \* what it writes lies among what it watches, as -o openapi.json
                     \* does in -dir .
          tree,      \* version of the sources
          mtime,     \* artifact -> modification time, told apart from the last one only
          built,     \* artifact -> the build it was given: version and success
          output,    \* artifact -> version of the sources the file was made from
          left,      \* artifacts this generation has still to build or to write
          last,      \* watchLoop's last fingerprint
          pc,        \* where the command is
          base,      \* history: the tree when watchLoop took its first fingerprint
          rounds,    \* history: generations watchLoop started
          wrote,     \* history: those of them that wrote a file
          failures   \* history: builds that failed

call == <<mode, watched>>
vars == <<call, tree, mtime, built, output, left, last, pc, base, rounds, wrote, failures>>

Versions == 1..(MaxEdits + 1)
NoFile == 0

(* fingerprint hashes the sources, and the artifacts it meets among them.  *)
Unwatched == [a \in Artifacts |-> 0]
\* variant of Fingerprint, with a slip
FingerprintOfAll == [tree |-> tree, output |-> mtime]
Fingerprint == [tree |-> tree, output |-> IF watched THEN mtime ELSE Unwatched]

Counted(n) == IF n < MaxRounds THEN n + 1 ELSE n

Targets == IF mode = "all" THEN Artifacts ELSE {Out}

TypeOK ==
    /\ mode \in {"out", "all", "sdk"} /\ watched \in BOOLEAN
    /\ tree \in Versions /\ mtime \in [Artifacts -> {0, 1}]
    /\ built \in [Artifacts -> [version : Versions \cup {NoFile}, ok : BOOLEAN]]
    /\ output \in [Artifacts -> Versions \cup {NoFile}]
    /\ mode # "all" => \A a \in Artifacts \ {Out} : output[a] = NoFile
    /\ left \subseteq Artifacts
    /\ last \in [tree : Versions \cup {0}, output : [Artifacts -> {0, 1}]]
    /\ pc \in {"build", "write", "start", "sleep", "exited"}
    /\ base \in Versions \cup {0}
    /\ rounds \in 0..MaxRounds /\ wrote \in 0..MaxRounds /\ failures \in 0..MaxFailures

Init ==
    /\ mode \in {"out", "all", "sdk"} /\ watched \in BOOLEAN
    /\ tree = 1 /\ mtime = Unwatched
    /\ built = [a \in Artifacts |-> [version |-> NoFile, ok |-> FALSE]]
    /\ output = [a \in Artifacts |-> NoFile]
    /\ left = Targets
    /\ last = [tree |-> 0, output |-> Unwatched]
    /\ pc = "build" /\ base = 0 /\ rounds = 0 /\ wrote = 0 /\ failures = 0

---------------------------------------------------------------------------
Edit ==
    /\ tree <= MaxEdits /\ pc # "exited"
    /\ tree' = tree + 1
    /\ UNCHANGED <<call, mtime, built, output, left, last, pc, base, rounds, wrote, failures>>

(* One artifact is generated; on a half-written source it fails.           *)
Build(a, ok) ==
    /\ pc = "build" /\ a \in left
    /\ ok \/ failures < MaxFailures
    /\ failures' = IF ok THEN failures ELSE failures + 1
    /\ built' = [built EXCEPT ![a] = [version |-> tree, ok |-> ok]]
    /\ left' = left \ {a}
    /\ UNCHANGED <<call, tree, mtime, output, last, pc, base, rounds, wrote>>

\* variant of Succeeded, with a slip
SucceededOrNot == Targets
Succeeded == {a \in Targets : built[a].ok}
Watching == base # 0

(* What was built is written, whatever failed beside it; a generation that *)
(* built nothing writes nothing, which ends the command only in -o mode    *)
(* and only the first time.                                                *)
EndBuild ==
    /\ pc = "build" /\ left = {}
    /\ pc' = IF Succeeded = {} /\ mode = "out" /\ ~ Watching THEN "exited" ELSE "write"
    /\ left' = Succeeded
    /\ wrote' = IF Watching /\ Succeeded # {} THEN Counted(wrote) ELSE wrote
    /\ UNCHANGED <<call, tree, mtime, built, output, last, base, rounds, failures>>

Write(a) ==
    /\ pc = "write" /\ a \in left
    /\ output' = [output EXCEPT ![a] = built[a].version]
    /\ mtime' = [mtime EXCEPT ![a] = 1 - @]
    /\ left' = left \ {a}
    /\ UNCHANGED <<call, tree, built, last, pc, base, rounds, wrote, failures>>

\* variant of EndWrite, with a slip
EndWriteLooksAgain ==
    /\ pc = "write" /\ left = {}
    /\ pc' = IF Watching THEN "sleep" ELSE "start"
    /\ last' = Fingerprint
    /\ UNCHANGED <<call, tree, mtime, built, output, left, base, rounds, wrote, failures>>
EndWrite ==
    /\ pc = "write" /\ left = {}
    /\ pc' = IF Watching THEN "sleep" ELSE "start"
    /\ UNCHANGED <<call, tree, mtime, built, output, left, last, base, rounds, wrote, failures>>

(* watchLoop begins: last := fingerprint(dir)                              *)
StartWatch ==
    /\ pc = "start"
    /\ last' = Fingerprint /\ base' = tree
    /\ pc' = "sleep"
    /\ UNCHANGED <<call, tree, mtime, built, output, left, rounds, wrote, failures>>

(* A poll that finds the fingerprint moved; one that does not changes      *)
(* nothing.  last is set before the generation, not after.                 *)
Poll ==
    /\ pc = "sleep" /\ Fingerprint # last
    /\ last' = Fingerprint
    /\ rounds' = Counted(rounds)
    /\ left' = Targets /\ pc' = "build"
    /\ UNCHANGED <<call, tree, mtime, built, output, base, wrote, failures>>

Step ==
    \/ \E a \in Artifacts : Write(a) \/ \E ok \in BOOLEAN : Build(a, ok)
    \/ EndBuild \/ EndWrite \/ StartWatch \/ Poll

Next == Edit \/ Step

Spec == Init /\ [][Next]_vars

(* The command runs on; nobody owes it an edit. *)
FairSpec == Spec /\ WF_vars(Step)

---------------------------------------------------------------------------
(* Each artifact was made from the newest sources, or building it from     *)
(* them failed and the file was left alone.                                *)
UpToDate ==
    \A a \in Targets :
        built[a].version = tree /\ (built[a].ok => output[a] = tree)

(* Once watchLoop has taken its first fingerprint no edit is lost, not one *)
(* made during a generation either (main.go:640-647).                      *)
LaterEditsAreGenerated ==
    <>[](tree > base => UpToDate) \/ []<>(pc = "exited")

(* Every generation of watchLoop answers something of its own: an edit     *)
(* made since the loop began or, if what it writes lies among what it      *)
(* watches, a generation of the loop that wrote.  So the first generation, *)
(* written before the loop looked, is never answered; nothing is answered  *)
(* twice; and output that is not watched does not "retrigger the watch     *)
(* forever" (main.go:640-647, 667-673).                                    *)
RoundsAnswerChanges ==
    rounds <= (IF Watching THEN tree - base ELSE 0) + (IF watched THEN wrote ELSE 0)

(* A build that fails never replaces a file, and no file goes back to      *)
(* older sources (main.go:200-218, 613-623).                               *)
FilesGoForward ==
    [][\A a \in Artifacts : output'[a] >= output[a]
          /\ (output'[a] # output[a] => built[a].ok)]_vars
============================================================================
