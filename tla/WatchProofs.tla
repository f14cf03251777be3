---------------------------- MODULE WatchProofs ----------------------------
(***************************************************************************)
(* Proofs about Watch: its type invariant, that a file only goes forward,  *)
(* and that every generation of watchLoop answers an edit or, where the    *)
(* command watches what it writes, files an earlier one wrote.             *)
(***************************************************************************)
EXTENDS Watch, TLAPS

(* What is written was built: the builds come from sources there were, no  *)
(* file is newer than its artifact's last build, and only builds that      *)
(* succeeded wait to be written.                                           *)
BuildsBeforeFiles ==
    /\ \A a \in Artifacts : output[a] <= built[a].version /\ built[a].version <= tree
    /\ left \subseteq Targets
    /\ pc = "write" => \A a \in left : built[a].ok

(* Something the loop has not looked at yet: a generation more of it wrote *)
(* than the loop has answered.                                             *)
Surplus == wrote = MaxRounds \/ rounds + base < last.tree + wrote

(* watchLoop sleeps, and counts, only between its first fingerprint and    *)
(* the end of the command.  Every generation it counted moved last.tree or *)
(* answers an earlier one that wrote; what was written since the last      *)
(* fingerprint, or is about to be, is not answered yet.                    *)
FingerprintsFollowChanges ==
    /\ pc = "sleep" => Watching
    /\ pc = "start" => ~ Watching
    /\ ~ Watching => rounds = 0
    /\ last.tree <= tree /\ base <= tree
    /\ ~ watched => last.output = Unwatched /\ (Watching => rounds + base <= last.tree)
    /\ watched /\ Watching =>
          /\ rounds + base <= last.tree + wrote
          /\ pc = "build" => mtime = last.output
          /\ mtime # last.output \/ (pc = "write" /\ left # {}) => Surplus

IInv == TypeOK /\ BuildsBeforeFiles /\ FingerprintsFollowChanges

LEMMA InitIInv == Init => IInv
<1> SUFFICES ASSUME Init PROVE IInv
  OBVIOUS
<1> USE WatchAssumption
<1>1. Targets \subseteq Artifacts
  BY DEF Targets
<1>2. TypeOK
  <2>1. 1 \in Versions /\ 0 \in 0..MaxRounds /\ 0 \in 0..MaxFailures
    BY DEF Versions
  <2>2. Unwatched \in [Artifacts -> {0, 1}]
    BY DEF Unwatched
  <2> QED
    BY <1>1, <2>1, <2>2 DEF Init, TypeOK, NoFile
<1>3. BuildsBeforeFiles
  BY DEF Init, BuildsBeforeFiles, NoFile
<1>4. FingerprintsFollowChanges
  BY DEF Init, FingerprintsFollowChanges, Watching
<1> QED
  BY <1>2, <1>3, <1>4 DEF IInv

(* What the sources' version and a fingerprint are. *)
LEMMA VersionsType ==
    ASSUME TypeOK
    PROVE  /\ tree \in Nat \ {0} /\ tree <= MaxEdits + 1
           /\ Versions \subseteq Nat \ {0} /\ Versions \cup {0} \subseteq Nat
           /\ last.tree \in Nat /\ base \in Nat /\ rounds \in Nat /\ wrote \in 0..MaxRounds
           /\ Fingerprint \in [tree : Versions \cup {0}, output : [Artifacts -> {0, 1}]]
           /\ Fingerprint.tree = tree
           /\ Fingerprint.output = IF watched THEN mtime ELSE Unwatched
<1> USE WatchAssumption
<1>1. Versions \subseteq Nat \ {0} /\ \A v \in Versions : v <= MaxEdits + 1
  BY DEF Versions
<1>2. tree \in Versions /\ last.tree \in Versions \cup {0} /\ base \in Versions \cup {0}
  BY DEF TypeOK
<1>3. Unwatched \in [Artifacts -> {0, 1}]
  BY DEF Unwatched
<1>4. mtime \in [Artifacts -> {0, 1}]
  BY DEF TypeOK
<1>5. Fingerprint.tree = tree /\ Fingerprint.output = IF watched THEN mtime ELSE Unwatched
  BY DEF Fingerprint
<1>6. Fingerprint \in [tree : Versions \cup {0}, output : [Artifacts -> {0, 1}]]
  BY <1>2, <1>3, <1>4 DEF Fingerprint
<1>7. last.tree \in Versions \cup {0} /\ rounds \in 0..MaxRounds /\ wrote \in 0..MaxRounds
  BY DEF TypeOK
<1>8. tree \in Nat \ {0} /\ tree <= MaxEdits + 1
  BY <1>1, <1>2
<1>v. Versions \cup {0} \subseteq Nat
  BY DEF Versions
<1>9. last.tree \in Nat /\ base \in Nat /\ rounds \in Nat /\ wrote \in 0..MaxRounds
  BY <1>2, <1>7, <1>v
<1> QED
  BY <1>1, <1>5, <1>6, <1>7, <1>8, <1>9, <1>v

(* One generation more is answered by a newer tree, or by one more that    *)
(* wrote.                                                                  *)
LEMMA OneMore ==
    ASSUME NEW n \in Nat, NEW m \in Nat, NEW b \in Nat, NEW l \in Nat, NEW t \in Nat,
           NEW w \in Nat, m <= n + 1, b <= t, l <= t, n + b <= l + w,
           l # t \/ m <= w \/ n + b < l + w
    PROVE  m + b <= t + w
OBVIOUS

(* Every step keeps the invariant, and with it a step replaces a file only *)
(* by one made from newer sources, of a build that succeeded.              *)
LEMMA NextIInv ==
    ASSUME IInv, [Next]_vars
    PROVE  IInv'
<1> USE WatchAssumption
<1>a. TypeOK /\ BuildsBeforeFiles /\ FingerprintsFollowChanges
  BY DEF IInv
<1>b. /\ tree \in Nat \ {0} /\ tree <= MaxEdits + 1
      /\ Versions \subseteq Nat \ {0} /\ Versions \cup {0} \subseteq Nat
      /\ last.tree \in Nat /\ base \in Nat /\ rounds \in Nat /\ wrote \in 0..MaxRounds
      /\ Fingerprint \in [tree : Versions \cup {0}, output : [Artifacts -> {0, 1}]]
      /\ Fingerprint.tree = tree
      /\ Fingerprint.output = IF watched THEN mtime ELSE Unwatched
  BY <1>a, VersionsType
<1>c. Targets \subseteq Artifacts /\ Succeeded \subseteq Targets
  BY DEF Targets, Succeeded
<1>d. \A a \in Artifacts : output[a] \in Nat /\ built[a].version \in Nat
  <2>1. /\ built \in [Artifacts -> [version : Versions \cup {NoFile}, ok : BOOLEAN]]
        /\ output \in [Artifacts -> Versions \cup {NoFile}]
    BY <1>a DEF TypeOK
  <2> QED
    BY <1>b, <2>1 DEF NoFile
<1>1. CASE UNCHANGED vars
  BY <1>a, <1>1 DEF vars, call, IInv, TypeOK, BuildsBeforeFiles, Targets, FingerprintsFollowChanges,
                    Watching, Unwatched, Surplus
<1>2. CASE Edit
  <2>1. tree' \in Versions /\ tree' \in Nat /\ tree < tree'
    BY <1>b, <1>2 DEF Edit, call, Versions
  <2>2. TypeOK'
    BY <1>a, <1>2, <2>1 DEF Edit, call, TypeOK
  <2>3. BuildsBeforeFiles'
    BY <1>a, <1>b, <1>d, <1>2, <2>1 DEF Edit, call, BuildsBeforeFiles, Targets
  <2>4. FingerprintsFollowChanges'
    BY <1>a, <1>b, <1>2, <2>1 DEF Edit, call, FingerprintsFollowChanges, Watching, Unwatched, Surplus
  <2> QED
    BY <2>2, <2>3, <2>4 DEF IInv
<1>3. CASE \E a \in Artifacts : Write(a)
  <2> PICK a \in Artifacts : Write(a)
    BY <1>3
  <2>1. a \in left /\ built[a].ok /\ a \in Targets
    BY <1>a DEF Write, call, BuildsBeforeFiles
  <2>2. built[a].version \in Versions \cup {NoFile}
    BY <1>a DEF TypeOK
  <2>3. TypeOK'
    <3>1. output' \in [Artifacts -> Versions \cup {NoFile}]
      BY <1>a, <2>2 DEF Write, call, TypeOK
    <3>2. mtime' \in [Artifacts -> {0, 1}]
      BY <1>a DEF Write, call, TypeOK
    <3>3. mode' # "all" => \A b \in Artifacts \ {Out} : output'[b] = NoFile
      BY <1>a, <2>1 DEF Write, call, TypeOK, Targets
    <3> QED
      BY <1>a, <3>1, <3>2, <3>3 DEF Write, call, TypeOK
  <2>4. BuildsBeforeFiles'
    <3>1. \A b \in Artifacts : output'[b] <= built[b].version
      BY <1>a, <1>d DEF Write, call, TypeOK, BuildsBeforeFiles
    <3> QED
      BY <1>a, <3>1 DEF Write, call, BuildsBeforeFiles, Targets
  <2>5. FingerprintsFollowChanges'
    BY <1>a DEF Write, call, FingerprintsFollowChanges, Watching, Unwatched, Surplus
  <2> QED
    BY <2>3, <2>4, <2>5 DEF IInv
<1>4. CASE \E a \in Artifacts, ok \in BOOLEAN : Build(a, ok)
  <2> PICK a \in Artifacts, ok \in BOOLEAN : Build(a, ok)
    BY <1>4
  <2>1. TypeOK'
    <3>1. failures' \in 0..MaxFailures
      BY <1>a DEF Build, call, TypeOK
    <3>2. built' \in [Artifacts -> [version : Versions \cup {NoFile}, ok : BOOLEAN]]
      BY <1>a DEF Build, call, TypeOK
    <3> QED
      BY <1>a, <3>1, <3>2 DEF Build, call, TypeOK
  <2>2. BuildsBeforeFiles'
    <3>1. \A b \in Artifacts : built'[b].version = IF b = a THEN tree ELSE built[b].version
      BY <1>a DEF Build, call, TypeOK
    <3>2. \A b \in Artifacts : output[b] <= tree
      BY <1>a, <1>b, <1>d DEF BuildsBeforeFiles
    <3> QED
      BY <1>a, <1>b, <3>1, <3>2 DEF Build, call, BuildsBeforeFiles, Targets
  <2>3. FingerprintsFollowChanges'
    BY <1>a DEF Build, call, FingerprintsFollowChanges, Watching, Unwatched, Surplus
  <2> QED
    BY <2>1, <2>2, <2>3 DEF IInv
<1>5. CASE EndBuild
  <2>1. wrote' \in 0..MaxRounds
    BY <1>b, <1>5 DEF EndBuild, call, Counted
  <2>2. TypeOK'
    BY <1>a, <1>c, <1>5, <2>1 DEF EndBuild, TypeOK, call
  <2>3. BuildsBeforeFiles'
    BY <1>a, <1>c, <1>5 DEF EndBuild, BuildsBeforeFiles, Succeeded, Targets, call
  <2>4. FingerprintsFollowChanges'
    <3>1. /\ UNCHANGED <<watched, tree, mtime, last, base, rounds>> /\ pc' \in {"exited", "write"}
          /\ pc = "build" /\ left' = Succeeded
          /\ wrote' = IF Watching /\ Succeeded # {} THEN Counted(wrote) ELSE wrote
      BY <1>5 DEF EndBuild, call
    <3>2. ASSUME watched, Watching
          PROVE  /\ rounds + base <= last.tree + wrote' /\ mtime = last.output
                 /\ left' # {} => Surplus'
      BY <1>a, <1>b, <3>1, <3>2 DEF FingerprintsFollowChanges, Surplus, Counted
    <3>3. Watching' = Watching
      BY <3>1 DEF Watching
    <3> QED
      BY <1>a, <3>1, <3>2, <3>3 DEF FingerprintsFollowChanges, Unwatched
  <2> QED
    BY <2>2, <2>3, <2>4 DEF IInv
<1>6. CASE EndWrite
  <2>1. TypeOK'
    BY <1>a, <1>6 DEF EndWrite, call, TypeOK
  <2>2. BuildsBeforeFiles'
    BY <1>a, <1>6 DEF EndWrite, call, BuildsBeforeFiles, Targets
  <2>3. FingerprintsFollowChanges'
    BY <1>a, <1>6 DEF EndWrite, call, FingerprintsFollowChanges, Watching, Unwatched, Surplus
  <2> QED
    BY <2>1, <2>2, <2>3 DEF IInv
<1>7. CASE StartWatch
  <2>1. TypeOK'
    BY <1>a, <1>b, <1>7 DEF StartWatch, call, TypeOK
  <2>2. BuildsBeforeFiles'
    BY <1>a, <1>7 DEF StartWatch, call, BuildsBeforeFiles, Targets
  <2>3. FingerprintsFollowChanges'
    <3>1. rounds = 0
      BY <1>a, <1>7 DEF StartWatch, call, FingerprintsFollowChanges
    <3> QED
      <4>1. /\ UNCHANGED <<watched, tree, mtime, rounds, wrote>> /\ pc' = "sleep"
            /\ last' = Fingerprint /\ base' = tree
        BY <1>7 DEF StartWatch, call
      <4>2. last'.tree = tree /\ last'.output = IF watched THEN mtime ELSE Unwatched
        BY <1>b, <4>1
      <4>3. tree \in Nat \ {0} /\ wrote \in Nat
        BY <1>b
      <4>4. tree <= tree /\ 0 + tree <= tree /\ 0 + tree <= tree + wrote
        BY <4>3
      <4>5. Watching'
        BY <4>1, <4>3 DEF Watching
      <4> QED
        BY <3>1, <4>1, <4>2, <4>4, <4>5 DEF FingerprintsFollowChanges, Unwatched
  <2> QED
    BY <2>1, <2>2, <2>3 DEF IInv
<1>8. CASE Poll
  <2>1. TypeOK'
    <3>1. rounds' \in 0..MaxRounds
      BY <1>a, <1>8 DEF Poll, TypeOK, Counted
    <3> QED
      BY <1>a, <1>b, <1>c, <1>8, <3>1 DEF Poll, call, TypeOK
  <2>2. BuildsBeforeFiles'
    BY <1>a, <1>8 DEF Poll, call, BuildsBeforeFiles, Targets
  <2>3. FingerprintsFollowChanges'
    <3>1. /\ Watching /\ UNCHANGED <<tree, mtime, watched, base, wrote>>
          /\ last' = Fingerprint /\ rounds' = Counted(rounds)
          /\ pc' = "build" /\ last # Fingerprint
      BY <1>a, <1>8 DEF Poll, FingerprintsFollowChanges, call
    <3>2. last'.tree = tree /\ last'.output = IF watched THEN mtime ELSE Unwatched
      BY <1>b, <3>1
    <3>3. last.tree # tree \/ last.output # Fingerprint.output
      <4>1. last = [tree |-> last.tree, output |-> last.output]
            /\ Fingerprint = [tree |-> Fingerprint.tree, output |-> Fingerprint.output]
        BY <1>a, <1>b DEF TypeOK
      <4> QED
        BY <1>b, <3>1, <4>1
    <3>4. rounds' \in Nat /\ rounds' <= rounds + 1 /\ rounds' <= MaxRounds
      <4>1. rounds \in 0..MaxRounds
        BY <1>a DEF TypeOK
      <4> QED
        BY <3>1, <4>1 DEF Counted
    <3>n. /\ tree \in Nat /\ last.tree \in Nat /\ base \in Nat /\ rounds \in Nat
          /\ wrote \in Nat /\ MaxRounds \in Nat
      BY <1>b
    <3>5. ASSUME ~ watched
          PROVE  rounds' + base <= tree
      <4>1. last.tree # tree /\ last.tree <= tree /\ rounds + base <= last.tree
        BY <1>a, <1>b, <3>1, <3>3, <3>5 DEF FingerprintsFollowChanges
      <4>2. base <= tree /\ rounds + base <= last.tree + 0
        BY <1>a, <3>n, <4>1 DEF FingerprintsFollowChanges
      <4>3. rounds' + base <= tree + 0
        BY <3>4, <3>n, <4>1, <4>2, OneMore
      <4> QED
        BY <3>n, <4>3
    <3>6. ASSUME watched
          PROVE  rounds' + base <= tree + wrote
      <4>1. /\ rounds + base <= last.tree + wrote /\ last.tree <= tree /\ base <= tree
            /\ mtime # last.output => Surplus
            /\ last.tree # tree \/ mtime # last.output
        BY <1>a, <1>b, <3>1, <3>3, <3>6 DEF FingerprintsFollowChanges
      <4>2. last.tree # tree \/ rounds' <= wrote \/ rounds + base < last.tree + wrote
        BY <3>4, <4>1 DEF Surplus
      <4> QED
        BY <3>4, <3>n, <4>1, <4>2, OneMore
    <3>7. Watching'
      BY <3>1 DEF Watching
    <3>8. base <= tree /\ tree <= tree
      BY <1>a, <3>n DEF FingerprintsFollowChanges
    <3>9. pc' = "build" /\ UNCHANGED <<tree, mtime, watched, base, wrote>>
      BY <3>1
    <3> QED
      BY <3>2, <3>5, <3>6, <3>7, <3>8, <3>9 DEF FingerprintsFollowChanges, Unwatched
  <2> QED
    BY <2>1, <2>2, <2>3 DEF IInv
<1> QED
  BY <1>1, <1>2, <1>3, <1>4, <1>5, <1>6, <1>7, <1>8 DEF Next, Step

---------------------------------------------------------------------------
(* A step replaces a file only by one made from sources at least as new,   *)
(* and only after a build of it that succeeded.                            *)
LEMMA NextGoesForward ==
    ASSUME IInv, [Next]_vars
    PROVE  \A a \in Artifacts : output'[a] >= output[a]
              /\ (output'[a] # output[a] => built[a].ok)
<1>1. TypeOK /\ BuildsBeforeFiles
  BY DEF IInv
<1>2. \A a \in Artifacts : output[a] \in Nat /\ built[a].version \in Nat
  BY <1>1, VersionsType DEF TypeOK, NoFile
<1>3. CASE output' = output
  BY <1>2, <1>3
<1>4. CASE \E a \in Artifacts : Write(a)
  <2> PICK a \in Artifacts : Write(a)
    BY <1>4
  <2>1. built[a].ok /\ output[a] <= built[a].version
    BY <1>1 DEF Write, call, BuildsBeforeFiles
  <2>2. \A b \in Artifacts : output'[b] = IF b = a THEN built[a].version ELSE output[b]
    BY <1>1 DEF Write, call, TypeOK
  <2> QED
    BY <1>2, <2>1, <2>2
<1> QED
  BY <1>3, <1>4 DEF vars, call, Next, Step, Edit, Build, EndBuild, EndWrite, StartWatch, Poll

(* The invariant holds in every state of every behaviour. *)
LEMMA Invariance == Spec => []IInv
<1>1. Init => IInv
  BY InitIInv
<1>2. IInv /\ [Next]_vars => IInv'
  BY NextIInv
<1> QED
  BY <1>1, <1>2, PTL DEF Spec

(* The command's state is what its types say. *)
THEOREM TypeCorrect == Spec => []TypeOK
<1>1. IInv => TypeOK
  BY DEF IInv
<1> QED
  BY <1>1, Invariance, PTL

(* Every generation watchLoop starts answers an edit made since it began   *)
(* or, where the command watches what it writes, an earlier generation of  *)
(* its own that wrote a file: the first generation is never answered,      *)
(* nothing is answered twice, and output outside what is watched starts    *)
(* nothing.                                                                *)
THEOREM OnlyChangesAreAnswered == Spec => []RoundsAnswerChanges
<1>1. IInv => RoundsAnswerChanges
  <2> SUFFICES ASSUME IInv PROVE RoundsAnswerChanges
    OBVIOUS
  <2>1. TypeOK /\ FingerprintsFollowChanges
    BY DEF IInv
  <2>2. /\ tree \in Nat \ {0} /\ last.tree \in Nat
        /\ base \in Nat /\ rounds \in Nat /\ wrote \in 0..MaxRounds
    BY <2>1, VersionsType
  <2>3. wrote \in Nat
    BY <2>2, WatchAssumption
  <2>4. CASE Watching
    BY <2>1, <2>2, <2>3, <2>4 DEF FingerprintsFollowChanges, RoundsAnswerChanges
  <2>5. CASE ~ Watching
    BY <2>1, <2>2, <2>3, <2>5 DEF FingerprintsFollowChanges, RoundsAnswerChanges
  <2> QED
    BY <2>4, <2>5
<1> QED
  BY <1>1, Invariance, PTL

(* No file goes back to older sources, and a build that failed replaces no *)
(* file, whatever is edited while a generation runs.                       *)
THEOREM ForwardOnly == Spec => FilesGoForward
<1>1. IInv /\ [Next]_vars
        => [\A a \in Artifacts : output'[a] >= output[a]
              /\ (output'[a] # output[a] => built[a].ok)]_vars
  BY NextGoesForward
<1> QED
  BY <1>1, Invariance, PTL DEF Spec, FilesGoForward
=============================================================================
