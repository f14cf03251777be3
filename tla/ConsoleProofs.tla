--------------------------- MODULE ConsoleProofs ---------------------------
(***************************************************************************)
(* Proofs about Console: its type invariant, that a stale build is noticed *)
(* by the next walk, and that what is served is never older than Recheck.  *)
(***************************************************************************)
EXTENDS Console, TLAPS

(* Versions compared file by file, over the fingerprinted ones. *)
AtMost(F, v, w) == \A f \in F : v[f] <= w[f]

(* The lock: who walks or builds holds it. *)
Locked == \A c \in Clients : pc[c] \in {"walk", "build"} <=> holder = c

Building == \E c \in Clients : pc[c] = "build"

(* Nothing was read from the future, and the past is a past. *)
Past ==
    /\ AtMost(Files, state.read, tree) /\ AtMost(Files, draft.read, tree)
    /\ AtMost(Files, stamp, tree) /\ AtMost(Files, walk, tree)
    /\ AtMost(Files, hist[1], tree)
    /\ \A j, k \in 1..Recheck : j <= k => AtMost(Files, hist[k], hist[j])

(* What was statted since now was read is no older than the last tick      *)
(* before it, and no older than what the request may be answered from.     *)
WalkIsRecent ==
    \A c \in Clients : pc[c] = "walk" =>
        /\ left \subseteq Inside
        /\ AtMost(Inside \ left, floor[c], walk)
        /\ held < Recheck => AtMost(Inside \ left, hist[held + 1], walk)
        /\ AtMost(Files, floor[c], tree)

(* While a build is made, the stamp is its walk's, and what it has scanned *)
(* is no older than the stamp.                                             *)
BuildIsRecent ==
    \A c \in Clients : pc[c] = "build" =>
        /\ AtMost(Inside, floor[c], stamp)
        /\ since < Recheck => AtMost(Inside, hist[since + 1], stamp)
        /\ AtMost(Inside \ left, stamp, draft.read)

(* Between builds, the build served is no older than its stamp, nor than   *)
(* the tree was when it was last checked.                                  *)
StateIsRecent ==
    built /\ ~ Building =>
        /\ AtMost(Inside, stamp, state.read)
        /\ since < Recheck => AtMost(Inside, hist[since + 1], state.read)

IInv ==
    /\ TypeOK /\ Locked /\ Past
    /\ WalkIsRecent /\ BuildIsRecent /\ StateIsRecent /\ ServedIsFresh
---------------------------------------------------------------------------
LEMMA VersionsAreNumbers ==
    ASSUME TypeOK
    PROVE  /\ \A f \in Files : /\ tree[f] \in Nat /\ stamp[f] \in Nat /\ walk[f] \in Nat
                              /\ state.read[f] \in Nat /\ draft.read[f] \in Nat
           /\ \A f \in Files, k \in 1..Recheck : hist[k][f] \in Nat
           /\ \A f \in Files, c \in Clients : floor[c][f] \in Nat /\ got[c].read[f] \in Nat
           /\ Inside \subseteq Files
           /\ 1 \in 1..Recheck /\ Recheck \in 1..Recheck /\ Recheck \in Nat
BY ConsoleAssumption DEF TypeOK, Versions, Version, Build, Inside

LEMMA InitHolds == Init => IInv
<1> SUFFICES ASSUME Init PROVE IInv
  OBVIOUS
<1>0. NeverRead \in Versions /\ Unbuilt \in Build /\ \A f \in Files : NeverRead[f] = 0
  BY ConsoleAssumption DEF NeverRead, Versions, Version, Unbuilt, Build
<1>1. TypeOK
  <2>1. hist \in [1..Recheck -> Versions] /\ floor \in [Clients -> Versions] /\ got \in [Clients -> Build]
    BY <1>0 DEF Init
  <2>2. since \in 0..Recheck /\ held \in 0..Recheck /\ glitches \in 0..MaxGlitches
    BY ConsoleAssumption DEF Init
  <2>3. tree \in Versions /\ stamp \in Versions /\ walk \in Versions /\ state \in Build /\ draft \in Build
    BY <1>0 DEF Init
  <2>4. pc \in [Clients -> {"idle", "ensure", "walk", "build", "serve"}]
        /\ built \in BOOLEAN /\ left \subseteq Files /\ holder \in Clients \cup {None}
    BY DEF Init
  <2> QED
    BY <2>1, <2>2, <2>3, <2>4 DEF TypeOK
<1>2. Locked
  BY ConsoleAssumption DEF Init, Locked
<1>3. Past
  <2>1. \A k \in 1..Recheck : hist[k] = NeverRead
    BY DEF Init
  <2>2. 1 \in 1..Recheck
    BY ConsoleAssumption
  <2>3. state.read = NeverRead /\ draft.read = NeverRead /\ stamp = NeverRead
        /\ walk = NeverRead /\ tree = NeverRead
    BY DEF Init, Unbuilt
  <2> QED
    BY <1>0, <2>1, <2>2, <2>3 DEF Past, AtMost
<1>4. WalkIsRecent /\ BuildIsRecent /\ StateIsRecent /\ ServedIsFresh
  BY DEF Init, WalkIsRecent, BuildIsRecent, StateIsRecent, ServedIsFresh
<1> QED
  BY <1>1, <1>2, <1>3, <1>4 DEF IInv

(* A tick moves every snapshot one place back, and every age one up. *)
LEMMA TickKeeps ==
    ASSUME IInv, Tick PROVE IInv'
<1> USE DEF IInv
<1>0. /\ UNCHANGED <<tree, built, state, stamp, holder, left, walk, draft, pc, got, floor, glitches>>
      /\ hist' = [k \in 1..Recheck |-> IF k = 1 THEN tree ELSE hist[k - 1]]
      /\ since' = Aged(since) /\ held' = Aged(held)
      /\ since \in 0..Recheck /\ held \in 0..Recheck
  BY DEF Tick, TypeOK
<1>n. Recheck \in Nat \ {0}
  BY ConsoleAssumption
<1>1. \A n \in 0..Recheck : /\ Aged(n) \in 0..Recheck
                            /\ Aged(n) < Recheck => /\ n < Recheck /\ hist'[Aged(n) + 1] = hist[n + 1]
  BY <1>0, <1>n DEF Aged
<1>2. TypeOK'
  <2>1. hist' \in [1..Recheck -> Versions]
    BY <1>0, <1>n DEF TypeOK
  <2> QED
    BY <1>0, <1>1, <2>1 DEF TypeOK
<1>3. Locked'
  BY <1>0 DEF Locked
<1>4. Past'
  <2>1. hist'[1] = tree /\ \A k \in 2..Recheck : hist'[k] = hist[k - 1]
    BY <1>0, <1>n
  <2>2. \A k \in 1..Recheck : AtMost(Files, hist[k], tree)
    BY <1>n, VersionsAreNumbers DEF Past, AtMost
  <2>3. \A f \in Files : tree[f] <= tree[f]
    BY VersionsAreNumbers
  <2>4. ASSUME NEW j \in 1..Recheck, NEW k \in 1..Recheck, j <= k
        PROVE  AtMost(Files, hist'[k], hist'[j])
    <3>1. CASE k = 1
      BY <2>1, <2>3, <2>4, <3>1 DEF AtMost
    <3>2. CASE k # 1 /\ j = 1
      <4>1. k \in 2..Recheck /\ k - 1 \in 1..Recheck
        BY <1>n, <2>4, <3>2
      <4> QED
        BY <2>1, <2>2, <3>2, <4>1
    <3>3. CASE k # 1 /\ j # 1
      <4>1. k \in 2..Recheck /\ j \in 2..Recheck /\ k - 1 \in 1..Recheck /\ j - 1 \in 1..Recheck /\ j - 1 <= k - 1
        BY <1>n, <2>4, <3>3
      <4> QED
        BY <2>1, <4>1 DEF Past
    <3> QED
      BY <3>1, <3>2, <3>3
  <2> QED
    BY <1>0, <2>1, <2>3, <2>4 DEF Past, AtMost
<1>5. WalkIsRecent'
  BY <1>0, <1>1 DEF WalkIsRecent, Inside
<1>6. BuildIsRecent'
  BY <1>0, <1>1 DEF BuildIsRecent, Inside
<1>7. StateIsRecent'
  BY <1>0, <1>1 DEF StateIsRecent, Building, Inside
<1>8. ServedIsFresh'
  BY <1>0 DEF ServedIsFresh
<1> QED
  BY <1>2, <1>3, <1>4, <1>5, <1>6, <1>7, <1>8

(* An edit makes the tree newer than all that was read of it. *)
LEMMA EditKeeps ==
    ASSUME IInv, NEW e \in Files, Edit(e) PROVE IInv'
<1> USE DEF IInv
<1>0. UNCHANGED <<hist, since, built, state, stamp, holder, held, left, walk, draft, pc, got, floor, glitches>>
  BY DEF Edit
<1>1. /\ tree' \in Versions
      /\ AtMost(Files, tree, tree')
  <2>1. tree \in [Files -> Version] /\ tree[e] < MaxEdits /\ tree' = [tree EXCEPT ![e] = tree[e] + 1]
    BY DEF Edit, TypeOK, Versions
  <2>2. tree[e] \in Version /\ tree[e] + 1 \in Version /\ tree[e] <= tree[e] + 1
    BY <2>1, ConsoleAssumption DEF Version
  <2>3. tree' \in Versions
    BY <2>1, <2>2 DEF Versions
  <2>4. \A f \in Files : tree[f] <= tree'[f]
    BY <2>1, <2>2, VersionsAreNumbers
  <2> QED
    BY <2>3, <2>4 DEF AtMost
<1>2. \A f \in Files : tree'[f] \in Nat
  BY <1>1, ConsoleAssumption DEF Versions, Version
<1>3. TypeOK'
  BY <1>0, <1>1 DEF TypeOK
<1>4. Locked' /\ BuildIsRecent' /\ StateIsRecent' /\ ServedIsFresh'
  BY <1>0 DEF Locked, BuildIsRecent, StateIsRecent, Building, ServedIsFresh
<1>5. Past'
  BY <1>0, <1>1, <1>2, VersionsAreNumbers DEF Past, AtMost
<1>6. WalkIsRecent'
  BY <1>0, <1>1, <1>2, VersionsAreNumbers DEF WalkIsRecent, AtMost
<1> QED
  BY <1>3, <1>4, <1>5, <1>6
(* Coming, or having been served, changes nothing shared. *)
LEMMA RequestAndServeKeep ==
    ASSUME IInv, NEW c \in Clients, Request(c) \/ Serve(c) PROVE IInv'
<1> USE DEF IInv
<1>0. /\ UNCHANGED <<tree, hist, since, built, state, stamp, holder, held, left, walk, draft, got, floor, glitches>>
      /\ \E place \in {"ensure", "idle"} : pc' = [pc EXCEPT ![c] = place]
      /\ pc[c] \notin {"walk", "build"}
  BY DEF Request, Serve
<1>1. \A d \in Clients : \A place \in {"walk", "build", "serve"} : pc'[d] = place => pc[d] = place
  BY <1>0 DEF TypeOK
<1>2. \A d \in Clients : \A place \in {"walk", "build"} : pc'[d] = place <=> pc[d] = place
  BY <1>0 DEF TypeOK
<1>3. TypeOK'
  BY <1>0 DEF TypeOK
<1>4. Locked'
  BY <1>0, <1>2 DEF Locked
<1>5. Past'
  BY <1>0 DEF Past
<1>6. WalkIsRecent' /\ BuildIsRecent' /\ StateIsRecent' /\ ServedIsFresh'
  BY <1>0, <1>1, <1>2 DEF WalkIsRecent, BuildIsRecent, StateIsRecent, Building, ServedIsFresh
<1> QED
  BY <1>3, <1>4, <1>5, <1>6

(* The tree a request may be answered from is in the past of every tree    *)
(* read since.                                                             *)
LEMMA FloorIsPast ==
    ASSUME IInv, NEW c \in Clients, ReadsNow(c)
    PROVE  /\ floor' \in [Clients -> Versions] /\ floor'[c] = hist[Recheck]
           /\ \A d \in Clients \ {c} : floor'[d] = floor[d]
           /\ AtMost(Files, floor'[c], tree)
           /\ \A k \in 1..Recheck : AtMost(Files, floor'[c], hist[k])
<1> USE DEF IInv
<1>1. /\ floor' \in [Clients -> Versions] /\ floor'[c] = hist[Recheck]
      /\ \A d \in Clients \ {c} : floor'[d] = floor[d]
  BY VersionsAreNumbers DEF ReadsNow, TypeOK
<1>2. \A k \in 1..Recheck : AtMost(Files, hist[Recheck], hist[k])
  BY VersionsAreNumbers DEF Past
<1>3. AtMost(Files, hist[Recheck], tree)
  BY <1>2, VersionsAreNumbers DEF Past, AtMost
<1> QED
  BY <1>1, <1>2, <1>3

(* A trusted build was checked less than Recheck ago. *)
LEMMA ThrottledKeeps ==
    ASSUME IInv, NEW c \in Clients, Throttled(c) PROVE IInv'
<1> USE DEF IInv
<1>0. /\ UNCHANGED <<tree, hist, since, built, state, stamp, holder, held, left, walk, draft, glitches>>
      /\ pc[c] = "ensure" /\ holder = None /\ built /\ since < Recheck
      /\ got' = [got EXCEPT ![c] = state] /\ pc' = [pc EXCEPT ![c] = "serve"]
  BY DEF Throttled, Locks, Trusted
<1>1. \A d \in Clients : pc[d] \notin {"walk", "build"}
  BY <1>0, ConsoleAssumption DEF Locked
<1>2. \A d \in Clients : pc'[d] \notin {"walk", "build"}
  BY <1>0, <1>1 DEF TypeOK
<1>3. /\ floor' \in [Clients -> Versions]
      /\ \A d \in Clients \ {c} : floor'[d] = floor[d]
      /\ \A k \in 1..Recheck : AtMost(Files, floor'[c], hist[k])
  BY FloorIsPast DEF Throttled
<1>4. TypeOK'
  BY <1>0, <1>3 DEF TypeOK
<1>5. Locked'
  BY <1>0, <1>2, ConsoleAssumption DEF Locked
<1>6. Past' /\ WalkIsRecent' /\ BuildIsRecent' /\ StateIsRecent'
  BY <1>0, <1>1, <1>2 DEF Past, WalkIsRecent, BuildIsRecent, StateIsRecent, Building
<1>7. ServedIsFresh'
  <2>1. since + 1 \in 1..Recheck
    BY <1>0, ConsoleAssumption DEF TypeOK
  <2>2. AtMost(Inside, hist[since + 1], state.read)
    BY <1>0, <1>1 DEF StateIsRecent, Building
  <2>3. AtMost(Files, floor'[c], hist[since + 1])
    BY <1>3, <2>1
  <2>4. \A f \in Inside : floor'[c][f] <= state.read[f]
    <3> SUFFICES ASSUME NEW f \in Inside PROVE floor'[c][f] <= state.read[f]
      OBVIOUS
    <3>1. floor'[c][f] <= hist[since + 1][f] /\ hist[since + 1][f] <= state.read[f]
      BY <2>2, <2>3, VersionsAreNumbers DEF AtMost
    <3>2. floor'[c][f] \in Nat /\ hist[since + 1][f] \in Nat /\ state.read[f] \in Nat
      <4>1. f \in Files
        BY VersionsAreNumbers
      <4>2. floor'[c][f] \in Nat
        BY <1>3, <4>1, ConsoleAssumption DEF Versions, Version
      <4> QED
        BY <2>1, <4>1, <4>2, VersionsAreNumbers
    <3> QED
      BY <3>1, <3>2
  <2>5. got'[c] = state /\ \A d \in Clients \ {c} : got'[d] = got[d] /\ pc'[d] = pc[d]
    BY <1>0 DEF TypeOK
  <2> QED
    BY <1>3, <2>4, <2>5 DEF ServedIsFresh
<1> QED
  BY <1>4, <1>5, <1>6, <1>7

LEMMA StartWalkKeeps ==
    ASSUME IInv, NEW c \in Clients, StartWalk(c) PROVE IInv'
<1> USE DEF IInv
<1>0. /\ UNCHANGED <<tree, hist, since, built, state, stamp, draft, got, glitches>>
      /\ pc[c] = "ensure" /\ holder = None /\ holder' = c /\ held' = 0
      /\ left' = Inside /\ walk' = NeverRead /\ pc' = [pc EXCEPT ![c] = "walk"]
  BY DEF StartWalk, Locks
<1>1. \A d \in Clients : pc[d] \notin {"walk", "build"}
  BY <1>0, ConsoleAssumption DEF Locked
<1>2. pc'[c] = "walk" /\ \A d \in Clients \ {c} : pc'[d] = pc[d]
  BY <1>0 DEF TypeOK
<1>3. /\ floor' \in [Clients -> Versions]
      /\ \A d \in Clients \ {c} : floor'[d] = floor[d]
      /\ AtMost(Files, floor'[c], tree)
  BY FloorIsPast DEF StartWalk
<1>4. NeverRead \in Versions /\ \A f \in Files : NeverRead[f] = 0
  BY ConsoleAssumption DEF NeverRead, Versions, Version
<1>5. TypeOK'
  <2>1. held' \in 0..Recheck /\ left' \subseteq Files /\ walk' \in Versions
    BY <1>0, <1>4, VersionsAreNumbers
  <2>2. pc' \in [Clients -> {"idle", "ensure", "walk", "build", "serve"}]
    BY <1>0 DEF TypeOK
  <2> QED
    BY <1>0, <1>3, <2>1, <2>2 DEF TypeOK
<1>6. Locked'
  BY <1>0, <1>1, <1>2 DEF Locked
<1>7. Past'
  BY <1>0, <1>4, VersionsAreNumbers DEF Past, AtMost
<1>8. WalkIsRecent'
  BY <1>0, <1>1, <1>2, <1>3 DEF WalkIsRecent, AtMost, Inside
<1>9. BuildIsRecent' /\ StateIsRecent'
  BY <1>0, <1>1, <1>2 DEF BuildIsRecent, StateIsRecent, Building, Inside
<1>10. ServedIsFresh'
  BY <1>0, <1>2, <1>3 DEF ServedIsFresh
<1> QED
  BY <1>5, <1>6, <1>7, <1>8, <1>9, <1>10
(* A stat reads the tree as it is, newer than every snapshot. *)
LEMMA StatKeeps ==
    ASSUME IInv, NEW c \in Clients, NEW e \in Files, Stat(c, e) PROVE IInv'
<1> USE DEF IInv
<1>0. /\ UNCHANGED <<tree, hist, since, built, state, stamp, holder, held, draft, pc, got, floor, glitches>>
      /\ pc[c] = "walk" /\ holder = c /\ e \in left
      /\ walk' = [walk EXCEPT ![e] = tree[e]] /\ left' = left \ {e}
  BY DEF Stat, Locked
<1>1. walk'[e] = tree[e] /\ \A f \in Files \ {e} : walk'[f] = walk[f]
  BY <1>0 DEF TypeOK, Versions
<1>2. TypeOK'
  <2>1. walk' \in Versions
    BY <1>0 DEF TypeOK, Versions
  <2> QED
    BY <1>0, <2>1 DEF TypeOK
<1>3. Locked' /\ StateIsRecent' /\ ServedIsFresh'
  BY <1>0 DEF Locked, StateIsRecent, Building, ServedIsFresh
<1>4. BuildIsRecent'
  BY <1>0 DEF BuildIsRecent, Locked
<1>5. Past'
  BY <1>0, <1>1, VersionsAreNumbers DEF Past, AtMost
<1>6. WalkIsRecent'
  <2> SUFFICES ASSUME NEW d \in Clients, pc[d] = "walk"
               PROVE  /\ left' \subseteq Inside
                      /\ AtMost(Inside \ left', floor[d], walk')
                      /\ held < Recheck => AtMost(Inside \ left', hist[held + 1], walk')
                      /\ AtMost(Files, floor[d], tree)
    BY <1>0 DEF WalkIsRecent
  <2>1. AtMost(Inside \ left', floor[d], walk')
    BY <1>0, <1>1, VersionsAreNumbers DEF WalkIsRecent, AtMost
  <2>2. ASSUME held < Recheck PROVE AtMost(Inside \ left', hist[held + 1], walk')
    <3>1. held + 1 \in 1..Recheck
      BY <2>2, ConsoleAssumption DEF TypeOK
    <3>2. AtMost(Files, hist[held + 1], tree)
      BY <3>1, VersionsAreNumbers DEF Past, AtMost
    <3> QED
      BY <1>0, <1>1, <2>2, <3>2, VersionsAreNumbers DEF WalkIsRecent, AtMost
  <2> QED
    BY <1>0, <2>1, <2>2 DEF WalkIsRecent
<1> QED
  BY <1>2, <1>3, <1>4, <1>5, <1>6

(* The walk is whole: its holder compares it with the stamp. *)
LEMMA WalkIsWhole ==
    ASSUME IInv, NEW c \in Clients, pc[c] = "walk", left = {}
    PROVE  /\ AtMost(Inside, floor[c], walk)
           /\ held < Recheck => AtMost(Inside, hist[held + 1], walk)
           /\ \A d \in Clients \ {c} : pc[d] \notin {"walk", "build"}
BY DEF IInv, WalkIsRecent, Locked

LEMMA UnchangedKeeps ==
    ASSUME IInv, NEW c \in Clients, Unchanged(c) PROVE IInv'
<1> USE DEF IInv
<1>0. /\ UNCHANGED <<tree, hist, built, state, stamp, held, left, walk, draft, floor, glitches>>
      /\ pc[c] = "walk" /\ left = {} /\ built /\ walk = stamp
      /\ since' = held /\ holder' = None
      /\ got' = [got EXCEPT ![c] = state] /\ pc' = [pc EXCEPT ![c] = "serve"]
  BY DEF Unchanged, Good, Checked, Returns
<1>1. /\ AtMost(Inside, floor[c], walk)
      /\ held < Recheck => AtMost(Inside, hist[held + 1], walk)
      /\ \A d \in Clients \ {c} : pc[d] \notin {"walk", "build"}
  BY <1>0, WalkIsWhole
<1>2. pc'[c] = "serve" /\ \A d \in Clients \ {c} : pc'[d] = pc[d]
  BY <1>0 DEF TypeOK
<1>3. got'[c] = state /\ \A d \in Clients \ {c} : got'[d] = got[d]
  BY <1>0 DEF TypeOK
<1>4. TypeOK'
  BY <1>0 DEF TypeOK
<1>5. Locked'
  BY <1>0, <1>1, <1>2, ConsoleAssumption DEF Locked
<1>6. Past' /\ WalkIsRecent' /\ BuildIsRecent'
  BY <1>0, <1>1, <1>2 DEF Past, WalkIsRecent, BuildIsRecent
<1>7. AtMost(Inside, stamp, state.read)
  BY <1>0, <1>1 DEF StateIsRecent, Building
<1>8. StateIsRecent'
  <2>1. ASSUME held < Recheck PROVE AtMost(Inside, hist[held + 1], state.read)
    <3>1. held + 1 \in 1..Recheck
      BY <2>1, ConsoleAssumption DEF TypeOK
    <3> QED
      BY <1>0, <1>1, <1>7, <2>1, <3>1, VersionsAreNumbers DEF AtMost
  <2> QED
    BY <1>0, <1>7, <2>1 DEF StateIsRecent, Inside
<1>9. ServedIsFresh'
  <2>1. \A f \in Inside : floor[c][f] <= state.read[f]
    BY <1>0, <1>1, <1>7, VersionsAreNumbers DEF AtMost
  <2> QED
    BY <1>0, <1>2, <1>3, <2>1 DEF ServedIsFresh, Inside
<1> QED
  BY <1>4, <1>5, <1>6, <1>8, <1>9

LEMMA StartBuildKeeps ==
    ASSUME IInv, NEW c \in Clients, StartBuild(c) PROVE IInv'
<1> USE DEF IInv
<1>0. /\ UNCHANGED <<tree, hist, built, state, holder, held, walk, got, floor, glitches>>
      /\ pc[c] = "walk" /\ left = {} /\ holder = c
      /\ since' = held /\ stamp' = walk /\ left' = Files /\ draft' = Unbuilt
      /\ pc' = [pc EXCEPT ![c] = "build"]
  BY DEF StartBuild, Checked, Locked
<1>1. /\ AtMost(Inside, floor[c], walk)
      /\ held < Recheck => AtMost(Inside, hist[held + 1], walk)
      /\ \A d \in Clients \ {c} : pc[d] \notin {"walk", "build"}
  BY <1>0, WalkIsWhole
<1>2. pc'[c] = "build" /\ \A d \in Clients \ {c} : pc'[d] = pc[d]
  BY <1>0 DEF TypeOK
<1>3. Unbuilt \in Build /\ \A f \in Files : Unbuilt.read[f] = 0
  BY ConsoleAssumption DEF Unbuilt, Build, NeverRead, Versions, Version
<1>4. TypeOK'
  BY <1>0, <1>3 DEF TypeOK
<1>5. Locked'
  BY <1>0, <1>1, <1>2 DEF Locked
<1>6. Past'
  BY <1>0, <1>3, VersionsAreNumbers DEF Past, AtMost
<1>7. WalkIsRecent'
  BY <1>1, <1>2 DEF WalkIsRecent
<1>8. BuildIsRecent'
  <2>1. Inside \ left' = {}
    BY <1>0 DEF Inside
  <2> QED
    BY <1>0, <1>1, <1>2, <2>1 DEF BuildIsRecent, AtMost, Inside
<1>9. StateIsRecent'
  BY <1>2 DEF StateIsRecent, Building
<1>10. ServedIsFresh'
  BY <1>0, <1>2 DEF ServedIsFresh
<1> QED
  BY <1>4, <1>5, <1>6, <1>7, <1>8, <1>9, <1>10

LEMMA ScanKeeps ==
    ASSUME IInv, NEW c \in Clients, NEW e \in Files, NEW fails \in BOOLEAN, Scan(c, e, fails)
    PROVE  IInv'
<1> USE DEF IInv
<1>0. /\ UNCHANGED <<tree, hist, since, built, state, stamp, holder, held, walk, pc, got, floor>>
      /\ pc[c] = "build" /\ e \in left /\ left' = left \ {e}
      /\ draft'.read = [draft.read EXCEPT ![e] = tree[e]]
  BY DEF Scan
<1>1. /\ draft'.read[e] = tree[e]
      /\ \A f \in Files \ {e} : draft'.read[f] = draft.read[f]
  BY <1>0 DEF TypeOK, Build, Versions
<1>2. TypeOK'
  <2>1. draft' \in Build
    BY DEF Scan, TypeOK, Build, Versions
  <2>2. glitches' \in 0..MaxGlitches
    BY ConsoleAssumption DEF Scan, TypeOK
  <2> QED
    BY <1>0, <2>1, <2>2 DEF TypeOK
<1>3. Locked' /\ StateIsRecent' /\ ServedIsFresh'
  BY <1>0 DEF Locked, StateIsRecent, Building, ServedIsFresh
<1>4. WalkIsRecent'
  BY <1>0 DEF WalkIsRecent, Locked
<1>5. Past'
  BY <1>0, <1>1, VersionsAreNumbers DEF Past, AtMost
<1>6. BuildIsRecent'
  <2>1. AtMost(Files, stamp, tree)
    BY DEF Past
  <2>2. ASSUME NEW d \in Clients, pc[d] = "build"
        PROVE  AtMost(Inside \ left', stamp, draft'.read)
    BY <1>0, <1>1, <2>1, <2>2, VersionsAreNumbers DEF BuildIsRecent, AtMost
  <2> QED
    BY <1>0, <2>2 DEF BuildIsRecent, Inside
<1> QED
  BY <1>2, <1>3, <1>4, <1>5, <1>6

LEMMA FinishBuildKeeps ==
    ASSUME IInv, NEW c \in Clients, FinishBuild(c) PROVE IInv'
<1> USE DEF IInv
<1>0. /\ UNCHANGED <<tree, hist, since, stamp, held, left, walk, draft, floor, glitches>>
      /\ pc[c] = "build" /\ left = {} /\ built' /\ state' = draft /\ holder' = None
      /\ got' = [got EXCEPT ![c] = draft] /\ pc' = [pc EXCEPT ![c] = "serve"]
      /\ \A d \in Clients \ {c} : pc[d] \notin {"walk", "build"}
  BY DEF FinishBuild, Returns, Locked
<1>1. /\ AtMost(Inside, floor[c], stamp) /\ AtMost(Inside, stamp, draft.read)
      /\ since < Recheck => AtMost(Inside, hist[since + 1], stamp)
  BY <1>0 DEF BuildIsRecent
<1>2. pc'[c] = "serve" /\ \A d \in Clients \ {c} : pc'[d] = pc[d]
  BY <1>0 DEF TypeOK
<1>3. got'[c] = draft /\ \A d \in Clients \ {c} : got'[d] = got[d]
  BY <1>0 DEF TypeOK
<1>4. TypeOK'
  BY <1>0 DEF TypeOK, FinishBuild
<1>5. Locked'
  BY <1>0, <1>2, ConsoleAssumption DEF Locked
<1>6. Past' /\ WalkIsRecent' /\ BuildIsRecent'
  BY <1>0, <1>2 DEF Past, WalkIsRecent, BuildIsRecent
<1>7. StateIsRecent'
  <2>1. ASSUME since < Recheck PROVE AtMost(Inside, hist[since + 1], draft.read)
    <3>1. since + 1 \in 1..Recheck
      BY <2>1, ConsoleAssumption DEF TypeOK
    <3> QED
      BY <1>1, <2>1, <3>1, VersionsAreNumbers DEF AtMost
  <2> QED
    BY <1>0, <1>1, <2>1 DEF StateIsRecent, Inside
<1>8. ServedIsFresh'
  <2>1. \A f \in Inside : floor[c][f] <= draft.read[f]
    BY <1>1, VersionsAreNumbers DEF AtMost
  <2> QED
    BY <1>0, <1>2, <1>3, <2>1 DEF ServedIsFresh, Inside
<1> QED
  BY <1>4, <1>5, <1>6, <1>7, <1>8

LEMMA NextKeeps == IInv /\ [Next]_vars => IInv'
<1> SUFFICES ASSUME IInv, [Next]_vars PROVE IInv'
  OBVIOUS
<1>1. CASE UNCHANGED vars
  BY <1>1 DEF vars, IInv, TypeOK, Locked, Past, WalkIsRecent, BuildIsRecent, StateIsRecent,
     Building, ServedIsFresh
<1>2. CASE Tick \/ \E f \in Files : Edit(f)
  BY <1>2, TickKeeps, EditKeeps
<1>3. ASSUME NEW c \in Clients, Request(c) \/ Serve(c) PROVE IInv'
  BY <1>3, RequestAndServeKeep
<1>4. ASSUME NEW c \in Clients, Ensure(c) PROVE IInv'
  BY <1>4, ThrottledKeeps, StartWalkKeeps, StatKeeps, UnchangedKeeps, StartBuildKeeps,
     ScanKeeps, FinishBuildKeeps DEF Ensure
<1> QED
  BY <1>1, <1>2, <1>3, <1>4 DEF Next

---------------------------------------------------------------------------
(* The console's state is always of its type (spector.go:1282-1327).       *)
THEOREM TypeCorrect == Spec => []TypeOK
<1>1. IInv => TypeOK
  BY DEF IInv
<1> QED
  BY InitHolds, NextKeeps, <1>1, PTL DEF Spec

(* A build that misses an edit of a fingerprinted file has a stamp the     *)
(* next walk will not match, whatever was edited while it was made         *)
(* (spector.go:1319-1325).                                                 *)
THEOREM StaleBuildsAreNoticed == Spec => []StaleIsNoticed
<1>1. IInv => StaleIsNoticed
  <2> SUFFICES ASSUME IInv, built, holder = None, NEW f \in Inside, state.read[f] < tree[f]
               PROVE  stamp[f] # tree[f]
    BY DEF StaleIsNoticed
  <2>1. ~ Building
    BY ConsoleAssumption DEF IInv, Locked, Building
  <2>2. stamp[f] <= state.read[f]
    BY <2>1 DEF IInv, StateIsRecent, AtMost
  <2> QED
    BY <2>2, VersionsAreNumbers DEF IInv
<1> QED
  BY InitHolds, NextKeeps, <1>1, PTL DEF Spec

(* No request is answered from fingerprinted sources older than they were  *)
(* Recheck before it, for any number of requests, files, edits and any     *)
(* length of a scan (spector.go:1256-1327).                                *)
THEOREM NothingStaleIsServed == Spec => []ServedIsFresh
<1>1. IInv => ServedIsFresh
  BY DEF IInv
<1> QED
  BY InitHolds, NextKeeps, <1>1, PTL DEF Spec
============================================================================
