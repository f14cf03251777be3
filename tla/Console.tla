------------------------------ MODULE Console ------------------------------
(***************************************************************************)
(* How the embedded console keeps showing "the code as it is now"          *)
(* (spector.go, Handler: build and ensure; fingerprint).                   *)
(*                                                                         *)
(* Every request calls ensure, which under one lock either returns the     *)
(* build it has, or walks the tree for its fingerprint and, if that moved, *)
(* rebuilds the documents.  A walk and a build read the files one by one   *)
(* while somebody edits them and time passes.                              *)
(*                                                                         *)
(* A file stands for all the sources one document is built from, and its   *)
(* version for their names, sizes and modification times.                  *)
(***************************************************************************)
EXTENDS Naturals, FiniteSets

CONSTANTS Clients,      \* requests being served, one goroutine each
          Files,        \* the sources of each document
          GoFile,       \* the sources Generate reads
          Outside,      \* sources outside the fingerprinted directory
          None,         \* no client holds the lock
          Recheck,      \* consoleRecheck, in ticks of the clock
          MaxEdits,     \* model bound: edits of a file
          MaxGlitches   \* model bound: scans that fail

ASSUME ConsoleAssumption ==
    /\ GoFile \in Files /\ Outside \subseteq Files /\ GoFile \notin Outside
    /\ None \notin Clients
    /\ Recheck \in Nat \ {0} /\ MaxEdits \in Nat /\ MaxGlitches \in Nat

Inside == Files \ Outside
Version == 0..MaxEdits
NeverRead == [f \in Files |-> 0]

VARIABLES tree,      \* the files' versions
          hist,      \* tree as it was at each of the last Recheck ticks
          since,     \* ticks since "checked", up to Recheck
          built,     \* state # nil
          state,     \* the build being served: what it read, which scans failed
          stamp,     \* the fingerprint "stamp"
          holder,    \* who holds mu
          held,      \* ticks since the holder read "now", up to Recheck
          left,      \* files the holder has still to stat or to scan
          walk,      \* the fingerprint the holder is computing
          draft,     \* the build the holder is making
          pc,        \* [Clients -> where the request is]
          got,       \* [Clients -> the build ensure returned]
          floor,     \* history: the tree Recheck ticks before ensure read "now"
          glitches   \* scans that failed so far

vars == <<tree, hist, since, built, state, stamp, holder, held, left, walk, draft,
          pc, got, floor, glitches>>

Versions == [Files -> Version]
Build == [read : Versions, failed : SUBSET Files]
Unbuilt == [read |-> NeverRead, failed |-> {}]

TypeOK ==
    /\ tree \in Versions
    /\ hist \in [1..Recheck -> Versions]
    /\ since \in 0..Recheck /\ held \in 0..Recheck
    /\ built \in BOOLEAN /\ state \in Build /\ draft \in Build
    /\ stamp \in Versions /\ walk \in Versions
    /\ holder \in Clients \cup {None}
    /\ left \subseteq Files
    /\ pc \in [Clients -> {"idle", "ensure", "walk", "build", "serve"}]
    /\ got \in [Clients -> Build]
    /\ floor \in [Clients -> Versions]
    /\ glitches \in 0..MaxGlitches

Init ==
    /\ tree = NeverRead
    /\ hist = [k \in 1..Recheck |-> NeverRead]
    /\ since = Recheck /\ held = 0
    /\ built = FALSE /\ state = Unbuilt /\ draft = Unbuilt
    /\ stamp = NeverRead /\ walk = NeverRead
    /\ holder = None /\ left = {}
    /\ pc = [c \in Clients |-> "idle"]
    /\ got = [c \in Clients |-> Unbuilt]
    /\ floor = [c \in Clients |-> NeverRead]
    /\ glitches = 0

---------------------------------------------------------------------------
(* The world. *)

Aged(n) == IF n < Recheck THEN n + 1 ELSE n

Tick ==
    /\ hist' = [k \in 1..Recheck |-> IF k = 1 THEN tree ELSE hist[k - 1]]
    /\ since' = Aged(since) /\ held' = Aged(held)
    /\ UNCHANGED <<tree, built, state, stamp, holder, left, walk, draft, pc, got,
                   floor, glitches>>

Edit(f) ==
    /\ tree[f] < MaxEdits
    /\ tree' = [tree EXCEPT ![f] = @ + 1]
    /\ UNCHANGED <<hist, since, built, state, stamp, holder, held, left, walk, draft,
                   pc, got, floor, glitches>>

---------------------------------------------------------------------------
(* One request. *)

Request(c) ==
    /\ pc[c] = "idle"
    /\ pc' = [pc EXCEPT ![c] = "ensure"]
    /\ UNCHANGED <<tree, hist, since, built, state, stamp, holder, held, left, walk,
                   draft, got, floor, glitches>>

(* mu.Lock() and now := time.Now() *)
Locks(c) == pc[c] = "ensure" /\ holder = None
ReadsNow(c) == floor' = [floor EXCEPT ![c] = hist[Recheck]]

Trusted == built /\ since < Recheck

Throttled(c) ==
    /\ Locks(c) /\ ReadsNow(c)
    /\ Trusted
    /\ got' = [got EXCEPT ![c] = state]
    /\ pc' = [pc EXCEPT ![c] = "serve"]
    /\ UNCHANGED <<tree, hist, since, built, state, stamp, holder, held, left, walk,
                   draft, glitches>>

StartWalk(c) ==
    /\ Locks(c) /\ ReadsNow(c)
    /\ ~ Trusted
    /\ holder' = c /\ held' = 0
    /\ left' = Inside /\ walk' = NeverRead
    /\ pc' = [pc EXCEPT ![c] = "walk"]
    /\ UNCHANGED <<tree, hist, since, built, state, stamp, draft, got, glitches>>

(* fingerprint: one stat *)
Stat(c, f) ==
    /\ pc[c] = "walk" /\ f \in left
    /\ walk' = [walk EXCEPT ![f] = tree[f]]
    /\ left' = left \ {f}
    /\ UNCHANGED <<tree, hist, since, built, state, stamp, holder, held, draft, pc,
                   got, floor, glitches>>

\* variant of Returns, with a slip
ReturnsLocked(c, build) ==
    /\ got' = [got EXCEPT ![c] = build]
    /\ pc' = [pc EXCEPT ![c] = "serve"]
    /\ UNCHANGED holder
Returns(c, build) ==
    /\ got' = [got EXCEPT ![c] = build]
    /\ pc' = [pc EXCEPT ![c] = "serve"]
    /\ holder' = None

(* The build in hand is good: no scan for the OpenAPI document failed, and *)
(* the fingerprint has not moved.                                          *)
\* variant of Good, with a slip
GoodWhateverFailed == built /\ walk = stamp
Good == built /\ GoFile \notin state.failed /\ walk = stamp

(* checked = now *)
\* variant of Checked, with a slip
CheckedLate == since' = 0
Checked == since' = held

Unchanged(c) ==
    /\ pc[c] = "walk" /\ left = {} /\ Good
    /\ Checked
    /\ Returns(c, state)
    /\ UNCHANGED <<tree, hist, built, state, stamp, held, left, walk, draft, floor,
                   glitches>>

StartBuild(c) ==
    /\ pc[c] = "walk" /\ left = {} /\ ~ Good
    /\ Checked
    /\ stamp' = walk
    /\ left' = Files /\ draft' = Unbuilt
    /\ pc' = [pc EXCEPT ![c] = "build"]
    /\ UNCHANGED <<tree, hist, built, state, holder, held, walk, got, floor, glitches>>

(* Generate, GenerateGrpc, GenerateGraphql: each reads its own sources and *)
(* may fail on what it finds half-written.                                 *)
Scan(c, f, fails) ==
    /\ pc[c] = "build" /\ f \in left
    /\ fails => glitches < MaxGlitches
    /\ draft' = [read   |-> [draft.read EXCEPT ![f] = tree[f]],
                 failed |-> IF fails THEN draft.failed \cup {f} ELSE draft.failed]
    /\ glitches' = IF fails THEN glitches + 1 ELSE glitches
    /\ left' = left \ {f}
    /\ UNCHANGED <<tree, hist, since, built, state, stamp, holder, held, walk, pc, got,
                   floor>>

\* variant of FinishBuild, with a slip
StampsAfterwards(c) ==
    /\ pc[c] = "build" /\ left = {}
    /\ built' = TRUE /\ state' = draft
    /\ stamp' = [f \in Files |-> IF f \in Inside THEN tree[f] ELSE 0]
    /\ Returns(c, draft)
    /\ UNCHANGED <<tree, hist, since, held, left, walk, draft, floor, glitches>>
FinishBuild(c) ==
    /\ pc[c] = "build" /\ left = {}
    /\ built' = TRUE /\ state' = draft
    /\ Returns(c, draft)
    /\ UNCHANGED <<tree, hist, since, stamp, held, left, walk, draft, floor, glitches>>

Serve(c) ==
    /\ pc[c] = "serve"
    /\ pc' = [pc EXCEPT ![c] = "idle"]
    /\ UNCHANGED <<tree, hist, since, built, state, stamp, holder, held, left, walk,
                   draft, got, floor, glitches>>

Ensure(c) ==
    \/ Throttled(c) \/ StartWalk(c) \/ Unchanged(c) \/ StartBuild(c) \/ FinishBuild(c)
    \/ \E f \in Files : Stat(c, f) \/ \E fails \in BOOLEAN : Scan(c, f, fails)

Next ==
    \/ Tick \/ \E f \in Files : Edit(f)
    \/ \E c \in Clients : Request(c) \/ Ensure(c) \/ Serve(c)

Spec == Init /\ [][Next]_vars

(* Time passes, and the handler of a request that has come runs to its     *)
(* end; waiters on a sync.Mutex are not starved (it hands over to a waiter *)
(* after a millisecond).  Neither requests nor edits are owed.             *)
FairSpec ==
    /\ Spec /\ WF_vars(Tick)
    /\ \A c \in Clients : SF_vars(Ensure(c)) /\ WF_vars(Serve(c))

---------------------------------------------------------------------------
(* The stamp is never newer than what the build it stands for has read, so *)
(* a build that misses an edit is told apart by the next walk, whatever    *)
(* was edited during the walk and the scans (spector.go:1319-1325).        *)
StaleIsNoticed ==
    built /\ holder = None =>
        \A f \in Inside : state.read[f] < tree[f] => stamp[f] # tree[f]

(* A request is answered from sources no older than Recheck before it: the *)
(* throttle counts from before the walk, and what waited for the lock has  *)
(* no older build (spector.go:1256-1265, 1304-1327).                       *)
ServedIsFresh ==
    \A c \in Clients : pc[c] = "serve" =>
        \A f \in Inside : floor[c][f] <= got[c].read[f]

(* While requests keep coming, the console comes to show the tree as it is *)
(* and a failed scan of the Go sources is not served for ever: "a scan     *)
(* that failed ... would keep answering 500" (spector.go:1304-1307).       *)
Asked == \E c \in Clients : pc[c] = "ensure"
Current == \A f \in Inside : state.read[f] = tree[f]

BecomesCurrent == []<>Asked => <>[](built /\ Current /\ GoFile \notin state.failed)

(* Every request gets an answer: the lock is given back on every path      *)
(* (spector.go:1310-1326).                                                 *)
EveryRequestIsServed == \A c \in Clients : pc[c] = "ensure" ~> pc[c] = "serve"
============================================================================
