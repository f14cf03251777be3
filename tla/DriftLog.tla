------------------------------ MODULE DriftLog ------------------------------
(***************************************************************************)
(* What the verifying proxy promises about drift, whoever reports it and   *)
(* in whatever order: at most Limit distinct findings are kept, each with  *)
(* the number of its sightings, and each is printed once, after it is kept *)
(* (internal/proxy/proxy.go, Finding, Options.OnFinding, maxFindings).     *)
(***************************************************************************)
EXTENDS Naturals, Sequences, FiniteSets

CONSTANTS Finding, Limit

VARIABLES counts,    \* kept finding -> sightings
          printed    \* the live log

vars == <<counts, printed>>

Init == counts = << >> /\ printed = << >>

Keep(f) ==
    /\ f \notin DOMAIN counts
    /\ Cardinality(DOMAIN counts) < Limit
    /\ counts' = [g \in DOMAIN counts \cup {f} |-> IF g = f THEN 1 ELSE counts[g]]
    /\ UNCHANGED printed

Repeat(f) ==
    /\ f \in DOMAIN counts
    /\ counts' = [counts EXCEPT ![f] = @ + 1]
    /\ UNCHANGED printed

Tell(f) ==
    /\ f \in DOMAIN counts
    /\ \A i \in DOMAIN printed : printed[i] # f
    /\ printed' = Append(printed, f)
    /\ UNCHANGED counts

Next == \E f \in Finding : Keep(f) \/ Repeat(f) \/ Tell(f)

Spec == Init /\ [][Next]_vars
==============================================================================
