---------------------------- MODULE MCClickRequests ----------------------------
(* Instances of ClickRequests for TLC. *)
EXTENDS ClickRequests, TLC

RequestSymmetry == Permutations(Requests) \cup Permutations(Addresses)

\* Bound: the third request begins, or goes on, only as long as no data race has
\* lost anything or torn a collection.
TwoOrSound ==
  \/ Cardinality({r \in Requests : ~At(r, "idle")}) <= 2
  \/ /\ raced = {}
     /\ \A m \in Requests : ~cache[m].mapTorn /\ ~cache[m].listTorn
=============================================================================
