----------------------------- MODULE ApIndices ------------------------------
(***************************************************************************)
(* The APs of one hub as Controller sees them: a set of indices.  Creating *)
(* k APs takes the k lowest free indices at once.                          *)
(***************************************************************************)
EXTENDS NodeTree

CONSTANT ApCounts \* how many APs a request may create

VARIABLE aps

Init == aps = {}

Create(k) == aps' = aps \cup LowestFree(aps, k)

Delete(i) == aps' = aps \ {i}

Next == (\E k \in ApCounts : Create(k)) \/ (\E i \in aps : Delete(i))

Spec == Init /\ [][Next]_aps

=============================================================================
