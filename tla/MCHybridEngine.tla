---------------------------- MODULE MCHybridEngine ----------------------------
(* A small instance of HybridEngine for TLC: four ranks, two to an engine. *)
EXTENDS HybridEngine

\* The third parameter fills a bucket of its own and closes an open one.
MCSizes == <<1, 1, 3, 1>>

\* Fewer rows than ranks (none among them), some with gaps, and more.
MCMasks == {{}, {2}, {1, 3, 5}, 1 .. 5}

=============================================================================
