----------------------------- MODULE MCLiveHub -----------------------------
(* Small instances of LiveHub. *)
EXTENDS LiveHub, TLC

\* Viewers are interchangeable, and so are writers.
Symmetry == Permutations(Viewers) \cup Permutations(Writers)
=============================================================================
