------------------------- MODULE MCDashboardStream -------------------------
(* Small instances of DashboardStream. *)
EXTENDS DashboardStream

Symmetry == Permutations(Requests)
=============================================================================
