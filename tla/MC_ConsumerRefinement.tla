---------------------- MODULE MC_ConsumerRefinement ----------------------
(***************************************************************************)
(* ConsumerRefinement on small instances, with the constants of            *)
(* MC_ConsumerReconcile and two objects for the cross-key cases.           *)
(***************************************************************************)
EXTENDS ConsumerRefinement, MC_ConsumerReconcile

=============================================================================
