------------------------- MODULE MC_OrderLifecycle -------------------------
(***************************************************************************)
(* Model-checking instance of OrderLifecycle.  Two identifiers, one       *)
(* earlier certificate that may be replaced, two concurrent RA handlers.  *)
(* Each .cfg sets its own lifetimes.  The expiry run takes a valid        *)
(* authorization lifetime (2) shorter than the order lifetime (3), so that *)
(* a reused valid authorization expires before a new order's own lifetime *)
(* ends, which is what makes the order expiry rule and the purge of       *)
(* expired rows matter.                                                    *)
(***************************************************************************)
EXTENDS OrderLifecycle, TLC

\* Identifiers and handlers are interchangeable model values.
Symmetry == Permutations(Idents) \cup Permutations(Workers)
=============================================================================
