----------------------------- MODULE MCConsRing -----------------------------
(***************************************************************************)
(* Instances of ConsRing: a ring of three, and enough bytes from each      *)
(* device to fill it more than once.                                       *)
(***************************************************************************)
EXTENDS ConsRing
=============================================================================
