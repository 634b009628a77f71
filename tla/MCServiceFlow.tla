--------------------------- MODULE MCServiceFlow ----------------------------
(***************************************************************************)
(* Small instances of ServiceFlow for TLC.                                 *)
(***************************************************************************)
EXTENDS ServiceFlow, TLC

\* Rows, people and calls are interchangeable.
Symmetry ==
  UNION {Permutations(S) : S \in {WorkOrders, Shifts, Staff, Records, Calls}}
=============================================================================
