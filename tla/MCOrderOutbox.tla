---------------------------- MODULE MCOrderOutbox ----------------------------
(***************************************************************************)
(* Small instances of OrderOutbox.                                         *)
(***************************************************************************)
EXTENDS OrderOutbox, TLC

CONSTANTS completed, c1, c2, r1

(* The completion of an order.                                             *)
CompletionVersion == completed :> 4

ConsumerSymmetry == Permutations({c1, c2})
=============================================================================
