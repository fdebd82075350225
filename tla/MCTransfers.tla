----------------------------- MODULE MCTransfers -----------------------------
(* Small instances of Transfers for TLC.                                     *)
EXTENDS Transfers, TLC

CONSTANTS t1, t2, m1

(* All transfers are of the same model, which is where they interfere.       *)
OneModel == [t \in Transfers |-> m1]
TransferSymmetry == Permutations({t1, t2})
=============================================================================
