---------------------------- MODULE MCTxEstimate ----------------------------
(* An instance of TxEstimate for TLC. *)
EXTENDS TxEstimate

(* The default, one alone in its entry, and two whose bytes fall together.   *)
Program == {NoIdentifier,
            [rest |-> {3}, byte1 |-> {2}, byte2 |-> {2}],
            [rest |-> {}, byte1 |-> {0}, byte2 |-> {1}],
            [rest |-> {0}, byte1 |-> {}, byte2 |-> {2}]}
=============================================================================
