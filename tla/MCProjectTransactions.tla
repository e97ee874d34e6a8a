------------------------ MODULE MCProjectTransactions ------------------------
(***************************************************************************)
(* Transactions for TLC: one changes both files, the others one each.      *)
(***************************************************************************)
EXTENDS ProjectTransactions
CONSTANTS t1, t2, f1, f2

MCChanges == [t \in Txs |-> IF t = t1 THEN {f1, f2} ELSE {f2}]

=============================================================================
