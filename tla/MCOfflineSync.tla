--------------------------- MODULE MCOfflineSync ---------------------------
(* Small instances of OfflineSync for TLC.                                 *)
EXTENDS OfflineSync, TLC

CONSTANTS r1, r2, d1, d2, i1, i2, w1, w2

\* The first record sells two kinds of item, the second competes for one.
MCLines == (r1 :> <<[item |-> i1, qty |-> 2], [item |-> i2, qty |-> 1]>>) @@
           (r2 :> <<[item |-> i1, qty |-> 1]>>)

MCDeviceOf == (r1 :> d1) @@ (r2 :> d2)

\* Not enough of i2 for two attempts at r1.
MCStock == (i1 :> 5) @@ (i2 :> 1)

WorkerSymmetry == Permutations({w1, w2})

=============================================================================
