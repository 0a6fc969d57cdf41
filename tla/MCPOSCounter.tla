--------------------------- MODULE MCPOSCounter ---------------------------
(* Small instances of POSCounter for TLC.                                  *)
EXTENDS POSCounter, TLC

CONSTANTS t1, t2, i1, i2, c1, w1, w2

\* The two sales compete for both items and reach them in opposite orders,
\* so that two payments can wait for each other.  Both are of customer c1.
MCTxOf == (1 :> t1) @@ (2 :> t1) @@ (3 :> t2) @@ (4 :> t2)
MCItemOf == (1 :> i1) @@ (2 :> i2) @@ (3 :> i2) @@ (4 :> i1)
MCQtyOf == (1 :> 2) @@ (2 :> 1) @@ (3 :> 1) @@ (4 :> 1)
MCCustomerOf == (t1 :> c1) @@ (t2 :> c1)

\* Not enough of i2 for both sales.
MCStock == (i1 :> 3) @@ (i2 :> 1)
MCStockShort == i1 :> 3

\* The same with a custom item in the second sale.
MCTxOfFive == MCTxOf @@ (5 :> t2)
MCItemOfFive == MCItemOf @@ (5 :> None)
MCQtyOfFive == MCQtyOf @@ (5 :> 1)

\* One line each, the second sale's competing with the first's.
MCTxOfShort == (1 :> t1) @@ (2 :> t2)
MCItemOfShort == (1 :> i1) @@ (2 :> i1)
MCQtyOfShort == (1 :> 2) @@ (2 :> 1)

MCWalkIn == (t1 :> None) @@ (t2 :> None)

WorkerSymmetry == Permutations({w1, w2})

=============================================================================
