--------------------------- MODULE MCMobileSync ---------------------------
(* Small instances of MobileSync for TLC.                                  *)
EXTENDS MobileSync, TLC

CONSTANTS i1, i2, c1, c2, c3, s1, s2, s3, w1, w2

\* Two changes compete for one item; a batch of all three can deadlock with
\* another one.
MCEdit == (c1 :> [item |-> i1, kind |-> "add", qty |-> 1]) @@
          (c2 :> [item |-> i2, kind |-> "set", qty |-> 2]) @@
          (c3 :> [item |-> i1, kind |-> "subtract", qty |-> 3])

\* Stock for the first sale or the second, not for both; the third was not
\* paid.
MCLines == (s1 :> <<[item |-> i1, qty |-> 1], [item |-> i2, qty |-> 1]>>) @@
           (s2 :> <<[item |-> i1, qty |-> 2]>>) @@
           (s3 :> <<[item |-> i2, qty |-> 1]>>)

MCNoLines == [s \in {} |-> <<>>]

MCStock == (i1 :> 2) @@ (i2 :> 1)

WorkerSymmetry == Permutations({w1, w2})

=============================================================================
