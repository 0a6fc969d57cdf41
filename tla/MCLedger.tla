---------------------------- MODULE MCLedger ----------------------------
(* Two accounts, and entries that do and do not balance.                   *)
EXTENDS Ledger

CONSTANTS goods, capital

MCDrafts == {[a \in {goods, capital} |-> IF a = goods THEN d ELSE -1] : d \in {1, 2}}
=========================================================================
