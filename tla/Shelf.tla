------------------------------- MODULE Shelf -------------------------------
(***************************************************************************)
(* What a shop expects of uploading from its mobile devices, one step per  *)
(* batch: the batch happens as a whole, on the quantities as they are, and *)
(* no sale or stock change happens twice.                                  *)
(***************************************************************************)
EXTENDS Integers, Sequences, FiniteSetsExt

CONSTANTS
  Items,    \* JewelryItem rows
  Changes,  \* stock changes made on devices
  Sales,    \* sales made on devices
  Edit,     \* what each change does: its item, kind and quantity
  Lines,    \* what each sale sells: a sequence of items and quantities
  Underpaid \* sales that were not paid in full, which sell nothing

CONSTANT InitialStock

VARIABLES
  quantity, \* JewelryItem.quantity
  applied,  \* changes made to the stock
  uploaded  \* sales stored on the server

Edited(c, q) ==
  CASE Edit[c].kind = "set" -> Edit[c].qty
    [] Edit[c].kind = "add" -> q + Edit[c].qty
    [] Edit[c].kind = "subtract" -> IF Edit[c].qty < q THEN q - Edit[c].qty ELSE 0

LineNumbers(S) == UNION {{s} \X DOMAIN Lines[s] : s \in S}

UnitsSold(S, i) ==
  MapThenSumSet(LAMBDA n : Lines[n[1]][n[2]].qty,
                {n \in LineNumbers(S \ Underpaid) : Lines[n[1]][n[2]].item = i})

Init ==
  /\ quantity = InitialStock
  /\ applied = {}
  /\ uploaded = {}

\* A batch of changes touches each item once.
Adjust(C) ==
  /\ C \cap applied = {}
  /\ \A c, d \in C : Edit[c].item = Edit[d].item => c = d
  /\ quantity' = [i \in Items |->
       IF \E c \in C : Edit[c].item = i
       THEN Edited(CHOOSE c \in C : Edit[c].item = i, quantity[i])
       ELSE quantity[i]]
  /\ applied' = applied \cup C
  /\ UNCHANGED uploaded

Sell(S) ==
  /\ S \cap uploaded = {}
  /\ \A i \in Items : UnitsSold(S, i) <= quantity[i]
  /\ quantity' = [i \in Items |-> quantity[i] - UnitsSold(S, i)]
  /\ uploaded' = uploaded \cup S
  /\ UNCHANGED applied

\* Someone settles conflicts by taking over the quantities of changes.
Settle(C) ==
  /\ \A i \in Items :
       quantity'[i] \in {quantity[i]} \cup {Edit[c].qty : c \in {d \in C : Edit[d].item = i}}
  /\ DOMAIN quantity' = Items
  /\ UNCHANGED <<applied, uploaded>>

Next ==
  \/ \E C \in SUBSET Changes : Adjust(C) \/ Settle(C)
  \/ \E S \in SUBSET Sales : Sell(S)

Spec == Init /\ [][Next]_<<quantity, applied, uploaded>>
=============================================================================
