------------------------- MODULE POSCounter_proofs -------------------------
(***************************************************************************)
(* Proofs about POSCounter for any number of transactions, items, line     *)
(* items and workers: no racing payment invents a sale (NoPhantomSale),    *)
(* no line leaves the stock twice (UnitsTakenOnce), and nothing is         *)
(* completed without its invoice (CompletedIsBilled).  With one worker the *)
(* counter implements Till, and every billed sale is credited.             *)
(***************************************************************************)
EXTENDS POSCounter, Sums

(* Where each request stands: the transaction it is about, and which of    *)
(* its lines its inventory loop has handled.                               *)
PositionOf(w) ==
  /\ pc[w] # "idle" => tx[w] \in Transactions
  /\ pc[w] \notin {"read", "write", "credit", "tally", "save", "invoice"} =>
       took[w] = {}
  /\ pc[w] \notin {"insert", "read", "write"} => todo[w] = {}
  /\ \A l \in todo[w] \cup took[w] : TxOf[l] = tx[w]
  /\ todo[w] \cap took[w] = {}
  /\ pc[w] = "write" => \A l \in LineItems : NextLine(w, l) => ItemOf[l] \in Items
  /\ pc[w] = "credit" => CustomerOf[tx[w]] \in Customers

Position == \A w \in Workers : PositionOf(w)

(* Only finitely many lines are ever rung up.                              *)
FiniteAt(w) == IsFiniteSet(todo[w]) /\ IsFiniteSet(took[w])

Finite ==
  /\ IsFiniteSet(onSale) /\ IsFiniteSet(taken)
  /\ \A w \in Workers : FiniteAt(w)

(* NoPhantomSale, for what a block has stored or is about to store, too.   *)
CoveredBy(w) ==
  /\ \A i \in Items :
       i \in locked[w] => stored[w][i] + less[w][i] + sold[i] >= InitialStock[i]
  /\ pc[w] = "write" =>
       \A l \in LineItems : NextLine(w, l) =>
         seen[w] + less[w][ItemOf[l]] + sold[ItemOf[l]] >= InitialStock[ItemOf[l]]

Covered == NoPhantomSale /\ \A w \in Workers : CoveredBy(w)

(* UnitsTakenOnce, for what a block has subtracted, too; and lines that    *)
(* were taken have a billed transaction.                                   *)
CountedBy(w) == \A i \in Items : less[w][i] = Units(took[w], i)

TakenIsBilled == \A l \in taken : invoice[TxOf[l]] # Unbilled

Counted == UnitsTakenOnce /\ TakenIsBilled /\ \A w \in Workers : CountedBy(w)

(* The inductive invariant.                                                *)
CounterInv == TypeOK /\ Position /\ Finite /\ CompletedIsBilled /\ Covered /\ Counted
-----------------------------------------------------------------------------
(* The sorts of the constants.                                             *)
LEMMA ConstantTypes ==
  /\ LineItems \subseteq Nat /\ InitialLines \subseteq LineItems /\ IsFiniteSet(InitialLines)
  /\ TxOf \in [LineItems -> Transactions]
  /\ ItemOf \in [LineItems -> Items \cup {None}]
  /\ QtyOf \in [LineItems -> Nat \ {0}]
  /\ CustomerOf \in [Transactions -> Customers \cup {None}]
  /\ InitialStock \in [Items -> Nat]
  /\ None \notin Items /\ None \notin Customers /\ None \notin Transactions
  /\ \A S \in SUBSET LineItems : S # Unbilled
  /\ Items \cap Customers = {} /\ Items \cap Transactions = {}
  /\ Customers \cap Transactions = {}
BY CounterAssumptions

USE ConstantTypes

(* The units of a set of lines: of none, of one more, and of two sets.     *)
LEMMA UnitsSum ==
  ASSUME NEW S \in SUBSET LineItems, IsFiniteSet(S), NEW i \in Items
  PROVE  /\ Units({}, i) = 0
         /\ Units(S, i) \in Nat
         /\ \A l \in LineItems \ S :
              Units(S \cup {l}, i) = Units(S, i) + (IF ItemOf[l] = i THEN QtyOf[l] ELSE 0)
         /\ \A T \in SUBSET LineItems : IsFiniteSet(T) /\ S \cap T = {} =>
              Units(S \cup T, i) = Units(S, i) + Units(T, i)
<1> DEFINE Of(X) == {l \in X : ItemOf[l] = i}
<1>1. \A X : Units(X, i) = SumOver(QtyOf, Of(X))
  BY DEF Units, SumOver
<1>2. ASSUME NEW X \in SUBSET LineItems, IsFiniteSet(X)
      PROVE  IsFiniteSet(Of(X)) /\ (\A l \in Of(X) : QtyOf[l] \in Nat)
  BY <1>2, FS_Subset
<1>3. Units({}, i) = 0
  <2>1. Of({}) = {}
    OBVIOUS
  <2> HIDE DEF Of
  <2> QED BY <1>1, <2>1, SumEmpty
<1>4. Units(S, i) \in Nat
  <2>1. IsFiniteSet(Of(S)) /\ \A l \in Of(S) : QtyOf[l] \in Nat /\ QtyOf[l] \in Int
    BY <1>2
  <2> HIDE DEF Of
  <2> QED BY <1>1, <2>1, SumType
<1>5. ASSUME NEW l \in LineItems \ S
      PROVE  Units(S \cup {l}, i) = Units(S, i) + (IF ItemOf[l] = i THEN QtyOf[l] ELSE 0)
  <2>1. CASE ItemOf[l] = i
    <3>1. Of(S \cup {l}) = Of(S) \cup {l} /\ l \notin Of(S)
      BY <2>1
    <3>2. \A x \in Of(S) \cup {l} : QtyOf[x] \in Int
      BY <1>2
    <3>3. QtyOf[l] \in Nat
      OBVIOUS
    <3>4. SumOver(QtyOf, Of(S) \cup {l}) = QtyOf[l] + SumOver(QtyOf, Of(S))
      <4> HIDE DEF Of
      <4> QED BY <1>2, <3>1, <3>2, SumAdd
    <3> QED BY <1>1, <1>4, <2>1, <3>1, <3>3, <3>4
  <2>2. CASE ItemOf[l] # i
    <3>1. Of(S \cup {l}) = Of(S)
      BY <2>2
    <3>2. Units(S \cup {l}, i) = Units(S, i)
      <4> HIDE DEF Of
      <4> QED BY <1>1, <3>1
    <3> QED BY <1>4, <2>2, <3>2
  <2> QED BY <2>1, <2>2
<1>6. ASSUME NEW T \in SUBSET LineItems, IsFiniteSet(T), S \cap T = {}
      PROVE  Units(S \cup T, i) = Units(S, i) + Units(T, i)
  <2>1. Of(S \cup T) = Of(S) \cup Of(T) /\ Of(S) \cap Of(T) = {}
    BY <1>6
  <2>4. \A x \in Of(S) \cup Of(T) : QtyOf[x] \in Int
    BY <1>6
  <2>2. IsFiniteSet(Of(S)) /\ IsFiniteSet(Of(T))
    BY <1>2, <1>6
  <2>3. SumOver(QtyOf, Of(S) \cup Of(T)) = SumOver(QtyOf, Of(S)) + SumOver(QtyOf, Of(T))
    <3> HIDE DEF Of
    <3> QED BY <2>1, <2>2, <2>4, SumUnion
  <2> QED BY <1>1, <2>1, <2>3
<1> QED BY <1>3, <1>4, <1>5, <1>6

(* One line more adds its units to those of its item.                      *)
LEMMA UnitsOfOneMore ==
  ASSUME NEW S \in SUBSET LineItems, IsFiniteSet(S), NEW i \in Items,
         NEW l \in LineItems, l \notin S
  PROVE  Units(S \cup {l}, i) = Units(S, i) + (IF ItemOf[l] = i THEN QtyOf[l] ELSE 0)
BY UnitsSum

(* The units of two sets of lines.                                         *)
LEMMA UnitsOfBoth ==
  ASSUME NEW S \in SUBSET LineItems, IsFiniteSet(S), NEW i \in Items,
         NEW T \in SUBSET LineItems, IsFiniteSet(T), S \cap T = {}
  PROVE  Units(S \cup T, i) = Units(S, i) + Units(T, i)
BY UnitsSum

(* The inventory loop handles one line at a time.                          *)
LEMMA NextLineUnique ==
  ASSUME NEW w \in Workers, NEW l \in LineItems, NEW m \in LineItems,
         NextLine(w, l), NextLine(w, m)
  PROVE  l = m
<1>1. l \in Nat /\ m \in Nat /\ l <= m /\ m <= l
  BY DEF NextLine
<1> QED BY <1>1

(* The invariant holds when the model starts.                              *)
LEMMA CounterInit == Init => CounterInv
<1> SUFFICES ASSUME Init PROVE CounterInv
  OBVIOUS
<1>1. TypeOK
  BY DEF Init, TypeOK, NothingStored, NoAmounts, Steps, Rows
<1>2. Position
  BY DEF Init, Position, PositionOf
<1>3. Finite
  BY FS_EmptySet DEF Init, Finite, FiniteAt
<1>4. CompletedIsBilled
  BY DEF Init, CompletedIsBilled
<1>5. Covered
  BY DEF Init, Covered, CoveredBy, NoPhantomSale
<1>6. Counted
  <2>1. \A i \in Items : Units({}, i) = 0
    BY UnitsSum, FS_EmptySet
  <2> QED BY <2>1 DEF Init, Counted, CountedBy, TakenIsBilled, UnitsTakenOnce, NothingStored
<1> QED BY <1>1, <1>2, <1>3, <1>4, <1>5, <1>6 DEF CounterInv

(* A request that ends gives back what it had in hand.                     *)
LEMMA EndTypes ==
  ASSUME TypeOK, NEW w \in Workers, End(w)
  PROVE  /\ pc' \in [Workers -> Steps]
         /\ tx' \in [Workers -> Transactions \cup {None}]
         /\ inst' \in [Workers -> [total : SUBSET LineItems, paid : SUBSET LineItems]]
         /\ todo' \in [Workers -> SUBSET LineItems]
         /\ seen' \in [Workers -> Nat]
         /\ known' \in [Workers -> SUBSET Transactions]
         /\ stored' \in [Workers -> [Items -> Nat]]
         /\ locked' \in [Workers -> SUBSET Rows]
         /\ took' \in [Workers -> SUBSET LineItems]
         /\ less' \in [Workers -> [Items -> Nat]]
<1>1. NothingStored \in [Items -> Nat]
  BY DEF NothingStored
<1>2. NoAmounts \in [total : SUBSET LineItems, paid : SUBSET LineItems]
  BY DEF NoAmounts
<1> QED BY <1>1, <1>2 DEF TypeOK, End, EndBlock, GoTo, Steps

(* An instance with new totals, and a table with one new entry.            *)
LEMMA TotalTypes ==
  ASSUME TypeOK, NEW w \in Workers, NEW t
  PROVE  [inst EXCEPT ![w].total = LinesOf(t)]
           \in [Workers -> [total : SUBSET LineItems, paid : SUBSET LineItems]]
<1>1. LinesOf(t) \in SUBSET LineItems
  BY DEF LinesOf, TypeOK
<1>2. inst[w] \in [total : SUBSET LineItems, paid : SUBSET LineItems]
  BY DEF TypeOK
<1>3. [inst[w] EXCEPT !.total = LinesOf(t)] \in [total : SUBSET LineItems, paid : SUBSET LineItems]
  BY <1>1, <1>2
<1> QED BY <1>3 DEF TypeOK

(* Storing a quantity keeps the type of a table.                           *)
LEMMA TableTypes ==
  ASSUME NEW f \in [Workers -> [Items -> Nat]], NEW w \in Workers, NEW i \in Items, NEW n \in Nat
  PROVE  [f EXCEPT ![w][i] = n] \in [Workers -> [Items -> Nat]]
OBVIOUS
(* Every action keeps the types.                                           *)
LEMMA TypeStep ==
  ASSUME CounterInv, [Next]_vars
  PROVE  TypeOK'
<1> USE DEF CounterInv, TypeOK, Position, PositionOf, Steps
<1>1. ASSUME NEW w \in Workers, NEW l \in LineItems, BeginAdd(w, l)
      PROVE  TypeOK'
  BY <1>1 DEF BeginAdd, Start, tables, history, GoTo
<1>2. ASSUME NEW w \in Workers, NEW l \in LineItems, RemoveLine(w, l)
      PROVE  TypeOK'
  BY <1>2 DEF RemoveLine, Start, block, history, GoTo
<1>3. ASSUME NEW w \in Workers, NEW t \in Transactions, BeginCancel(w, t)
      PROVE  TypeOK'
  BY <1>3 DEF BeginCancel, Start, tables, block, history, GoTo
<1>4. ASSUME NEW w \in Workers, NEW t \in Transactions, BeginPay(w, t)
      PROVE  TypeOK'
  BY <1>4 DEF BeginPay, Start, tables, block, history, GoTo
<1>5. ASSUME NEW w \in Workers, InsertLine(w)
      PROVE  TypeOK'
  <2>0. onSale' = onSale \cup todo[w] /\ todo[w] \in SUBSET LineItems
    BY <1>5 DEF InsertLine
  <2>1. onSale' \in SUBSET LineItems
    BY <2>0
  <2> QED BY <1>5, <2>1 DEF InsertLine, GoTo, history
<1>6. ASSUME NEW w \in Workers, Recount(w)
      PROVE  TypeOK'
  BY <1>6, TotalTypes DEF Recount, GoTo, tables, block, history
<1>7. ASSUME NEW w \in Workers, SaveTotal(w)
      PROVE  TypeOK'
  BY <1>7, EndTypes DEF SaveTotal, tables, history
<1>8. ASSUME NEW w \in Workers, Cancel(w)
      PROVE  TypeOK'
  BY <1>8, EndTypes DEF Cancel, tables, history
<1>9. ASSUME NEW w \in Workers, AcceptPayment(w)
      PROVE  TypeOK'
  BY <1>9, TotalTypes DEF AcceptPayment, GoTo, tables, block, history
<1>10. ASSUME NEW w \in Workers, RefusePayment(w)
      PROVE  TypeOK'
  BY <1>10, EndTypes DEF RefusePayment, tables, history
<1>11. ASSUME NEW w \in Workers, ReadLines(w)
      PROVE  TypeOK'
  BY <1>11 DEF ReadLines, GoTo, tables, history, LinesOf
<1>12. ASSUME NEW w \in Workers, NEW l \in LineItems, SkipCustomItem(w, l)
      PROVE  TypeOK'
  BY <1>12 DEF SkipCustomItem, tables, history
<1>13. ASSUME NEW w \in Workers, NEW l \in LineItems, ReadItem(w, l)
      PROVE  TypeOK'
  <2>1. ItemOf[l] \in Items
    BY <1>13 DEF ReadItem
  <2>2. Visible(w, ItemOf[l]) \in Nat
    BY <2>1 DEF Visible
  <2> QED BY <1>13, <2>2 DEF ReadItem, GoTo, tables, history
<1>14. ASSUME NEW w \in Workers, NEW l \in LineItems, WriteItem(w, l)
      PROVE  TypeOK'
  <2> DEFINE i == ItemOf[l]
  <2>1. i \in Items /\ QtyOf[l] \in Nat /\ seen[w] \in Nat /\ less[w][i] \in Nat
    BY <1>14 DEF WriteItem
  <2>2. seen[w] - QtyOf[l] \in Nat /\ less[w][i] + QtyOf[l] \in Nat
    BY <1>14, <2>1 DEF WriteItem
  <2>3. stored' \in [Workers -> [Items -> Nat]] /\ less' \in [Workers -> [Items -> Nat]]
    BY <1>14, <2>1, <2>2, TableTypes DEF WriteItem
  <2>4. locked' \in [Workers -> SUBSET Rows]
    BY <1>14, <2>1 DEF WriteItem, Rows
  <2> QED BY <1>14, <2>3, <2>4 DEF WriteItem, GoTo, tables, history
<1>15. ASSUME NEW w \in Workers, ReadCustomer(w)
      PROVE  TypeOK'
  BY <1>15 DEF ReadCustomer, GoTo, tables, history
<1>16. ASSUME NEW w \in Workers, CreditCustomer(w)
      PROVE  TypeOK'
  BY <1>16 DEF CreditCustomer, GoTo, tables, history, Rows
<1>17. ASSUME NEW w \in Workers, Tally(w)
      PROVE  TypeOK'
  BY <1>17, TotalTypes DEF Tally, GoTo, tables, block, history
<1>18. ASSUME NEW w \in Workers, SaveCompleted(w)
      PROVE  TypeOK'
  BY <1>18 DEF SaveCompleted, GoTo, tables, history, Rows
<1>19. ASSUME NEW w \in Workers, Commit(w)
      PROVE  TypeOK'
  <2>1. qty' \in [Items -> Nat] /\ sold' \in [Items -> Nat]
    BY <1>19 DEF Commit, Visible
  <2>2. /\ inst[w].total \in SUBSET LineItems /\ inst[w].paid \in SUBSET LineItems
        /\ tx[w] \in Transactions
    BY <1>19 DEF Commit
  <2>3. /\ status' \in [Transactions -> {"pending", "completed", "cancelled"}]
        /\ invoice' \in [Transactions -> {Unbilled} \cup SUBSET LineItems]
    BY <1>19, <2>2 DEF Commit
  <2>4. /\ total' \in [Transactions -> SUBSET LineItems]
        /\ paid' \in [Transactions -> SUBSET LineItems]
    BY <1>19, <2>2 DEF Commit
  <2>5. credited' \in [Customers -> SUBSET Transactions]
    BY <1>19 DEF Commit
  <2>6. taken' = taken \cup took[w] /\ took[w] \in SUBSET LineItems
    BY <1>19 DEF Commit
  <2>7. taken' \in SUBSET LineItems
    BY <2>6
  <2> QED BY <1>19, <2>1, <2>3, <2>4, <2>5, <2>7, EndTypes DEF Commit
<1>20. ASSUME NEW w \in Workers, Rollback(w)
      PROVE  TypeOK'
  BY <1>20, EndTypes DEF Rollback, tables, history
<1>21. ASSUME NEW w \in Workers, Fail(w)
      PROVE  TypeOK'
  BY <1>21, EndTypes DEF Fail, tables, history
<1>22. CASE UNCHANGED vars
  BY <1>22 DEF vars, tables, block, history
<1> QED BY <1>1, <1>2, <1>3, <1>4, <1>5, <1>6, <1>7, <1>8, <1>9, <1>10, <1>11, <1>12,
           <1>13, <1>14, <1>15, <1>16, <1>17, <1>18, <1>19, <1>20, <1>21, <1>22
       DEF Next, Step

(* Every action keeps the position of its own request and of any other.    *)
LEMMA PositionStep ==
  ASSUME CounterInv, [Next]_vars, NEW v \in Workers
  PROVE  PositionOf(v)'
<1> USE DEF CounterInv, TypeOK, Position, PositionOf, NextLine
<1>1. ASSUME NEW w \in Workers, NEW l \in LineItems, BeginAdd(w, l)
      PROVE  PositionOf(v)'
  BY <1>1 DEF BeginAdd, Start, tables, history, GoTo
<1>2. ASSUME NEW w \in Workers, NEW l \in LineItems, RemoveLine(w, l)
      PROVE  PositionOf(v)'
  BY <1>2 DEF RemoveLine, Start, block, history, GoTo
<1>3. ASSUME NEW w \in Workers, NEW t \in Transactions, BeginCancel(w, t)
      PROVE  PositionOf(v)'
  BY <1>3 DEF BeginCancel, Start, tables, block, history, GoTo
<1>4. ASSUME NEW w \in Workers, NEW t \in Transactions, BeginPay(w, t)
      PROVE  PositionOf(v)'
  BY <1>4 DEF BeginPay, Start, tables, block, history, GoTo
<1>5. ASSUME NEW w \in Workers, InsertLine(w)
      PROVE  PositionOf(v)'
  BY <1>5 DEF InsertLine, GoTo, history
<1>6. ASSUME NEW w \in Workers, Recount(w)
      PROVE  PositionOf(v)'
  BY <1>6 DEF Recount, GoTo, tables, block, history, LinesOf
<1>7. ASSUME NEW w \in Workers, SaveTotal(w)
      PROVE  PositionOf(v)'
  BY <1>7 DEF SaveTotal, End, history, GoTo, EndBlock
<1>8. ASSUME NEW w \in Workers, Cancel(w)
      PROVE  PositionOf(v)'
  BY <1>8 DEF Cancel, End, history, GoTo, EndBlock
<1>9. ASSUME NEW w \in Workers, AcceptPayment(w)
      PROVE  PositionOf(v)'
  BY <1>9 DEF AcceptPayment, GoTo, tables, block, history, LinesOf
<1>10. ASSUME NEW w \in Workers, RefusePayment(w)
      PROVE  PositionOf(v)'
  BY <1>10 DEF RefusePayment, End, tables, history, LinesOf, GoTo, EndBlock
<1>11. ASSUME NEW w \in Workers, ReadLines(w)
      PROVE  PositionOf(v)'
  BY <1>11 DEF ReadLines, GoTo, tables, history, LinesOf
<1>12. ASSUME NEW w \in Workers, NEW l \in LineItems, SkipCustomItem(w, l)
      PROVE  PositionOf(v)'
  BY <1>12 DEF SkipCustomItem, tables, history
<1>13. ASSUME NEW w \in Workers, NEW l \in LineItems, ReadItem(w, l)
      PROVE  PositionOf(v)'
  <2>1. \A m \in LineItems : NextLine(w, m) => m = l
    BY <1>13, NextLineUnique DEF ReadItem
  <2>2. ItemOf[l] \in Items
    BY <1>13 DEF ReadItem
  <2>3. CASE v = w
    BY <1>13, <2>1, <2>2, <2>3 DEF ReadItem, GoTo, tables, history
  <2>4. CASE v # w
    BY <1>13, <2>4 DEF ReadItem, GoTo, tables, history
  <2> QED BY <2>3, <2>4
<1>14. ASSUME NEW w \in Workers, NEW l \in LineItems, WriteItem(w, l)
      PROVE  PositionOf(v)'
  BY <1>14 DEF WriteItem, GoTo, tables, history
<1>15. ASSUME NEW w \in Workers, ReadCustomer(w)
      PROVE  PositionOf(v)'
  BY <1>15 DEF ReadCustomer, GoTo, tables, history
<1>16. ASSUME NEW w \in Workers, CreditCustomer(w)
      PROVE  PositionOf(v)'
  BY <1>16 DEF CreditCustomer, GoTo, tables, history
<1>17. ASSUME NEW w \in Workers, Tally(w)
      PROVE  PositionOf(v)'
  BY <1>17 DEF Tally, GoTo, tables, block, history, LinesOf
<1>18. ASSUME NEW w \in Workers, SaveCompleted(w)
      PROVE  PositionOf(v)'
  BY <1>18 DEF SaveCompleted, GoTo, tables, history
<1>19. ASSUME NEW w \in Workers, Commit(w)
      PROVE  PositionOf(v)'
  BY <1>19 DEF Commit, End, GoTo, EndBlock
<1>20. ASSUME NEW w \in Workers, Rollback(w)
      PROVE  PositionOf(v)'
  BY <1>20 DEF Rollback, End, tables, history, GoTo, EndBlock
<1>21. ASSUME NEW w \in Workers, Fail(w)
      PROVE  PositionOf(v)'
  BY <1>21 DEF Fail, End, tables, history, GoTo, EndBlock
<1>22. CASE UNCHANGED vars
  BY <1>22 DEF vars, tables, block, history
<1> QED BY <1>1, <1>2, <1>3, <1>4, <1>5, <1>6, <1>7, <1>8, <1>9, <1>10, <1>11, <1>12,
           <1>13, <1>14, <1>15, <1>16, <1>17, <1>18, <1>19, <1>20, <1>21, <1>22
       DEF Next, Step

(* Every action handles finitely many lines.                               *)
LEMMA FiniteStep ==
  ASSUME CounterInv, [Next]_vars, NEW v \in Workers
  PROVE  IsFiniteSet(onSale') /\ IsFiniteSet(taken') /\ FiniteAt(v)'
<1> USE DEF CounterInv, Finite, FiniteAt, TypeOK
<1>1. ASSUME NEW w \in Workers, NEW l \in LineItems, BeginAdd(w, l)
      PROVE  IsFiniteSet(onSale') /\ IsFiniteSet(taken') /\ FiniteAt(v)'
  BY <1>1, FS_Singleton DEF BeginAdd, Start, tables, history, GoTo
<1>2. ASSUME NEW w \in Workers, NEW l \in LineItems, RemoveLine(w, l)
      PROVE  IsFiniteSet(onSale') /\ IsFiniteSet(taken') /\ FiniteAt(v)'
  <2>1. IsFiniteSet(onSale \ {l})
    BY FS_Subset, onSale \ {l} \subseteq onSale
  <2> QED BY <1>2, <2>1 DEF RemoveLine, Start, block, history, GoTo
<1>3. ASSUME NEW w \in Workers, NEW t \in Transactions, BeginCancel(w, t)
      PROVE  IsFiniteSet(onSale') /\ IsFiniteSet(taken') /\ FiniteAt(v)'
  BY <1>3 DEF BeginCancel, Start, tables, block, history, GoTo
<1>4. ASSUME NEW w \in Workers, NEW t \in Transactions, BeginPay(w, t)
      PROVE  IsFiniteSet(onSale') /\ IsFiniteSet(taken') /\ FiniteAt(v)'
  BY <1>4 DEF BeginPay, Start, tables, block, history, GoTo
<1>5. ASSUME NEW w \in Workers, InsertLine(w)
      PROVE  IsFiniteSet(onSale') /\ IsFiniteSet(taken') /\ FiniteAt(v)'
  <2>1. IsFiniteSet(onSale \cup todo[w])
    BY FS_Union
  <2> QED BY <1>5, <2>1, FS_EmptySet DEF InsertLine, GoTo, history
<1>6. ASSUME NEW w \in Workers, Recount(w)
      PROVE  IsFiniteSet(onSale') /\ IsFiniteSet(taken') /\ FiniteAt(v)'
  BY <1>6 DEF Recount, GoTo, tables, block, history, LinesOf
<1>7. ASSUME NEW w \in Workers, SaveTotal(w)
      PROVE  IsFiniteSet(onSale') /\ IsFiniteSet(taken') /\ FiniteAt(v)'
  BY <1>7, FS_EmptySet DEF SaveTotal, End, GoTo, EndBlock, tables, history
<1>8. ASSUME NEW w \in Workers, Cancel(w)
      PROVE  IsFiniteSet(onSale') /\ IsFiniteSet(taken') /\ FiniteAt(v)'
  BY <1>8, FS_EmptySet DEF Cancel, End, GoTo, EndBlock, tables, history
<1>9. ASSUME NEW w \in Workers, AcceptPayment(w)
      PROVE  IsFiniteSet(onSale') /\ IsFiniteSet(taken') /\ FiniteAt(v)'
  BY <1>9 DEF AcceptPayment, GoTo, tables, block, history, LinesOf
<1>10. ASSUME NEW w \in Workers, RefusePayment(w)
      PROVE  IsFiniteSet(onSale') /\ IsFiniteSet(taken') /\ FiniteAt(v)'
  BY <1>10, FS_EmptySet DEF RefusePayment, End, GoTo, EndBlock, tables, history
<1>11. ASSUME NEW w \in Workers, ReadLines(w)
      PROVE  IsFiniteSet(onSale') /\ IsFiniteSet(taken') /\ FiniteAt(v)'
  <2>1. IsFiniteSet(LinesOf(tx[w]))
    <3>1. LinesOf(tx[w]) \subseteq onSale
      BY DEF LinesOf
    <3> QED BY <3>1, FS_Subset
  <2>2. /\ onSale' = onSale /\ taken' = taken /\ took' = took
        /\ todo' = [todo EXCEPT ![w] = LinesOf(tx[w])]
    BY <1>11 DEF ReadLines, tables, history
  <2> QED BY <2>1, <2>2
<1>12. ASSUME NEW w \in Workers, NEW l \in LineItems, SkipCustomItem(w, l)
      PROVE  IsFiniteSet(onSale') /\ IsFiniteSet(taken') /\ FiniteAt(v)'
  <2>1. IsFiniteSet(todo[w] \ {l}) /\ IsFiniteSet(took[w] \cup {l})
    BY FS_AddElement, FS_RemoveElement
  <2> QED BY <1>12, <2>1 DEF SkipCustomItem, tables, history
<1>13. ASSUME NEW w \in Workers, NEW l \in LineItems, ReadItem(w, l)
      PROVE  IsFiniteSet(onSale') /\ IsFiniteSet(taken') /\ FiniteAt(v)'
  BY <1>13 DEF ReadItem, GoTo, tables, history
<1>14. ASSUME NEW w \in Workers, NEW l \in LineItems, WriteItem(w, l)
      PROVE  IsFiniteSet(onSale') /\ IsFiniteSet(taken') /\ FiniteAt(v)'
  <2>1. IsFiniteSet(todo[w] \ {l}) /\ IsFiniteSet(took[w] \cup {l})
    BY FS_AddElement, FS_RemoveElement
  <2> QED BY <1>14, <2>1 DEF WriteItem, GoTo, tables, history
<1>15. ASSUME NEW w \in Workers, ReadCustomer(w)
      PROVE  IsFiniteSet(onSale') /\ IsFiniteSet(taken') /\ FiniteAt(v)'
  BY <1>15 DEF ReadCustomer, GoTo, tables, history
<1>16. ASSUME NEW w \in Workers, CreditCustomer(w)
      PROVE  IsFiniteSet(onSale') /\ IsFiniteSet(taken') /\ FiniteAt(v)'
  BY <1>16 DEF CreditCustomer, GoTo, tables, history
<1>17. ASSUME NEW w \in Workers, Tally(w)
      PROVE  IsFiniteSet(onSale') /\ IsFiniteSet(taken') /\ FiniteAt(v)'
  BY <1>17 DEF Tally, GoTo, tables, block, history, LinesOf
<1>18. ASSUME NEW w \in Workers, SaveCompleted(w)
      PROVE  IsFiniteSet(onSale') /\ IsFiniteSet(taken') /\ FiniteAt(v)'
  BY <1>18 DEF SaveCompleted, GoTo, tables, history
<1>19. ASSUME NEW w \in Workers, Commit(w)
      PROVE  IsFiniteSet(onSale') /\ IsFiniteSet(taken') /\ FiniteAt(v)'
  BY <1>19, FS_Union, FS_EmptySet DEF Commit, End, GoTo, EndBlock
<1>20. ASSUME NEW w \in Workers, Rollback(w)
      PROVE  IsFiniteSet(onSale') /\ IsFiniteSet(taken') /\ FiniteAt(v)'
  BY <1>20, FS_EmptySet DEF Rollback, End, GoTo, EndBlock, tables, history
<1>21. ASSUME NEW w \in Workers, Fail(w)
      PROVE  IsFiniteSet(onSale') /\ IsFiniteSet(taken') /\ FiniteAt(v)'
  BY <1>21, FS_EmptySet DEF Fail, End, GoTo, EndBlock, tables, history
<1>22. CASE UNCHANGED vars
  BY <1>22 DEF vars, tables, block, history
<1> QED BY <1>1, <1>2, <1>3, <1>4, <1>5, <1>6, <1>7, <1>8, <1>9, <1>10, <1>11, <1>12,
           <1>13, <1>14, <1>15, <1>16, <1>17, <1>18, <1>19, <1>20, <1>21, <1>22
       DEF Next, Step

(* A status completed comes with an invoice.                               *)
LEMMA CompletedIsBilledStep ==
  ASSUME CounterInv, [Next]_vars
  PROVE  CompletedIsBilled'
<1> USE DEF CounterInv, CompletedIsBilled, TypeOK, Position, PositionOf
<1>1. ASSUME NEW w \in Workers, NEW l \in LineItems, BeginAdd(w, l)
      PROVE  CompletedIsBilled'
  BY <1>1 DEF BeginAdd, Start, tables, history, GoTo
<1>2. ASSUME NEW w \in Workers, NEW l \in LineItems, RemoveLine(w, l)
      PROVE  CompletedIsBilled'
  BY <1>2 DEF RemoveLine, Start, block, history, GoTo
<1>3. ASSUME NEW w \in Workers, NEW t \in Transactions, BeginCancel(w, t)
      PROVE  CompletedIsBilled'
  BY <1>3 DEF BeginCancel, Start, tables, block, history, GoTo
<1>4. ASSUME NEW w \in Workers, NEW t \in Transactions, BeginPay(w, t)
      PROVE  CompletedIsBilled'
  BY <1>4 DEF BeginPay, Start, tables, block, history, GoTo
<1>5. ASSUME NEW w \in Workers, InsertLine(w)
      PROVE  CompletedIsBilled'
  BY <1>5 DEF InsertLine, GoTo, history
<1>6. ASSUME NEW w \in Workers, Recount(w)
      PROVE  CompletedIsBilled'
  BY <1>6 DEF Recount, GoTo, tables, block, history, LinesOf
<1>7. ASSUME NEW w \in Workers, SaveTotal(w)
      PROVE  CompletedIsBilled'
  BY <1>7 DEF SaveTotal, End, history, GoTo, EndBlock
<1>8. ASSUME NEW w \in Workers, Cancel(w)
      PROVE  CompletedIsBilled'
  BY <1>8 DEF Cancel, End, history, GoTo, EndBlock
<1>9. ASSUME NEW w \in Workers, AcceptPayment(w)
      PROVE  CompletedIsBilled'
  BY <1>9 DEF AcceptPayment, GoTo, tables, block, history, LinesOf
<1>10. ASSUME NEW w \in Workers, RefusePayment(w)
      PROVE  CompletedIsBilled'
  BY <1>10 DEF RefusePayment, End, tables, history, LinesOf, GoTo, EndBlock
<1>11. ASSUME NEW w \in Workers, ReadLines(w)
      PROVE  CompletedIsBilled'
  BY <1>11 DEF ReadLines, GoTo, tables, history, LinesOf
<1>12. ASSUME NEW w \in Workers, NEW l \in LineItems, SkipCustomItem(w, l)
      PROVE  CompletedIsBilled'
  BY <1>12 DEF SkipCustomItem, tables, history
<1>13. ASSUME NEW w \in Workers, NEW l \in LineItems, ReadItem(w, l)
      PROVE  CompletedIsBilled'
  BY <1>13 DEF ReadItem, GoTo, tables, history
<1>14. ASSUME NEW w \in Workers, NEW l \in LineItems, WriteItem(w, l)
      PROVE  CompletedIsBilled'
  BY <1>14 DEF WriteItem, GoTo, tables, history
<1>15. ASSUME NEW w \in Workers, ReadCustomer(w)
      PROVE  CompletedIsBilled'
  BY <1>15 DEF ReadCustomer, GoTo, tables, history
<1>16. ASSUME NEW w \in Workers, CreditCustomer(w)
      PROVE  CompletedIsBilled'
  BY <1>16 DEF CreditCustomer, GoTo, tables, history
<1>17. ASSUME NEW w \in Workers, Tally(w)
      PROVE  CompletedIsBilled'
  BY <1>17 DEF Tally, GoTo, tables, block, history, LinesOf
<1>18. ASSUME NEW w \in Workers, SaveCompleted(w)
      PROVE  CompletedIsBilled'
  BY <1>18 DEF SaveCompleted, GoTo, tables, history
<1>19. ASSUME NEW w \in Workers, Commit(w)
      PROVE  CompletedIsBilled'
  <2>1. inst[w].total \in SUBSET LineItems /\ tx[w] \in Transactions
    BY <1>19 DEF Commit
  <2>2. inst[w].total # Unbilled
    BY <2>1
  <2> QED BY <1>19, <2>1, <2>2 DEF Commit
<1>20. ASSUME NEW w \in Workers, Rollback(w)
      PROVE  CompletedIsBilled'
  BY <1>20 DEF Rollback, End, tables, history, GoTo, EndBlock
<1>21. ASSUME NEW w \in Workers, Fail(w)
      PROVE  CompletedIsBilled'
  BY <1>21 DEF Fail, End, tables, history, GoTo, EndBlock
<1>22. CASE UNCHANGED vars
  BY <1>22 DEF vars, tables, block, history
<1> QED BY <1>1, <1>2, <1>3, <1>4, <1>5, <1>6, <1>7, <1>8, <1>9, <1>10, <1>11, <1>12,
           <1>13, <1>14, <1>15, <1>16, <1>17, <1>18, <1>19, <1>20, <1>21, <1>22
       DEF Next, Step

(* No action invents a sale.                                               *)
LEMMA CoveredStep ==
  ASSUME CounterInv, [Next]_vars, NEW v \in Workers
  PROVE  NoPhantomSale' /\ CoveredBy(v)'
<1> USE DEF CounterInv, TypeOK, Covered, CoveredBy, NoPhantomSale, NextLine
<1>1. ASSUME NEW w \in Workers, NEW l \in LineItems, BeginAdd(w, l)
      PROVE  NoPhantomSale' /\ CoveredBy(v)'
  BY <1>1 DEF BeginAdd, Start, tables, history, GoTo
<1>2. ASSUME NEW w \in Workers, NEW l \in LineItems, RemoveLine(w, l)
      PROVE  NoPhantomSale' /\ CoveredBy(v)'
  BY <1>2 DEF RemoveLine, Start, block, history, GoTo
<1>3. ASSUME NEW w \in Workers, NEW t \in Transactions, BeginCancel(w, t)
      PROVE  NoPhantomSale' /\ CoveredBy(v)'
  BY <1>3 DEF BeginCancel, Start, tables, block, history, GoTo
<1>4. ASSUME NEW w \in Workers, NEW t \in Transactions, BeginPay(w, t)
      PROVE  NoPhantomSale' /\ CoveredBy(v)'
  BY <1>4 DEF BeginPay, Start, tables, block, history, GoTo
<1>5. ASSUME NEW w \in Workers, InsertLine(w)
      PROVE  NoPhantomSale' /\ CoveredBy(v)'
  BY <1>5 DEF InsertLine, GoTo, history
<1>6. ASSUME NEW w \in Workers, Recount(w)
      PROVE  NoPhantomSale' /\ CoveredBy(v)'
  BY <1>6 DEF Recount, GoTo, tables, block, history, LinesOf
<1>7. ASSUME NEW w \in Workers, SaveTotal(w)
      PROVE  NoPhantomSale' /\ CoveredBy(v)'
  BY <1>7 DEF SaveTotal, End, history, GoTo, EndBlock
<1>8. ASSUME NEW w \in Workers, Cancel(w)
      PROVE  NoPhantomSale' /\ CoveredBy(v)'
  BY <1>8 DEF Cancel, End, history, GoTo, EndBlock
<1>9. ASSUME NEW w \in Workers, AcceptPayment(w)
      PROVE  NoPhantomSale' /\ CoveredBy(v)'
  BY <1>9 DEF AcceptPayment, GoTo, tables, block, history, LinesOf
<1>10. ASSUME NEW w \in Workers, RefusePayment(w)
      PROVE  NoPhantomSale' /\ CoveredBy(v)'
  BY <1>10 DEF RefusePayment, End, tables, history, LinesOf, GoTo, EndBlock
<1>11. ASSUME NEW w \in Workers, ReadLines(w)
      PROVE  NoPhantomSale' /\ CoveredBy(v)'
  BY <1>11 DEF ReadLines, GoTo, tables, history, LinesOf
<1>12. ASSUME NEW w \in Workers, NEW l \in LineItems, SkipCustomItem(w, l)
      PROVE  NoPhantomSale' /\ CoveredBy(v)'
  BY <1>12 DEF SkipCustomItem, tables, history
<1>13. ASSUME NEW w \in Workers, NEW l \in LineItems, ReadItem(w, l)
      PROVE  NoPhantomSale' /\ CoveredBy(v)'
  <2>1. \A m \in LineItems : NextLine(w, m) => m = l
    BY <1>13, NextLineUnique DEF ReadItem
  <2>2. ItemOf[l] \in Items
    BY <1>13 DEF ReadItem
  <2>3. Visible(w, ItemOf[l]) + less[w][ItemOf[l]] + sold[ItemOf[l]] >= InitialStock[ItemOf[l]]
    BY <2>2 DEF Visible
  <2>4. CASE v = w
    BY <1>13, <2>1, <2>2, <2>3, <2>4 DEF ReadItem, GoTo, tables, history
  <2>5. CASE v # w
    BY <1>13, <2>5 DEF ReadItem, GoTo, tables, history
  <2> QED BY <2>4, <2>5
<1>14. ASSUME NEW w \in Workers, NEW l \in LineItems, WriteItem(w, l)
      PROVE  NoPhantomSale' /\ CoveredBy(v)'
  <2> DEFINE i == ItemOf[l]
  <2>1. i \in Items /\ QtyOf[l] \in Nat /\ seen[w] \in Nat /\ less[w][i] \in Nat
    BY <1>14 DEF WriteItem, Position, PositionOf
  <2>2. seen[w] + less[w][i] + sold[i] >= InitialStock[i]
    BY <1>14 DEF WriteItem
  <2>3. NoPhantomSale'
    BY <1>14 DEF WriteItem, tables, history
  <2>4. CASE v = w
    <3>1. pc'[w] = "read" /\ sold' = sold
      BY <1>14 DEF WriteItem, GoTo, history
    <3>2. /\ stored'[w][i] = seen[w] - QtyOf[l] /\ less'[w][i] = less[w][i] + QtyOf[l]
          /\ \A j \in Items \ {i} : stored'[w][j] = stored[w][j] /\ less'[w][j] = less[w][j]
          /\ locked'[w] = locked[w] \cup {i}
      BY <1>14, <2>1 DEF WriteItem
    <3> QED BY <2>1, <2>2, <2>3, <2>4, <3>1, <3>2
  <2>5. CASE v # w
    BY <1>14, <2>3, <2>5 DEF WriteItem, GoTo, history
  <2> QED BY <2>4, <2>5
<1>15. ASSUME NEW w \in Workers, ReadCustomer(w)
      PROVE  NoPhantomSale' /\ CoveredBy(v)'
  BY <1>15 DEF ReadCustomer, GoTo, tables, history
<1>16. ASSUME NEW w \in Workers, CreditCustomer(w)
      PROVE  NoPhantomSale' /\ CoveredBy(v)'
  <2>1. CustomerOf[tx[w]] \in Customers
    BY <1>16 DEF CreditCustomer, Position, PositionOf
  <2> QED BY <1>16, <2>1 DEF CreditCustomer, GoTo, tables, history
<1>17. ASSUME NEW w \in Workers, Tally(w)
      PROVE  NoPhantomSale' /\ CoveredBy(v)'
  BY <1>17 DEF Tally, GoTo, tables, block, history, LinesOf
<1>18. ASSUME NEW w \in Workers, SaveCompleted(w)
      PROVE  NoPhantomSale' /\ CoveredBy(v)'
  <2>1. tx[w] \in Transactions
    BY <1>18 DEF SaveCompleted, Position, PositionOf
  <2> QED BY <1>18, <2>1 DEF SaveCompleted, GoTo, tables, history
<1>19. ASSUME NEW w \in Workers, Commit(w)
      PROVE  NoPhantomSale' /\ CoveredBy(v)'
  <2>1. NoPhantomSale'
    <3> SUFFICES ASSUME NEW i \in Items
                 PROVE  qty'[i] + sold'[i] >= InitialStock[i]
      OBVIOUS
    <3>1. qty'[i] = Visible(w, i) /\ sold'[i] = sold[i] + less[w][i]
      BY <1>19 DEF Commit
    <3>2. /\ qty[i] \in Nat /\ sold[i] \in Nat /\ less[w][i] \in Nat
          /\ stored[w][i] \in Nat /\ InitialStock[i] \in Nat
      OBVIOUS
    <3>3. qty[i] + sold[i] >= InitialStock[i]
      OBVIOUS
    <3>4. i \in locked[w] => stored[w][i] + less[w][i] + sold[i] >= InitialStock[i]
      OBVIOUS
    <3> QED BY <3>1, <3>2, <3>3, <3>4 DEF Visible
  <2>2. CASE v = w
    BY <1>19, <2>1, <2>2 DEF Commit, End, GoTo, EndBlock
  <2>3. CASE v # w
    <3>1. \A i \in Items : sold'[i] = sold[i] + less[w][i] /\ less[w][i] \in Nat
      BY <1>19 DEF Commit
    <3>2. /\ locked'[v] = locked[v] /\ stored'[v] = stored[v] /\ less'[v] = less[v]
          /\ pc'[v] = pc[v] /\ todo'[v] = todo[v] /\ seen'[v] = seen[v]
      BY <1>19, <2>3 DEF Commit, End, GoTo, EndBlock
    <3>3. \A i \in Items : i \in locked'[v] =>
            stored'[v][i] + less'[v][i] + sold'[i] >= InitialStock[i]
      BY <3>1, <3>2
    <3>4. ASSUME pc'[v] = "write", NEW m \in LineItems, NextLine(v, m)'
          PROVE  seen'[v] + less'[v][ItemOf[m]] + sold'[ItemOf[m]] >= InitialStock[ItemOf[m]]
      <4>1. NextLine(v, m) /\ pc[v] = "write"
        BY <3>2, <3>4
      <4>2. ItemOf[m] \in Items
        BY <4>1 DEF Position, PositionOf
      <4> DEFINE i == ItemOf[m]
      <4>3. seen[v] + less[v][i] + sold[i] >= InitialStock[i]
        BY <4>1
      <4>4. /\ seen[v] \in Nat /\ less[v][i] \in Nat /\ sold[i] \in Nat
            /\ InitialStock[i] \in Nat
        BY <4>2
      <4>5. /\ seen'[v] = seen[v] /\ less'[v][i] = less[v][i]
            /\ sold'[i] = sold[i] + less[w][i] /\ less[w][i] \in Nat
        BY <3>1, <3>2, <4>2
      <4> QED BY <4>3, <4>4, <4>5
    <3> QED BY <2>1, <3>3, <3>4
  <2> QED BY <2>2, <2>3
<1>20. ASSUME NEW w \in Workers, Rollback(w)
      PROVE  NoPhantomSale' /\ CoveredBy(v)'
  BY <1>20 DEF Rollback, End, tables, history, GoTo, EndBlock
<1>21. ASSUME NEW w \in Workers, Fail(w)
      PROVE  NoPhantomSale' /\ CoveredBy(v)'
  BY <1>21 DEF Fail, End, tables, history, GoTo, EndBlock
<1>22. CASE UNCHANGED vars
  BY <1>22 DEF vars, tables, block, history
<1> QED BY <1>1, <1>2, <1>3, <1>4, <1>5, <1>6, <1>7, <1>8, <1>9, <1>10, <1>11, <1>12,
           <1>13, <1>14, <1>15, <1>16, <1>17, <1>18, <1>19, <1>20, <1>21, <1>22
       DEF Next, Step

(* No action takes a line's units from the stock twice.                    *)
LEMMA CountedStep ==
  ASSUME CounterInv, [Next]_vars, NEW v \in Workers
  PROVE  UnitsTakenOnce' /\ TakenIsBilled' /\ CountedBy(v)'
<1> USE DEF CounterInv, TypeOK, Counted, CountedBy, TakenIsBilled, UnitsTakenOnce
<1>1. ASSUME NEW w \in Workers, NEW l \in LineItems, BeginAdd(w, l)
      PROVE  UnitsTakenOnce' /\ TakenIsBilled' /\ CountedBy(v)'
  BY <1>1 DEF BeginAdd, Start, tables, history, GoTo
<1>2. ASSUME NEW w \in Workers, NEW l \in LineItems, RemoveLine(w, l)
      PROVE  UnitsTakenOnce' /\ TakenIsBilled' /\ CountedBy(v)'
  BY <1>2 DEF RemoveLine, Start, block, history, GoTo
<1>3. ASSUME NEW w \in Workers, NEW t \in Transactions, BeginCancel(w, t)
      PROVE  UnitsTakenOnce' /\ TakenIsBilled' /\ CountedBy(v)'
  BY <1>3 DEF BeginCancel, Start, tables, block, history, GoTo
<1>4. ASSUME NEW w \in Workers, NEW t \in Transactions, BeginPay(w, t)
      PROVE  UnitsTakenOnce' /\ TakenIsBilled' /\ CountedBy(v)'
  BY <1>4 DEF BeginPay, Start, tables, block, history, GoTo
<1>5. ASSUME NEW w \in Workers, InsertLine(w)
      PROVE  UnitsTakenOnce' /\ TakenIsBilled' /\ CountedBy(v)'
  BY <1>5 DEF InsertLine, GoTo, history
<1>6. ASSUME NEW w \in Workers, Recount(w)
      PROVE  UnitsTakenOnce' /\ TakenIsBilled' /\ CountedBy(v)'
  BY <1>6 DEF Recount, GoTo, tables, block, history, LinesOf
<1>7. ASSUME NEW w \in Workers, SaveTotal(w)
      PROVE  UnitsTakenOnce' /\ TakenIsBilled' /\ CountedBy(v)'
  <2>1. /\ taken' = taken /\ sold' = sold /\ invoice' = invoice
        /\ took' = [took EXCEPT ![w] = {}] /\ less' = [less EXCEPT ![w] = NothingStored]
    BY <1>7 DEF SaveTotal, End, EndBlock, tables, history
  <2>2. UnitsTakenOnce' /\ TakenIsBilled'
    BY <2>1
  <2>3. \A i \in Items : Units({}, i) = 0
    BY UnitsSum, FS_EmptySet
  <2> QED BY <2>1, <2>2, <2>3 DEF NothingStored
<1>8. ASSUME NEW w \in Workers, Cancel(w)
      PROVE  UnitsTakenOnce' /\ TakenIsBilled' /\ CountedBy(v)'
  <2>1. /\ taken' = taken /\ sold' = sold /\ invoice' = invoice
        /\ took' = [took EXCEPT ![w] = {}] /\ less' = [less EXCEPT ![w] = NothingStored]
    BY <1>8 DEF Cancel, End, EndBlock, tables, history
  <2>2. UnitsTakenOnce' /\ TakenIsBilled'
    BY <2>1
  <2>3. \A i \in Items : Units({}, i) = 0
    BY UnitsSum, FS_EmptySet
  <2> QED BY <2>1, <2>2, <2>3 DEF NothingStored
<1>9. ASSUME NEW w \in Workers, AcceptPayment(w)
      PROVE  UnitsTakenOnce' /\ TakenIsBilled' /\ CountedBy(v)'
  BY <1>9 DEF AcceptPayment, GoTo, tables, block, history, LinesOf
<1>10. ASSUME NEW w \in Workers, RefusePayment(w)
      PROVE  UnitsTakenOnce' /\ TakenIsBilled' /\ CountedBy(v)'
  <2>1. /\ taken' = taken /\ sold' = sold /\ invoice' = invoice
        /\ took' = [took EXCEPT ![w] = {}] /\ less' = [less EXCEPT ![w] = NothingStored]
    BY <1>10 DEF RefusePayment, End, EndBlock, tables, history
  <2>2. UnitsTakenOnce' /\ TakenIsBilled'
    BY <2>1
  <2>3. \A i \in Items : Units({}, i) = 0
    BY UnitsSum, FS_EmptySet
  <2> QED BY <2>1, <2>2, <2>3 DEF NothingStored
<1>11. ASSUME NEW w \in Workers, ReadLines(w)
      PROVE  UnitsTakenOnce' /\ TakenIsBilled' /\ CountedBy(v)'
  BY <1>11 DEF ReadLines, GoTo, tables, history, LinesOf
<1>12. ASSUME NEW w \in Workers, NEW l \in LineItems, SkipCustomItem(w, l)
      PROVE  UnitsTakenOnce' /\ TakenIsBilled' /\ CountedBy(v)'
  <2>1. \A i \in Items : Units(took[w] \cup {l}, i) = Units(took[w], i)
    <3>1. l \in todo[w] /\ l \notin took[w] /\ ItemOf[l] = None
      BY <1>12 DEF SkipCustomItem, NextLine, Position, PositionOf
    <3>2. took[w] \in SUBSET LineItems /\ IsFiniteSet(took[w])
      BY DEF Finite, FiniteAt
    <3>3. SUFFICES ASSUME NEW i \in Items
                   PROVE  Units(took[w] \cup {l}, i) = Units(took[w], i)
      OBVIOUS
    <3>4. Units(took[w], i) \in Nat /\ Units(took[w] \cup {l}, i) = Units(took[w], i) + 0
      <4>1. l \in LineItems /\ l \notin took[w] /\ ItemOf[l] # i
        BY <3>1
      <4> HIDE DEF CounterInv
      <4>2. Units(took[w], i) \in Nat
        BY <3>2, UnitsSum
      <4>3. Units(took[w] \cup {l}, i) = Units(took[w], i) + (IF ItemOf[l] = i THEN QtyOf[l] ELSE 0)
        BY <3>2, <4>1, UnitsOfOneMore
      <4> QED BY <4>1, <4>2, <4>3
    <3> QED BY <3>4
  <2>2. /\ taken' = taken /\ sold' = sold /\ invoice' = invoice /\ less' = less
        /\ took' = [took EXCEPT ![w] = @ \cup {l}]
    BY <1>12 DEF SkipCustomItem, tables, history
  <2>3. UnitsTakenOnce' /\ TakenIsBilled'
    BY <2>2
  <2>4. CASE v = w
    <3>1. took'[v] = took[w] \cup {l} /\ less'[v] = less[w]
      BY <2>2, <2>4
    <3>2. CountedBy(w)
      OBVIOUS
    <3> HIDE DEF CounterInv
    <3> QED BY <2>1, <2>3, <2>4, <3>1, <3>2
  <2>5. CASE v # w
    <3>1. took'[v] = took[v] /\ less'[v] = less[v]
      BY <2>2, <2>5
    <3>2. CountedBy(v)
      OBVIOUS
    <3> HIDE DEF CounterInv
    <3> QED BY <2>3, <3>1, <3>2
  <2> QED BY <2>4, <2>5
<1>13. ASSUME NEW w \in Workers, NEW l \in LineItems, ReadItem(w, l)
      PROVE  UnitsTakenOnce' /\ TakenIsBilled' /\ CountedBy(v)'
  BY <1>13 DEF ReadItem, GoTo, tables, history
<1>14. ASSUME NEW w \in Workers, NEW l \in LineItems, WriteItem(w, l)
      PROVE  UnitsTakenOnce' /\ TakenIsBilled' /\ CountedBy(v)'
  <2> DEFINE j == ItemOf[l]
  <2>1. l \in todo[w] /\ l \notin took[w] /\ j \in Items /\ QtyOf[l] \in Nat
    BY <1>14 DEF WriteItem, NextLine, Position, PositionOf
  <2>2. took[w] \in SUBSET LineItems /\ IsFiniteSet(took[w])
    BY DEF Finite, FiniteAt
  <2>3. /\ taken' = taken /\ sold' = sold /\ invoice' = invoice
        /\ took' = [took EXCEPT ![w] = @ \cup {l}]
        /\ less' = [less EXCEPT ![w][j] = @ + QtyOf[l]]
    BY <1>14 DEF WriteItem, tables, history
  <2>4. UnitsTakenOnce' /\ TakenIsBilled'
    BY <2>3
  <2>5. ASSUME NEW i \in Items
        PROVE  less'[w][i] = Units(took'[w], i)
    <3>1. less[w][i] \in Nat /\ less[w][i] = Units(took[w], i)
      OBVIOUS
    <3>2. took'[w] = took[w] \cup {l}
      BY <2>3
    <3>3. Units(took[w] \cup {l}, i) = Units(took[w], i) + (IF j = i THEN QtyOf[l] ELSE 0)
      <4> HIDE DEF CounterInv
      <4> QED BY <2>1, <2>2, UnitsOfOneMore
    <3>4. less'[w][i] = IF j = i THEN less[w][i] + QtyOf[l] ELSE less[w][i]
      BY <2>1, <2>3
    <3> QED BY <2>1, <3>1, <3>2, <3>3, <3>4
  <2>6. CASE v = w
    BY <2>4, <2>5, <2>6
  <2>7. CASE v # w
    BY <2>3, <2>4, <2>7
  <2> QED BY <2>6, <2>7
<1>15. ASSUME NEW w \in Workers, ReadCustomer(w)
      PROVE  UnitsTakenOnce' /\ TakenIsBilled' /\ CountedBy(v)'
  BY <1>15 DEF ReadCustomer, GoTo, tables, history
<1>16. ASSUME NEW w \in Workers, CreditCustomer(w)
      PROVE  UnitsTakenOnce' /\ TakenIsBilled' /\ CountedBy(v)'
  BY <1>16 DEF CreditCustomer, GoTo, tables, history
<1>17. ASSUME NEW w \in Workers, Tally(w)
      PROVE  UnitsTakenOnce' /\ TakenIsBilled' /\ CountedBy(v)'
  BY <1>17 DEF Tally, GoTo, tables, block, history, LinesOf
<1>18. ASSUME NEW w \in Workers, SaveCompleted(w)
      PROVE  UnitsTakenOnce' /\ TakenIsBilled' /\ CountedBy(v)'
  BY <1>18 DEF SaveCompleted, GoTo, tables, history
<1>19. ASSUME NEW w \in Workers, Commit(w)
      PROVE  UnitsTakenOnce' /\ TakenIsBilled' /\ CountedBy(v)'
  <2>1. /\ tx[w] \in Transactions /\ invoice[tx[w]] = Unbilled
        /\ invoice' = [invoice EXCEPT ![tx[w]] = inst[w].total]
        /\ taken' = taken \cup took[w]
        /\ sold' = [i \in Items |-> sold[i] + less[w][i]]
        /\ took' = [took EXCEPT ![w] = {}] /\ less' = [less EXCEPT ![w] = NothingStored]
    BY <1>19 DEF Commit, End, EndBlock, Position, PositionOf
  <2>2. \A l \in took[w] : TxOf[l] = tx[w]
    BY DEF Position, PositionOf
  <2>3. taken \cap took[w] = {}
    BY <2>1, <2>2
  <2>4. UnitsTakenOnce'
    <3>1. /\ taken \in SUBSET LineItems /\ IsFiniteSet(taken)
          /\ took[w] \in SUBSET LineItems /\ IsFiniteSet(took[w])
      BY DEF Finite, FiniteAt
    <3>2. ASSUME NEW i \in Items
          PROVE  sold'[i] = Units(taken \cup took[w], i)
      <4>1. Units(taken \cup took[w], i) = Units(taken, i) + Units(took[w], i)
        <5> HIDE DEF CounterInv
        <5> QED BY <2>3, <3>1, UnitsOfBoth
      <4>2. sold'[i] = sold[i] + less[w][i]
        BY <2>1
      <4>3. sold[i] = Units(taken, i) /\ less[w][i] = Units(took[w], i)
        OBVIOUS
      <4> QED BY <4>1, <4>2, <4>3
    <3> QED BY <2>1, <3>2
  <2>5. TakenIsBilled'
    <3>1. inst[w].total \in SUBSET LineItems
      OBVIOUS
    <3>2. inst[w].total # Unbilled
      BY <3>1
    <3> QED BY <2>1, <2>2, <3>2
  <2>6. \A i \in Items : Units({}, i) = 0
    BY UnitsSum, FS_EmptySet
  <2>7. CASE v = w
    <3>1. took'[w] = {} /\ less'[w] = NothingStored
      BY <2>1
    <3> HIDE DEF CounterInv
    <3> QED BY <2>4, <2>5, <2>6, <2>7, <3>1 DEF NothingStored
  <2>8. CASE v # w
    <3>1. took'[v] = took[v] /\ less'[v] = less[v]
      BY <2>1, <2>8
    <3>2. CountedBy(v)
      OBVIOUS
    <3> HIDE DEF CounterInv
    <3> QED BY <2>4, <2>5, <3>1, <3>2
  <2> QED BY <2>7, <2>8
<1>20. ASSUME NEW w \in Workers, Rollback(w)
      PROVE  UnitsTakenOnce' /\ TakenIsBilled' /\ CountedBy(v)'
  <2>1. /\ taken' = taken /\ sold' = sold /\ invoice' = invoice
        /\ took' = [took EXCEPT ![w] = {}] /\ less' = [less EXCEPT ![w] = NothingStored]
    BY <1>20 DEF Rollback, End, EndBlock, tables, history
  <2>2. UnitsTakenOnce' /\ TakenIsBilled'
    BY <2>1
  <2>3. \A i \in Items : Units({}, i) = 0
    BY UnitsSum, FS_EmptySet
  <2> QED BY <2>1, <2>2, <2>3 DEF NothingStored
<1>21. ASSUME NEW w \in Workers, Fail(w)
      PROVE  UnitsTakenOnce' /\ TakenIsBilled' /\ CountedBy(v)'
  <2>1. /\ taken' = taken /\ sold' = sold /\ invoice' = invoice
        /\ took' = [took EXCEPT ![w] = {}] /\ less' = [less EXCEPT ![w] = NothingStored]
    BY <1>21 DEF Fail, End, EndBlock, tables, history
  <2>2. UnitsTakenOnce' /\ TakenIsBilled'
    BY <2>1
  <2>3. \A i \in Items : Units({}, i) = 0
    BY UnitsSum, FS_EmptySet
  <2> QED BY <2>1, <2>2, <2>3 DEF NothingStored
<1>22. CASE UNCHANGED vars
  BY <1>22 DEF vars, tables, block, history
<1> QED BY <1>1, <1>2, <1>3, <1>4, <1>5, <1>6, <1>7, <1>8, <1>9, <1>10, <1>11, <1>12,
           <1>13, <1>14, <1>15, <1>16, <1>17, <1>18, <1>19, <1>20, <1>21, <1>22
       DEF Next, Step

(* The invariant is inductive, and holds in every reachable state.         *)
LEMMA CounterStep ==
  ASSUME CounterInv, [Next]_vars
  PROVE  CounterInv'
<1>1. TypeOK'
  BY TypeStep
<1>2. Position'
  BY PositionStep DEF Position
<1>3. Finite'
  <2>1. \A v \in Workers : IsFiniteSet(onSale') /\ IsFiniteSet(taken') /\ FiniteAt(v)'
    BY FiniteStep
  <2>2. IsFiniteSet(onSale') /\ IsFiniteSet(taken')
    <3>1. CASE Workers = {}
      BY <3>1 DEF CounterInv, Finite, Next, vars, tables, history
    <3>2. CASE Workers # {}
      BY <2>1, <3>2
    <3> QED BY <3>1, <3>2
  <2> QED BY <2>1, <2>2 DEF Finite
<1>4. CompletedIsBilled'
  BY CompletedIsBilledStep
<1>5. Covered'
  <2>1. \A v \in Workers : NoPhantomSale' /\ CoveredBy(v)'
    BY CoveredStep
  <2>2. NoPhantomSale'
    <3>1. CASE Workers = {}
      BY <3>1 DEF CounterInv, Covered, NoPhantomSale, Next, vars, tables, history
    <3>2. CASE Workers # {}
      BY <2>1, <3>2
    <3> QED BY <3>1, <3>2
  <2> QED BY <2>1, <2>2 DEF Covered
<1>6. Counted'
  <2>1. \A v \in Workers : UnitsTakenOnce' /\ TakenIsBilled' /\ CountedBy(v)'
    BY CountedStep
  <2>2. UnitsTakenOnce' /\ TakenIsBilled'
    <3>1. CASE Workers = {}
      BY <3>1 DEF CounterInv, Counted, UnitsTakenOnce, TakenIsBilled, Next, vars, tables, history
    <3>2. CASE Workers # {}
      BY <2>1, <3>2
    <3> QED BY <3>1, <3>2
  <2> QED BY <2>1, <2>2 DEF Counted
<1> QED BY <1>1, <1>2, <1>3, <1>4, <1>5, <1>6 DEF CounterInv

(* The inductive invariant holds for every number of terminals.            *)
THEOREM CounterInvariant == Spec => []CounterInv
<1>1. Init => CounterInv
  BY CounterInit
<1>2. CounterInv /\ [Next]_vars => CounterInv'
  BY CounterStep
<1> QED BY <1>1, <1>2, PTL DEF Spec

(* The counter keeps its types.                                            *)
THEOREM CounterTypes == Spec => []TypeOK
BY CounterInvariant, PTL DEF CounterInv

(* However payments race, fail and repeat, the stock falls by no more than *)
(* committed payments sold: a lost decrement is possible, an invented one  *)
(* is not.                                                                 *)
THEOREM NoSaleIsInvented == Spec => []NoPhantomSale
<1>1. CounterInv => NoPhantomSale
  BY DEF CounterInv, Covered
<1> QED BY <1>1, CounterInvariant, PTL

(* complete_transaction and _create_invoice take effect together.          *)
THEOREM CompletionsAreBilled == Spec => []CompletedIsBilled
BY CounterInvariant, PTL DEF CounterInv

(* The one-to-one invoice keeps racing payments of one transaction from    *)
(* taking the units of its lines more than once.                           *)
THEOREM LinesAreTakenOnce == Spec => []UnitsTakenOnce
<1>1. CounterInv => UnitsTakenOnce
  BY DEF CounterInv, Counted
<1> QED BY <1>1, CounterInvariant, PTL

-----------------------------------------------------------------------------
(* One till: nobody changes a sale while it is paid for                    *)

OneWorker == \A v, w \in Workers : v = w

(* The lines the inventory loop goes through are still the sale's, a sale  *)
(* that is about to be cancelled is not completed, and what is known of    *)
(* the customer's purchases is up to date.                                 *)
AtTill(w) ==
  /\ pc[w] = "insert" => \E l \in LineItems : todo[w] = {l}
  /\ pc[w] \in {"read", "write"} => took[w] \cup todo[w] = LinesOf(tx[w])
  /\ pc[w] \in {"credit", "tally", "save", "invoice"} => took[w] = LinesOf(tx[w])
  /\ pc[w] \in {"save", "invoice"} => inst[w].total = LinesOf(tx[w])
  /\ pc[w] = "cancel" => status[tx[w]] # "completed"

PurchasesKnown(w) ==
  /\ pc[w] = "credit" => known[w] = credited[CustomerOf[tx[w]]]
  /\ pc[w] \notin {"tally", "save", "invoice"} => locked[w] \cap Customers = {}
  /\ (pc[w] \in {"tally", "save", "invoice"} /\ CustomerOf[tx[w]] # None) =>
       CustomerOf[tx[w]] \in locked[w] /\ tx[w] \in known[w]
  /\ \A c \in Customers : c \in locked[w] => credited[c] \subseteq known[w]

(* The inductive invariant with one worker.                                *)
TillInv ==
  /\ CounterInv
  /\ CustomerIsCredited
  /\ \A w \in Workers : AtTill(w) /\ PurchasesKnown(w)

(* The invariant of the refinement holds initially.                        *)
LEMMA TillInit == Init => TillInv
BY CounterInit DEF Init, TillInv, CustomerIsCredited, AtTill, PurchasesKnown

(* The only request finds the sale as it left it.                          *)
LEMMA AtTillStep ==
  ASSUME TillInv, OneWorker, [Next]_vars, NEW v \in Workers
  PROVE  AtTill(v)'
<1> USE DEF TillInv, AtTill, OneWorker, CounterInv, TypeOK, Position, PositionOf, LinesOf
<1>1. ASSUME NEW w \in Workers, NEW l \in LineItems, BeginAdd(w, l)
      PROVE  AtTill(v)'
  BY <1>1 DEF BeginAdd, Start, tables, history, GoTo
<1>2. ASSUME NEW w \in Workers, NEW l \in LineItems, RemoveLine(w, l)
      PROVE  AtTill(v)'
  BY <1>2 DEF RemoveLine, Start, block, history, GoTo
<1>3. ASSUME NEW w \in Workers, NEW t \in Transactions, BeginCancel(w, t)
      PROVE  AtTill(v)'
  BY <1>3 DEF BeginCancel, Start, tables, block, history, GoTo
<1>4. ASSUME NEW w \in Workers, NEW t \in Transactions, BeginPay(w, t)
      PROVE  AtTill(v)'
  BY <1>4 DEF BeginPay, Start, tables, block, history, GoTo
<1>5. ASSUME NEW w \in Workers, InsertLine(w)
      PROVE  AtTill(v)'
  BY <1>5 DEF InsertLine, GoTo, history
<1>6. ASSUME NEW w \in Workers, Recount(w)
      PROVE  AtTill(v)'
  BY <1>6 DEF Recount, GoTo, tables, block, history
<1>7. ASSUME NEW w \in Workers, SaveTotal(w)
      PROVE  AtTill(v)'
  BY <1>7 DEF SaveTotal, End, history, GoTo, EndBlock
<1>8. ASSUME NEW w \in Workers, Cancel(w)
      PROVE  AtTill(v)'
  BY <1>8 DEF Cancel, End, history, GoTo, EndBlock
<1>9. ASSUME NEW w \in Workers, AcceptPayment(w)
      PROVE  AtTill(v)'
  BY <1>9 DEF AcceptPayment, GoTo, tables, block, history
<1>10. ASSUME NEW w \in Workers, RefusePayment(w)
      PROVE  AtTill(v)'
  BY <1>10 DEF RefusePayment, End, tables, history, GoTo, EndBlock
<1>11. ASSUME NEW w \in Workers, ReadLines(w)
      PROVE  AtTill(v)'
  BY <1>11 DEF ReadLines, GoTo, tables, history
<1>12. ASSUME NEW w \in Workers, NEW l \in LineItems, SkipCustomItem(w, l)
      PROVE  AtTill(v)'
  <2>1. v = w /\ l \in todo[w] /\ took[w] \cup todo[w] = LinesOf(tx[w])
    BY <1>12 DEF SkipCustomItem, NextLine
  <2>2. /\ took'[w] = took[w] \cup {l} /\ todo'[w] = todo[w] \ {l}
        /\ pc'[w] = "read" /\ tx' = tx /\ onSale' = onSale
    BY <1>12 DEF SkipCustomItem, GoTo, tables, history
  <2>3. took'[w] \cup todo'[w] = LinesOf(tx[w])
    BY <2>1, <2>2
  <2> QED BY <2>1, <2>2, <2>3
<1>13. ASSUME NEW w \in Workers, NEW l \in LineItems, ReadItem(w, l)
      PROVE  AtTill(v)'
  BY <1>13 DEF ReadItem, GoTo, tables, history
<1>14. ASSUME NEW w \in Workers, NEW l \in LineItems, WriteItem(w, l)
      PROVE  AtTill(v)'
  <2>1. v = w /\ l \in todo[w] /\ took[w] \cup todo[w] = LinesOf(tx[w])
    BY <1>14 DEF WriteItem, NextLine
  <2>2. /\ took'[w] = took[w] \cup {l} /\ todo'[w] = todo[w] \ {l}
        /\ pc'[w] = "read" /\ tx' = tx /\ onSale' = onSale
    BY <1>14 DEF WriteItem, GoTo, tables, history
  <2>3. took'[w] \cup todo'[w] = LinesOf(tx[w])
    BY <2>1, <2>2
  <2> QED BY <2>1, <2>2, <2>3
<1>15. ASSUME NEW w \in Workers, ReadCustomer(w)
      PROVE  AtTill(v)'
  BY <1>15 DEF ReadCustomer, GoTo, tables, history
<1>16. ASSUME NEW w \in Workers, CreditCustomer(w)
      PROVE  AtTill(v)'
  BY <1>16 DEF CreditCustomer, GoTo, tables, history
<1>17. ASSUME NEW w \in Workers, Tally(w)
      PROVE  AtTill(v)'
  BY <1>17 DEF Tally, GoTo, tables, block, history
<1>18. ASSUME NEW w \in Workers, SaveCompleted(w)
      PROVE  AtTill(v)'
  BY <1>18 DEF SaveCompleted, GoTo, tables, history
<1>19. ASSUME NEW w \in Workers, Commit(w)
      PROVE  AtTill(v)'
  BY <1>19 DEF Commit, End, GoTo, EndBlock
<1>20. ASSUME NEW w \in Workers, Rollback(w)
      PROVE  AtTill(v)'
  BY <1>20 DEF Rollback, End, tables, history, GoTo, EndBlock
<1>21. ASSUME NEW w \in Workers, Fail(w)
      PROVE  AtTill(v)'
  BY <1>21 DEF Fail, End, tables, history, GoTo, EndBlock
<1>22. CASE UNCHANGED vars
  BY <1>22 DEF vars, tables, block, history
<1> QED BY <1>1, <1>2, <1>3, <1>4, <1>5, <1>6, <1>7, <1>8, <1>9, <1>10, <1>11, <1>12,
           <1>13, <1>14, <1>15, <1>16, <1>17, <1>18, <1>19, <1>20, <1>21, <1>22
       DEF Next, Step

(* The only request finds the customer as it left it.                      *)
LEMMA PurchasesStep ==
  ASSUME TillInv, OneWorker, [Next]_vars, NEW v \in Workers
  PROVE  CustomerIsCredited' /\ PurchasesKnown(v)'
<1> USE DEF TillInv, CustomerIsCredited, PurchasesKnown, OneWorker, CounterInv, TypeOK,
            Position, PositionOf
<1>1. ASSUME NEW w \in Workers, NEW l \in LineItems, BeginAdd(w, l)
      PROVE  CustomerIsCredited' /\ PurchasesKnown(v)'
  BY <1>1 DEF BeginAdd, Start, tables, history, GoTo
<1>2. ASSUME NEW w \in Workers, NEW l \in LineItems, RemoveLine(w, l)
      PROVE  CustomerIsCredited' /\ PurchasesKnown(v)'
  BY <1>2 DEF RemoveLine, Start, block, history, GoTo
<1>3. ASSUME NEW w \in Workers, NEW t \in Transactions, BeginCancel(w, t)
      PROVE  CustomerIsCredited' /\ PurchasesKnown(v)'
  BY <1>3 DEF BeginCancel, Start, tables, block, history, GoTo
<1>4. ASSUME NEW w \in Workers, NEW t \in Transactions, BeginPay(w, t)
      PROVE  CustomerIsCredited' /\ PurchasesKnown(v)'
  BY <1>4 DEF BeginPay, Start, tables, block, history, GoTo
<1>5. ASSUME NEW w \in Workers, InsertLine(w)
      PROVE  CustomerIsCredited' /\ PurchasesKnown(v)'
  BY <1>5 DEF InsertLine, GoTo, history
<1>6. ASSUME NEW w \in Workers, Recount(w)
      PROVE  CustomerIsCredited' /\ PurchasesKnown(v)'
  BY <1>6 DEF Recount, GoTo, tables, block, history, LinesOf
<1>7. ASSUME NEW w \in Workers, SaveTotal(w)
      PROVE  CustomerIsCredited' /\ PurchasesKnown(v)'
  BY <1>7 DEF SaveTotal, End, history, GoTo, EndBlock
<1>8. ASSUME NEW w \in Workers, Cancel(w)
      PROVE  CustomerIsCredited' /\ PurchasesKnown(v)'
  BY <1>8 DEF Cancel, End, history, GoTo, EndBlock
<1>9. ASSUME NEW w \in Workers, AcceptPayment(w)
      PROVE  CustomerIsCredited' /\ PurchasesKnown(v)'
  BY <1>9 DEF AcceptPayment, GoTo, tables, block, history, LinesOf
<1>10. ASSUME NEW w \in Workers, RefusePayment(w)
      PROVE  CustomerIsCredited' /\ PurchasesKnown(v)'
  BY <1>10 DEF RefusePayment, End, tables, history, LinesOf, GoTo, EndBlock
<1>11. ASSUME NEW w \in Workers, ReadLines(w)
      PROVE  CustomerIsCredited' /\ PurchasesKnown(v)'
  BY <1>11 DEF ReadLines, GoTo, tables, history, LinesOf
<1>12. ASSUME NEW w \in Workers, NEW l \in LineItems, SkipCustomItem(w, l)
      PROVE  CustomerIsCredited' /\ PurchasesKnown(v)'
  BY <1>12 DEF SkipCustomItem, tables, history
<1>13. ASSUME NEW w \in Workers, NEW l \in LineItems, ReadItem(w, l)
      PROVE  CustomerIsCredited' /\ PurchasesKnown(v)'
  BY <1>13 DEF ReadItem, GoTo, tables, history
<1>14. ASSUME NEW w \in Workers, NEW l \in LineItems, WriteItem(w, l)
      PROVE  CustomerIsCredited' /\ PurchasesKnown(v)'
  BY <1>14 DEF WriteItem, GoTo, tables, history
<1>15. ASSUME NEW w \in Workers, ReadCustomer(w)
      PROVE  CustomerIsCredited' /\ PurchasesKnown(v)'
  BY <1>15 DEF ReadCustomer, GoTo, tables, history
<1>16. ASSUME NEW w \in Workers, CreditCustomer(w)
      PROVE  CustomerIsCredited' /\ PurchasesKnown(v)'
  BY <1>16 DEF CreditCustomer, GoTo, tables, history
<1>17. ASSUME NEW w \in Workers, Tally(w)
      PROVE  CustomerIsCredited' /\ PurchasesKnown(v)'
  BY <1>17 DEF Tally, GoTo, tables, block, history, LinesOf
<1>18. ASSUME NEW w \in Workers, SaveCompleted(w)
      PROVE  CustomerIsCredited' /\ PurchasesKnown(v)'
  BY <1>18 DEF SaveCompleted, GoTo, tables, history
<1>19. ASSUME NEW w \in Workers, Commit(w)
      PROVE  CustomerIsCredited' /\ PurchasesKnown(v)'
  BY <1>19 DEF Commit, End, GoTo, EndBlock
<1>20. ASSUME NEW w \in Workers, Rollback(w)
      PROVE  CustomerIsCredited' /\ PurchasesKnown(v)'
  BY <1>20 DEF Rollback, End, tables, history, GoTo, EndBlock
<1>21. ASSUME NEW w \in Workers, Fail(w)
      PROVE  CustomerIsCredited' /\ PurchasesKnown(v)'
  BY <1>21 DEF Fail, End, tables, history, GoTo, EndBlock
<1>22. CASE UNCHANGED vars
  BY <1>22 DEF vars, tables, block, history
<1> QED BY <1>1, <1>2, <1>3, <1>4, <1>5, <1>6, <1>7, <1>8, <1>9, <1>10, <1>11, <1>12,
           <1>13, <1>14, <1>15, <1>16, <1>17, <1>18, <1>19, <1>20, <1>21, <1>22
       DEF Next, Step


(* Every step keeps the invariant of the refinement.                       *)
LEMMA TillStep ==
  ASSUME TillInv, OneWorker, [Next]_vars
  PROVE  TillInv'
<1>1. CounterInv'
  BY CounterStep DEF TillInv
<1>2. \A v \in Workers : AtTill(v)' /\ PurchasesKnown(v)'
  BY AtTillStep, PurchasesStep
<1>3. CustomerIsCredited'
  <2>1. CASE Workers = {}
    BY <2>1 DEF TillInv, CustomerIsCredited, Next, vars, tables
  <2>2. CASE Workers # {}
    BY <2>2, PurchasesStep
  <2> QED BY <2>1, <2>2
<1> QED BY <1>1, <1>2, <1>3 DEF TillInv


(* Every step of the only request is a step of the till or a stutter.      *)
LEMMA TillRefines ==
  ASSUME TillInv, OneWorker, [Next]_vars
  PROVE  [AbstractTill!Next]_<<status, onSale, invoice, taken>>
<1> USE DEF TillInv, CounterInv, TypeOK, Position, PositionOf, AtTill
<1> DEFINE Stays == UNCHANGED <<status, onSale, invoice, taken>>
<1>1. ASSUME NEW w \in Workers, NEW l \in LineItems, RemoveLine(w, l)
      PROVE  AbstractTill!Ring
  BY <1>1 DEF RemoveLine, history, AbstractTill!Ring
<1>2. ASSUME NEW w \in Workers, InsertLine(w)
      PROVE  AbstractTill!Ring
  <2>1. PICK l \in LineItems : todo[w] = {l}
    BY <1>2 DEF InsertLine
  <2>2. onSale' = onSale \cup {l} /\ UNCHANGED <<status, invoice, taken>>
    BY <1>2, <2>1 DEF InsertLine, history
  <2> QED BY <2>2 DEF AbstractTill!Ring
<1>3. ASSUME NEW w \in Workers, Cancel(w)
      PROVE  AbstractTill!Next
  <2>1. tx[w] \in Transactions /\ AbstractTill!Cancel(tx[w])
    BY <1>3 DEF Cancel, history, AbstractTill!Cancel
  <2> QED BY <2>1 DEF AbstractTill!Next
<1>4. ASSUME NEW w \in Workers, Commit(w)
      PROVE  AbstractTill!Next
  <2>1. inst[w].total = LinesOf(tx[w]) /\ took[w] = LinesOf(tx[w]) /\ tx[w] \in Transactions
    BY <1>4 DEF Commit
  <2>2. LinesOf(tx[w]) = AbstractTill!LinesOf(tx[w])
    BY DEF LinesOf, AbstractTill!LinesOf
  <2>3. AbstractTill!Sell(tx[w])
    BY <1>4, <2>1, <2>2 DEF Commit, AbstractTill!Sell
  <2> QED BY <2>1, <2>3 DEF AbstractTill!Next
<1>5. ASSUME NEW w \in Workers,
             \/ \E l \in LineItems : BeginAdd(w, l)
             \/ \E t \in Transactions : BeginCancel(w, t) \/ BeginPay(w, t)
             \/ Recount(w) \/ SaveTotal(w) \/ AcceptPayment(w) \/ RefusePayment(w)
             \/ ReadLines(w)
             \/ \E l \in LineItems : SkipCustomItem(w, l) \/ ReadItem(w, l) \/ WriteItem(w, l)
             \/ ReadCustomer(w) \/ CreditCustomer(w) \/ Tally(w) \/ SaveCompleted(w)
             \/ Rollback(w) \/ Fail(w)
      PROVE  Stays
  BY <1>5 DEF BeginAdd, BeginCancel, BeginPay, Recount, SaveTotal, AcceptPayment, RefusePayment,
              ReadLines, SkipCustomItem, ReadItem, WriteItem, ReadCustomer, CreditCustomer,
              Tally, SaveCompleted, Rollback, Fail, tables, history
<1>6. CASE UNCHANGED vars
  BY <1>6 DEF vars, tables, history
<1> QED BY <1>1, <1>2, <1>3, <1>4, <1>5, <1>6 DEF Next, Step, AbstractTill!Next

(* With one request at a time the counter implements the till: the bill    *)
(* holds exactly the lines taken from the stock, once, all at once.        *)
THEOREM CounterImplementsTill ==
  ASSUME OneWorker
  PROVE  Spec => ImplementsTill
<1>1. Init => AbstractTill!Init
  BY DEF Init, AbstractTill!Init
<1>2. Init => TillInv
  BY TillInit
<1>3. TillInv /\ [Next]_vars => TillInv'
  BY TillStep
<1>4. TillInv /\ [Next]_vars => [AbstractTill!Next]_<<status, onSale, invoice, taken>>
  BY TillRefines
<1> QED BY <1>1, <1>2, <1>3, <1>4, PTL DEF Spec, ImplementsTill, AbstractTill!Spec

(* With one request at a time every billed sale of a customer is among the *)
(* customer's purchases (update_purchase_stats).                           *)
THEOREM BilledSalesAreCredited ==
  ASSUME OneWorker
  PROVE  Spec => []CustomerIsCredited
<1>1. Init => TillInv
  BY TillInit
<1>2. TillInv /\ [Next]_vars => TillInv'
  BY TillStep
<1>3. TillInv => CustomerIsCredited
  BY DEF TillInv
<1> QED BY <1>1, <1>2, <1>3, PTL DEF Spec
=============================================================================
