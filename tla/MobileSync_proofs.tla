------------------------- MODULE MobileSync_proofs -------------------------
(***************************************************************************)
(* Proofs about MobileSync for any number of items, changes, sales and     *)
(* requests: changes of an item happen in the order they were made, in     *)
(* whatever order devices upload (NewestWins), and a batch happens as a    *)
(* whole on the quantities as they are, with nothing twice                 *)
(* (ImplementsShelf).                                                      *)
(***************************************************************************)
EXTENDS MobileSync, Sums

(* Where each request stands.                                              *)
PositionOf(w) ==
  /\ pc[w] = "idle" => done[w] = {}
  /\ pc[w] \in {"read", "write"} => doing[w] \in Sales /\ line[w] <= Len(Lines[doing[w]])
  /\ pc[w] = "write" => line[w] < Len(Lines[doing[w]])
  /\ pc[w] \notin {"read", "write"} => line[w] = 0
  /\ pc[w] \in {"changes", "resolve"} => todo[w] \subseteq Made
  /\ pc[w] = "changes" => done[w] \subseteq Made

Position == \A w \in Workers : PositionOf(w)

Older(c, d) == Edit[c].item = Edit[d].item /\ ~MadeBefore(d, c)

(* A block that has made a change keeps its item locked, has made none     *)
(* before that is outdated, and outdates all others made until then.       *)
BlockOf(w) ==
  /\ \A c \in touched[w] : Edit[c].item \in locked[w]
  /\ pc[w] = "changes" => \A d \in done[w] :
       /\ d \in touched[w] \ outdated
       /\ \A c \in Made : Older(c, d) => c \in touched[w]

Locks == \A v, w \in Workers : v # w => locked[v] \cap locked[w] = {}

(* What is older than a change that was made to an item is outdated.       *)
Applied ==
  /\ applied \subseteq outdated \cap Made
  /\ \A d \in applied, c \in Made : Older(c, d) => c \in outdated

(* The inductive invariant.                                                *)
SyncInv ==
  /\ TypeOK
  /\ Position
  /\ Locks
  /\ \A w \in Workers : BlockOf(w)
  /\ Applied
-----------------------------------------------------------------------------
(* The sorts of the constants.                                             *)
LEMMA ConstantTypes ==
  /\ \A c \in Changes : /\ Edit[c].item \in Items /\ Edit[c].qty \in Nat
                        /\ Edit[c].kind \in {"set", "add", "subtract"}
  /\ \A s \in Sales : Len(Lines[s]) \in Nat /\ DOMAIN Lines[s] = 1..Len(Lines[s])
  /\ \A s \in Sales : \A n \in 1..Len(Lines[s]) :
       Lines[s][n].item \in Items /\ Lines[s][n].qty \in Nat \ {0}
  /\ InitialStock \in [Items -> Nat] /\ None \notin Sales /\ Changes \cap Sales = {}
<1>1. \A s \in Sales : Lines[s] \in Seq([item : Items, qty : Nat \ {0}])
  BY MobileAssumptions
<1>2. ASSUME NEW s \in Sales
      PROVE  /\ Len(Lines[s]) \in Nat /\ DOMAIN Lines[s] = 1..Len(Lines[s])
             /\ \A n \in 1..Len(Lines[s]) : Lines[s][n] \in [item : Items, qty : Nat \ {0}]
  <2> DEFINE x == Lines[s]
             S == [item : Items, qty : Nat \ {0}]
  <2>1. x \in Seq(S)
    BY <1>1
  <2> HIDE DEF x, S
  <2>2. /\ Len(x) \in Nat /\ DOMAIN x = 1..Len(x)
        /\ \A n \in 1..Len(x) : x[n] \in S
    BY <2>1
  <2> QED BY <2>2 DEF x, S
<1> QED BY <1>2, MobileAssumptions

USE ConstantTypes

(* One more change made on a device comes after all others.                *)
LEMMA MadeGrows ==
  ASSUME TypeOK, NEW c \in Changes, MakeChange(c)
  PROVE  /\ c \notin Made /\ Made' = Made \cup {c}
         /\ \A a, b : MadeBefore(a, b) => MadeBefore(a, b)'
         /\ \A a \in Made : MadeBefore(a, c)'
<1>1. made' = Append(made, c) /\ made \in Seq(Changes) /\ c \notin Made
  BY DEF MakeChange, TypeOK
<1> DEFINE n == Len(made)
<1>2. /\ n \in Nat /\ DOMAIN made = 1..n /\ DOMAIN made' = 1..(n + 1)
      /\ \A i \in 1..n : made'[i] = made[i]
      /\ made'[n + 1] = c
  BY <1>1
<1> HIDE DEF n
<1>3. Made' = Made \cup {c}
  <2>1. ASSUME NEW x \in Made' PROVE x \in Made \cup {c}
    <3>1. PICK i \in 1..(n + 1) : x = made'[i]
      BY <1>2 DEF Made, ToSet
    <3> QED BY <1>2, <3>1 DEF Made, ToSet
  <2>2. ASSUME NEW x \in Made PROVE x \in Made'
    <3>1. PICK i \in 1..n : x = made[i]
      BY <1>2 DEF Made, ToSet
    <3>2. i \in 1..(n + 1) /\ made'[i] = x
      BY <1>2, <3>1
    <3> QED BY <1>2, <3>2 DEF Made, ToSet
  <2>3. c \in Made'
    <3>1. n + 1 \in DOMAIN made' /\ made'[n + 1] = c
      BY <1>2
    <3> QED BY <3>1 DEF Made, ToSet
  <2> QED BY <2>1, <2>2, <2>3
<1>4. ASSUME NEW a, NEW b, MadeBefore(a, b) PROVE MadeBefore(a, b)'
  <2>1. PICK i \in 1..n, j \in 1..n : i < j /\ made[i] = a /\ made[j] = b
    BY <1>2, <1>4 DEF MadeBefore
  <2>2. i \in 1..(n + 1) /\ j \in 1..(n + 1) /\ i < j /\ made'[i] = a /\ made'[j] = b
    BY <1>2, <2>1
  <2> QED BY <1>2, <2>2 DEF MadeBefore
<1>5. ASSUME NEW a \in Made PROVE MadeBefore(a, c)'
  <2>1. PICK i \in 1..n : made[i] = a
    BY <1>2 DEF Made, ToSet
  <2>2. i \in 1..(n + 1) /\ n + 1 \in 1..(n + 1) /\ i < n + 1 /\ made'[i] = a
    BY <1>2, <2>1
  <2> QED BY <1>2, <2>2 DEF MadeBefore
<1> QED BY <1>1, <1>3, <1>4, <1>5

(* Only changes that exist are made.                                       *)
LEMMA MadeTypes == TypeOK => Made \subseteq Changes
BY DEF TypeOK, Made, ToSet

(* A request keeps reading and writing lines that exist.                   *)
LEMMA LineTypes ==
  ASSUME TypeOK, NEW w \in Workers, PositionOf(w), pc[w] \in {"read", "write"},
         line[w] < Len(Lines[doing[w]])
  PROVE  /\ line[w] + 1 \in 1..Len(Lines[doing[w]])
         /\ CurrentLine(w).item \in Items /\ CurrentLine(w).qty \in Nat \ {0}
<1>1. doing[w] \in Sales /\ line[w] \in Nat
  BY DEF TypeOK, PositionOf
<1>2. line[w] + 1 \in 1..Len(Lines[doing[w]])
  BY <1>1
<1> QED BY <1>1, <1>2 DEF CurrentLine

(* What a block stores of an item is a quantity.                           *)
LEMMA VisibleTypes ==
  ASSUME TypeOK, NEW w \in Workers, NEW i \in Items
  PROVE  Visible(w, i) \in Nat
BY DEF Visible, TypeOK

(* A change makes a quantity of a quantity.                                *)
LEMMA EditedTypes ==
  ASSUME NEW c \in Changes, NEW q \in Nat
  PROVE  Edited(c, q) \in Nat
<1>1. Edit[c].qty \in Nat /\ Edit[c].kind \in {"set", "add", "subtract"}
  OBVIOUS
<1> QED BY <1>1 DEF Edited

(* Storing a quantity keeps the types of the block.                        *)
LEMMA StoreTypes ==
  ASSUME TypeOK, NEW w \in Workers, NEW i \in Items, NEW q \in Nat, Store(w, i, q)
  PROVE  /\ stored' \in [Workers -> [Items -> Nat]]
         /\ locked' \in [Workers -> SUBSET Items]
BY DEF TypeOK, Store

(* A block that ends has the types of a block.                             *)
LEMMA EndTypes ==
  ASSUME TypeOK, NEW w \in Workers, EndBlock(w)
  PROVE  /\ stored' \in [Workers -> [Items -> Nat]]
         /\ locked' \in [Workers -> SUBSET Items]
         /\ touched' \in [Workers -> SUBSET Changes]
         /\ created' \in [Workers -> SUBSET Sales]
         /\ todo' \in [Workers -> SUBSET Elements]
         /\ doing' \in [Workers -> Sales \cup {None}]
         /\ line' \in [Workers -> Nat]
         /\ seen' \in [Workers -> Nat]
BY DEF TypeOK, EndBlock, NothingStored

(* The invariant holds when the model starts.                              *)
LEMMA SyncInit == Init => SyncInv
<1> SUFFICES ASSUME Init PROVE SyncInv
  OBVIOUS
<1>1. TypeOK
  BY DEF Init, TypeOK, Steps, NothingStored
<1>2. Made = {}
  BY DEF Init, Made, ToSet
<1> QED BY <1>1, <1>2 DEF Init, SyncInv, Position, PositionOf, Locks, BlockOf, Applied

(* Every action keeps the types.                                           *)
LEMMA TypeStep ==
  ASSUME SyncInv, [Next]_vars
  PROVE  TypeOK'
<1> USE DEF SyncInv, TypeOK, Position, PositionOf, Steps
<1>1. ASSUME NEW c \in Changes, MakeChange(c)
      PROVE  TypeOK'
  BY <1>1 DEF MakeChange, tables, sale, block
<1>2. ASSUME NEW w \in Workers, UploadSales(w)
      PROVE  TypeOK'
  BY <1>2 DEF UploadSales, Begin, GoTo, tables, sale, block, Elements
<1>3. ASSUME NEW w \in Workers, UploadChanges(w)
      PROVE  TypeOK'
  BY <1>3, MadeTypes DEF UploadChanges, Begin, GoTo, tables, sale, block, Elements
<1>4. ASSUME NEW w \in Workers, ResolveConflicts(w)
      PROVE  TypeOK'
  BY <1>4, MadeTypes DEF ResolveConflicts, Begin, GoTo, tables, sale, block, Elements
<1>5. ASSUME NEW w \in Workers, NEW s \in Sales, ReportDuplicate(w, s)
      PROVE  TypeOK'
  BY <1>5 DEF ReportDuplicate, ReportStored, tables, sale, block, Elements
<1>6. ASSUME NEW w \in Workers, NEW s \in Sales, CreateSale(w, s)
      PROVE  TypeOK'
  BY <1>6 DEF CreateSale, GoTo, tables
<1>7. ASSUME NEW w \in Workers, NEW s \in Sales, StoreUnpaid(w, s)
      PROVE  TypeOK'
  BY <1>7 DEF StoreUnpaid, ReportRefused, tables, sale
<1>8. ASSUME NEW w \in Workers, ReadItem(w)
      PROVE  TypeOK'
  <2>1. CurrentLine(w).item \in Items
    BY <1>8, LineTypes DEF ReadItem
  <2>2. Visible(w, CurrentLine(w).item) \in Nat
    BY <2>1, VisibleTypes
  <2> QED BY <1>8, <2>2 DEF ReadItem, GoTo, tables, block
<1>9. ASSUME NEW w \in Workers, WriteItem(w)
      PROVE  TypeOK'
  <2>1. CurrentLine(w).item \in Items /\ CurrentLine(w).qty \in Nat
    BY <1>9, LineTypes DEF WriteItem
  <2>2. seen[w] - CurrentLine(w).qty \in Nat
    BY <1>9, <2>1 DEF WriteItem
  <2>3. stored' \in [Workers -> [Items -> Nat]] /\ locked' \in [Workers -> SUBSET Items]
    BY <1>9, <2>1, <2>2, StoreTypes DEF WriteItem
  <2>4. line' \in [Workers -> Nat] /\ seen' \in [Workers -> Nat] /\ pc' \in [Workers -> Steps]
    BY <1>9 DEF WriteItem, GoTo
  <2> QED BY <1>9, <2>3, <2>4 DEF WriteItem, tables
<1>10. ASSUME NEW w \in Workers, FinishSale(w)
      PROVE  TypeOK'
  BY <1>10 DEF FinishSale, ReportStored, GoTo, tables, block, Elements
<1>11. ASSUME NEW w \in Workers, NEW c \in Changes, ReportConflict(w, c)
      PROVE  TypeOK'
  <2>1. Visible(w, Edit[c].item) \in Nat
    BY VisibleTypes, EditedTypes
  <2>2. stored' \in [Workers -> [Items -> Nat]] /\ locked' \in [Workers -> SUBSET Items]
    BY <1>11, <2>1, StoreTypes DEF ReportConflict
  <2>3. touched' \in [Workers -> SUBSET Changes]
    BY <1>11, MadeTypes DEF ReportConflict, MadeFor
  <2>4. todo' \in [Workers -> SUBSET Elements] /\ done' \in [Workers -> SUBSET Elements]
    BY <1>11 DEF ReportConflict, ReportRefused, Elements
  <2> QED BY <1>11, <2>2, <2>3, <2>4 DEF ReportConflict, tables, sale
<1>12. ASSUME NEW w \in Workers, NEW c \in Changes, ApplyChange(w, c)
      PROVE  TypeOK'
  <2>1. Edited(c, Visible(w, Edit[c].item)) \in Nat
    BY VisibleTypes, EditedTypes
  <2>2. stored' \in [Workers -> [Items -> Nat]] /\ locked' \in [Workers -> SUBSET Items]
    BY <1>12, <2>1, StoreTypes DEF ApplyChange
  <2>3. touched' \in [Workers -> SUBSET Changes]
    BY <1>12, MadeTypes DEF ApplyChange, MadeFor
  <2>4. todo' \in [Workers -> SUBSET Elements] /\ done' \in [Workers -> SUBSET Elements]
    BY <1>12 DEF ApplyChange, ReportStored, Elements
  <2> QED BY <1>12, <2>2, <2>3, <2>4 DEF ApplyChange, tables, sale
<1>13. ASSUME NEW w \in Workers, NEW c \in Changes, UseMobile(w, c)
      PROVE  TypeOK'
  <2>1. Edit[c].qty \in Nat
    BY VisibleTypes, EditedTypes
  <2>2. stored' \in [Workers -> [Items -> Nat]] /\ locked' \in [Workers -> SUBSET Items]
    BY <1>13, <2>1, StoreTypes DEF UseMobile
  <2>3. touched' \in [Workers -> SUBSET Changes]
    BY <1>13, MadeTypes DEF UseMobile, MadeFor
  <2>4. todo' \in [Workers -> SUBSET Elements] /\ done' \in [Workers -> SUBSET Elements]
    BY <1>13 DEF UseMobile, ReportRefused, Elements
  <2> QED BY <1>13, <2>2, <2>3, <2>4 DEF UseMobile, tables, sale
<1>14. ASSUME NEW w \in Workers, NEW c \in Changes, UseServer(w, c)
      PROVE  TypeOK'
  BY <1>14 DEF UseServer, ReportRefused, tables, sale, block
<1>15. ASSUME NEW w \in Workers, Commit(w)
      PROVE  TypeOK'
  <2>1. quantity' \in [Items -> Nat]
    BY <1>15, VisibleTypes DEF Commit
  <2>2. rows' \in [Sales -> Nat] /\ outdated' \in SUBSET Changes /\ applied' \in SUBSET Changes
    BY <1>15 DEF Commit
  <2> QED BY <1>15, <2>1, <2>2, EndTypes DEF Commit, GoTo
<1>16. ASSUME NEW w \in Workers, Abort(w)
      PROVE  TypeOK'
  BY <1>16, EndTypes DEF Abort, GoTo, tables
<1>17. ASSUME NEW w \in Workers, Reply(w)
      PROVE  TypeOK'
  BY <1>17 DEF Reply, GoTo, tables, sale, block
<1>18. ASSUME NEW w \in Workers, Fail(w)
      PROVE  TypeOK'
  BY <1>18, EndTypes DEF Fail, GoTo, tables
<1>19. CASE UNCHANGED vars
  BY <1>19 DEF vars, tables, sale, block
<1> QED BY <1>1, <1>2, <1>3, <1>4, <1>5, <1>6, <1>7, <1>8, <1>9, <1>10, <1>11, <1>12,
           <1>13, <1>14, <1>15, <1>16, <1>17, <1>18, <1>19
       DEF Next, Step

(* Every action keeps the position of its own request and of any other.    *)
LEMMA PositionStep ==
  ASSUME SyncInv, [Next]_vars, NEW v \in Workers
  PROVE  PositionOf(v)'
<1> USE DEF SyncInv, TypeOK, Position, PositionOf, Made
<1>1. ASSUME NEW c \in Changes, MakeChange(c)
      PROVE  PositionOf(v)'
  BY <1>1, MadeGrows DEF MakeChange, tables, sale, block
<1>2. ASSUME NEW w \in Workers, UploadSales(w)
      PROVE  PositionOf(v)'
  BY <1>2 DEF UploadSales, Begin, GoTo, tables, sale, block
<1>3. ASSUME NEW w \in Workers, UploadChanges(w)
      PROVE  PositionOf(v)'
  BY <1>3 DEF UploadChanges, Begin, GoTo, tables, sale, block
<1>4. ASSUME NEW w \in Workers, ResolveConflicts(w)
      PROVE  PositionOf(v)'
  BY <1>4 DEF ResolveConflicts, Begin, GoTo, tables, sale, block
<1>5. ASSUME NEW w \in Workers, NEW s \in Sales, ReportDuplicate(w, s)
      PROVE  PositionOf(v)'
  BY <1>5 DEF ReportDuplicate, ReportStored, tables, sale, block
<1>6. ASSUME NEW w \in Workers, NEW s \in Sales, CreateSale(w, s)
      PROVE  PositionOf(v)'
  BY <1>6 DEF CreateSale, GoTo, tables
<1>7. ASSUME NEW w \in Workers, NEW s \in Sales, StoreUnpaid(w, s)
      PROVE  PositionOf(v)'
  BY <1>7 DEF StoreUnpaid, ReportRefused, tables, sale
<1>8. ASSUME NEW w \in Workers, ReadItem(w)
      PROVE  PositionOf(v)'
  BY <1>8 DEF ReadItem, GoTo, tables, block
<1>9. ASSUME NEW w \in Workers, WriteItem(w)
      PROVE  PositionOf(v)'
  <2>1. line[w] + 1 <= Len(Lines[doing[w]])
    BY <1>9, LineTypes DEF WriteItem
  <2> QED BY <1>9, <2>1 DEF WriteItem, GoTo, tables
<1>10. ASSUME NEW w \in Workers, FinishSale(w)
      PROVE  PositionOf(v)'
  BY <1>10 DEF FinishSale, GoTo, ReportStored, tables, block
<1>11. ASSUME NEW w \in Workers, NEW c \in Changes, ReportConflict(w, c)
      PROVE  PositionOf(v)'
  BY <1>11 DEF ReportConflict, Store, ReportRefused, tables, sale
<1>12. ASSUME NEW w \in Workers, NEW c \in Changes, ApplyChange(w, c)
      PROVE  PositionOf(v)'
  BY <1>12 DEF ApplyChange, Store, ReportStored, tables, sale
<1>13. ASSUME NEW w \in Workers, NEW c \in Changes, UseMobile(w, c)
      PROVE  PositionOf(v)'
  BY <1>13 DEF UseMobile, Store, ReportRefused, tables, sale
<1>14. ASSUME NEW w \in Workers, NEW c \in Changes, UseServer(w, c)
      PROVE  PositionOf(v)'
  BY <1>14 DEF UseServer, ReportRefused, tables, sale, block
<1>15. ASSUME NEW w \in Workers, Commit(w)
      PROVE  PositionOf(v)'
  BY <1>15 DEF Commit, GoTo, EndBlock
<1>16. ASSUME NEW w \in Workers, Abort(w)
      PROVE  PositionOf(v)'
  BY <1>16 DEF Abort, GoTo, EndBlock, tables
<1>17. ASSUME NEW w \in Workers, Reply(w)
      PROVE  PositionOf(v)'
  BY <1>17 DEF Reply, GoTo, tables, sale, block
<1>18. ASSUME NEW w \in Workers, Fail(w)
      PROVE  PositionOf(v)'
  BY <1>18 DEF Fail, GoTo, EndBlock, tables
<1>19. CASE UNCHANGED vars
  BY <1>19 DEF vars, tables, sale, block
<1> QED BY <1>1, <1>2, <1>3, <1>4, <1>5, <1>6, <1>7, <1>8, <1>9, <1>10, <1>11, <1>12,
           <1>13, <1>14, <1>15, <1>16, <1>17, <1>18, <1>19
       DEF Next, Step

(* No two blocks lock an item.                                             *)
LEMMA LocksStep ==
  ASSUME SyncInv, [Next]_vars
  PROVE  Locks'
<1> USE DEF SyncInv, TypeOK, Locks
<1>1. ASSUME NEW c \in Changes, MakeChange(c)
      PROVE  Locks'
  BY <1>1 DEF MakeChange, tables, sale, block
<1>2. ASSUME NEW w \in Workers, UploadSales(w)
      PROVE  Locks'
  BY <1>2 DEF UploadSales, Begin, GoTo, tables, sale, block
<1>3. ASSUME NEW w \in Workers, UploadChanges(w)
      PROVE  Locks'
  BY <1>3 DEF UploadChanges, Begin, GoTo, tables, sale, block
<1>4. ASSUME NEW w \in Workers, ResolveConflicts(w)
      PROVE  Locks'
  BY <1>4 DEF ResolveConflicts, Begin, GoTo, tables, sale, block
<1>5. ASSUME NEW w \in Workers, NEW s \in Sales, ReportDuplicate(w, s)
      PROVE  Locks'
  BY <1>5 DEF ReportDuplicate, ReportStored, tables, sale, block
<1>6. ASSUME NEW w \in Workers, NEW s \in Sales, CreateSale(w, s)
      PROVE  Locks'
  BY <1>6 DEF CreateSale, GoTo, tables
<1>7. ASSUME NEW w \in Workers, NEW s \in Sales, StoreUnpaid(w, s)
      PROVE  Locks'
  BY <1>7 DEF StoreUnpaid, ReportRefused, tables, sale
<1>8. ASSUME NEW w \in Workers, ReadItem(w)
      PROVE  Locks'
  BY <1>8 DEF ReadItem, GoTo, tables, block
<1>9. ASSUME NEW w \in Workers, WriteItem(w)
      PROVE  Locks'
  <2>1. PICK i : /\ locked' = [locked EXCEPT ![w] = locked[w] \cup {i}]
                  /\ \A v \in Workers \ {w} : i \notin locked[v]
    BY <1>9 DEF WriteItem, Store, Free
  <2> QED BY <2>1
<1>10. ASSUME NEW w \in Workers, FinishSale(w)
      PROVE  Locks'
  BY <1>10 DEF FinishSale, GoTo, ReportStored, tables, block
<1>11. ASSUME NEW w \in Workers, NEW c \in Changes, ReportConflict(w, c)
      PROVE  Locks'
  <2>1. PICK i : /\ locked' = [locked EXCEPT ![w] = locked[w] \cup {i}]
                  /\ \A v \in Workers \ {w} : i \notin locked[v]
    BY <1>11 DEF ReportConflict, Store, Free
  <2> QED BY <2>1
<1>12. ASSUME NEW w \in Workers, NEW c \in Changes, ApplyChange(w, c)
      PROVE  Locks'
  <2>1. PICK i : /\ locked' = [locked EXCEPT ![w] = locked[w] \cup {i}]
                  /\ \A v \in Workers \ {w} : i \notin locked[v]
    BY <1>12 DEF ApplyChange, Store, Free
  <2> QED BY <2>1
<1>13. ASSUME NEW w \in Workers, NEW c \in Changes, UseMobile(w, c)
      PROVE  Locks'
  <2>1. PICK i : /\ locked' = [locked EXCEPT ![w] = locked[w] \cup {i}]
                  /\ \A v \in Workers \ {w} : i \notin locked[v]
    BY <1>13 DEF UseMobile, Store, Free
  <2> QED BY <2>1
<1>14. ASSUME NEW w \in Workers, NEW c \in Changes, UseServer(w, c)
      PROVE  Locks'
  BY <1>14 DEF UseServer, ReportRefused, tables, sale, block
<1>15. ASSUME NEW w \in Workers, Commit(w)
      PROVE  Locks'
  <2>1. locked' = [locked EXCEPT ![w] = {}]
    BY <1>15 DEF Commit, EndBlock
  <2> QED BY <2>1
<1>16. ASSUME NEW w \in Workers, Abort(w)
      PROVE  Locks'
  <2>1. locked' = [locked EXCEPT ![w] = {}]
    BY <1>16 DEF Abort, EndBlock
  <2> QED BY <2>1
<1>17. ASSUME NEW w \in Workers, Reply(w)
      PROVE  Locks'
  BY <1>17 DEF Reply, GoTo, tables, sale, block
<1>18. ASSUME NEW w \in Workers, Fail(w)
      PROVE  Locks'
  <2>1. locked' = [locked EXCEPT ![w] = {}]
    BY <1>18 DEF Fail, EndBlock
  <2> QED BY <2>1
<1>19. CASE UNCHANGED vars
  BY <1>19 DEF vars, tables, sale, block
<1> QED BY <1>1, <1>2, <1>3, <1>4, <1>5, <1>6, <1>7, <1>8, <1>9, <1>10, <1>11, <1>12,
           <1>13, <1>14, <1>15, <1>16, <1>17, <1>18, <1>19
       DEF Next, Step

(* Blocks stay the only ones at work on the items of their changes.        *)
LEMMA BlockStep ==
  ASSUME SyncInv, [Next]_vars, NEW v \in Workers
  PROVE  BlockOf(v)'
<1> USE DEF SyncInv, TypeOK, BlockOf
<1>1. ASSUME NEW c \in Changes, MakeChange(c)
      PROVE  BlockOf(v)'
  <2>1. /\ c \notin Made /\ Made' = Made \cup {c}
        /\ \A a, b : MadeBefore(a, b) => MadeBefore(a, b)'
        /\ \A a \in Made : MadeBefore(a, c)'
    BY <1>1, MadeGrows
  <2>2. /\ pc' = pc /\ done' = done /\ touched' = touched /\ locked' = locked
        /\ outdated' = outdated
    BY <1>1 DEF MakeChange, tables, sale, block
  <2>3. BlockOf(v) /\ (pc[v] = "changes" => done[v] \subseteq Made)
    BY DEF Position, PositionOf
  <2>4. ASSUME pc[v] = "changes", NEW d \in done[v], NEW a \in Made', Older(a, d)'
        PROVE  a \in touched[v]
    <3>1. CASE a \in Made
      <4>1. Older(a, d)
        BY <2>1, <2>4 DEF Older
      <4> QED BY <2>3, <2>4, <3>1, <4>1
    <3>2. CASE a = c
      <4>1. MadeBefore(d, c)'
        BY <2>1, <2>3, <2>4
      <4> QED BY <2>4, <3>2, <4>1 DEF Older
    <3> QED BY <2>1, <3>1, <3>2
  <2> QED BY <2>2, <2>3, <2>4
<1>2. ASSUME NEW w \in Workers, UploadSales(w)
      PROVE  BlockOf(v)'
  <2>1. made' = made /\ outdated' = outdated
    BY <1>2 DEF UploadSales, Begin, tables
  <2>2. \A a, b : Older(a, b)' <=> Older(a, b)
    BY <2>1 DEF Older, MadeBefore
  <2>3. Made' = Made
    BY <2>1 DEF Made
  <2> QED BY <1>2, <2>1, <2>2, <2>3 DEF UploadSales, Begin, GoTo, sale, block, Position, PositionOf
<1>3. ASSUME NEW w \in Workers, UploadChanges(w)
      PROVE  BlockOf(v)'
  <2>1. made' = made /\ outdated' = outdated
    BY <1>3 DEF UploadChanges, Begin, tables
  <2>2. \A a, b : Older(a, b)' <=> Older(a, b)
    BY <2>1 DEF Older, MadeBefore
  <2>3. Made' = Made
    BY <2>1 DEF Made
  <2> QED BY <1>3, <2>1, <2>2, <2>3 DEF UploadChanges, Begin, GoTo, sale, block, Position, PositionOf
<1>4. ASSUME NEW w \in Workers, ResolveConflicts(w)
      PROVE  BlockOf(v)'
  <2>1. made' = made /\ outdated' = outdated
    BY <1>4 DEF ResolveConflicts, Begin, tables
  <2>2. \A a, b : Older(a, b)' <=> Older(a, b)
    BY <2>1 DEF Older, MadeBefore
  <2>3. Made' = Made
    BY <2>1 DEF Made
  <2> QED BY <1>4, <2>1, <2>2, <2>3 DEF ResolveConflicts, Begin, GoTo, sale, block, Position, PositionOf
<1>5. ASSUME NEW w \in Workers, NEW s \in Sales, ReportDuplicate(w, s)
      PROVE  BlockOf(v)'
  <2>1. made' = made /\ outdated' = outdated
    BY <1>5 DEF ReportDuplicate, tables
  <2>2. \A a, b : Older(a, b)' <=> Older(a, b)
    BY <2>1 DEF Older, MadeBefore
  <2>3. Made' = Made
    BY <2>1 DEF Made
  <2> QED BY <1>5, <2>1, <2>2, <2>3 DEF ReportDuplicate, ReportStored, sale, block, Position, PositionOf
<1>6. ASSUME NEW w \in Workers, NEW s \in Sales, CreateSale(w, s)
      PROVE  BlockOf(v)'
  <2>1. made' = made /\ outdated' = outdated
    BY <1>6 DEF CreateSale, tables
  <2>2. \A a, b : Older(a, b)' <=> Older(a, b)
    BY <2>1 DEF Older, MadeBefore
  <2>3. Made' = Made
    BY <2>1 DEF Made
  <2> QED BY <1>6, <2>1, <2>2, <2>3 DEF CreateSale, GoTo, Position, PositionOf
<1>7. ASSUME NEW w \in Workers, NEW s \in Sales, StoreUnpaid(w, s)
      PROVE  BlockOf(v)'
  <2>1. made' = made /\ outdated' = outdated
    BY <1>7 DEF StoreUnpaid, tables
  <2>2. \A a, b : Older(a, b)' <=> Older(a, b)
    BY <2>1 DEF Older, MadeBefore
  <2>3. Made' = Made
    BY <2>1 DEF Made
  <2> QED BY <1>7, <2>1, <2>2, <2>3 DEF StoreUnpaid, ReportRefused, sale, Position, PositionOf
<1>8. ASSUME NEW w \in Workers, ReadItem(w)
      PROVE  BlockOf(v)'
  <2>1. made' = made /\ outdated' = outdated
    BY <1>8 DEF ReadItem, tables
  <2>2. \A a, b : Older(a, b)' <=> Older(a, b)
    BY <2>1 DEF Older, MadeBefore
  <2>3. Made' = Made
    BY <2>1 DEF Made
  <2> QED BY <1>8, <2>1, <2>2, <2>3 DEF ReadItem, GoTo, block, Position, PositionOf
<1>9. ASSUME NEW w \in Workers, WriteItem(w)
      PROVE  BlockOf(v)'
  <2>1. made' = made /\ outdated' = outdated
    BY <1>9 DEF WriteItem, tables
  <2>2. \A a, b : Older(a, b)' <=> Older(a, b)
    BY <2>1 DEF Older, MadeBefore
  <2>3. Made' = Made
    BY <2>1 DEF Made
  <2> QED BY <1>9, <2>1, <2>2, <2>3 DEF WriteItem, Store, GoTo, Position, PositionOf
<1>10. ASSUME NEW w \in Workers, FinishSale(w)
      PROVE  BlockOf(v)'
  <2>1. made' = made /\ outdated' = outdated
    BY <1>10 DEF FinishSale, tables
  <2>2. \A a, b : Older(a, b)' <=> Older(a, b)
    BY <2>1 DEF Older, MadeBefore
  <2>3. Made' = Made
    BY <2>1 DEF Made
  <2> QED BY <1>10, <2>1, <2>2, <2>3 DEF FinishSale, ReportStored, GoTo, block, Position, PositionOf
<1>11. ASSUME NEW w \in Workers, NEW c \in Changes, ReportConflict(w, c)
      PROVE  BlockOf(v)'
  <2>1. made' = made /\ outdated' = outdated
    BY <1>11 DEF ReportConflict, tables
  <2>2. \A a, b : Older(a, b)' <=> Older(a, b)
    BY <2>1 DEF Older, MadeBefore
  <2>3. Made' = Made
    BY <2>1 DEF Made
  <2> QED BY <1>11, <2>1, <2>2, <2>3 DEF ReportConflict, Store, ReportRefused, sale, Position, PositionOf
<1>12. ASSUME NEW w \in Workers, NEW c \in Changes, ApplyChange(w, c)
      PROVE  BlockOf(v)'
  <2>1. made' = made /\ outdated' = outdated
    BY <1>12 DEF ApplyChange, tables
  <2>2. \A a, b : Older(a, b)' <=> Older(a, b)
    BY <2>1 DEF Older, MadeBefore
  <2>3. Made' = Made
    BY <2>1 DEF Made
  <2> DEFINE i == Edit[c].item
  <2>4. /\ pc' = pc /\ pc[w] = "changes"
        /\ touched' = [touched EXCEPT ![w] = touched[w] \cup MadeFor(i)]
        /\ locked' = [locked EXCEPT ![w] = locked[w] \cup {i}]
        /\ done' = [done EXCEPT ![w] = done[w] \cup {c}]
        /\ c \in todo[w] /\ c \notin outdated
    BY <1>12 DEF ApplyChange, Store, ReportStored
  <2>5. c \in Made
    BY <2>4 DEF Position, PositionOf
  <2>6. CASE v = w
    <3>1. \A x \in touched'[w] : Edit[x].item \in locked'[w]
      BY <2>4 DEF MadeFor
    <3>2. c \in touched'[w] /\ \A a \in Made : Older(a, c) => a \in touched'[w]
      BY <2>4, <2>5 DEF MadeFor, Older
    <3>3. \A d \in done[w] : d \in touched'[w] \ outdated
            /\ \A a \in Made : Older(a, d) => a \in touched'[w]
      BY <2>4
    <3> HIDE DEF SyncInv
    <3> QED BY <2>1, <2>2, <2>3, <2>4, <2>6, <3>1, <3>2, <3>3
  <2>7. CASE v # w
    BY <2>1, <2>2, <2>3, <2>4, <2>7
  <2> QED BY <2>6, <2>7
<1>13. ASSUME NEW w \in Workers, NEW c \in Changes, UseMobile(w, c)
      PROVE  BlockOf(v)'
  <2>1. made' = made /\ outdated' = outdated
    BY <1>13 DEF UseMobile, tables
  <2>2. \A a, b : Older(a, b)' <=> Older(a, b)
    BY <2>1 DEF Older, MadeBefore
  <2>3. Made' = Made
    BY <2>1 DEF Made
  <2> QED BY <1>13, <2>1, <2>2, <2>3 DEF UseMobile, Store, ReportRefused, sale, Position, PositionOf
<1>14. ASSUME NEW w \in Workers, NEW c \in Changes, UseServer(w, c)
      PROVE  BlockOf(v)'
  <2>1. made' = made /\ outdated' = outdated
    BY <1>14 DEF UseServer, tables
  <2>2. \A a, b : Older(a, b)' <=> Older(a, b)
    BY <2>1 DEF Older, MadeBefore
  <2>3. Made' = Made
    BY <2>1 DEF Made
  <2> QED BY <1>14, <2>1, <2>2, <2>3 DEF UseServer, ReportRefused, sale, block, Position, PositionOf
<1>15. ASSUME NEW w \in Workers, Commit(w)
      PROVE  BlockOf(v)'
  <2>1. made' = made /\ outdated' = outdated \cup touched[w]
    BY <1>15 DEF Commit
  <2>2. \A a, b : Older(a, b)' <=> Older(a, b)
    BY <2>1 DEF Older, MadeBefore
  <2>3. Made' = Made
    BY <2>1 DEF Made
  <2>4. /\ pc' = [pc EXCEPT ![w] = "reply"] /\ done' = done
        /\ touched' = [touched EXCEPT ![w] = {}] /\ locked' = [locked EXCEPT ![w] = {}]
    BY <1>15 DEF Commit, EndBlock, GoTo
  <2>5. CASE v = w
    BY <2>4, <2>5
  <2>6. CASE v # w
    <3>1. ASSUME NEW d \in touched[v] PROVE d \notin touched[w]
      <4>1. BlockOf(v) /\ BlockOf(w) /\ locked[v] \cap locked[w] = {}
        BY <2>6 DEF Locks
      <4>2. Edit[d].item \in locked[v] /\ (d \in touched[w] => Edit[d].item \in locked[w])
        BY <4>1
      <4> HIDE DEF SyncInv
      <4> QED BY <4>1, <4>2
    <3> QED BY <2>1, <2>2, <2>3, <2>4, <2>6, <3>1
  <2> QED BY <2>5, <2>6
<1>16. ASSUME NEW w \in Workers, Abort(w)
      PROVE  BlockOf(v)'
  <2>1. made' = made /\ outdated' = outdated
    BY <1>16 DEF Abort, tables
  <2>2. \A a, b : Older(a, b)' <=> Older(a, b)
    BY <2>1 DEF Older, MadeBefore
  <2>3. Made' = Made
    BY <2>1 DEF Made
  <2> QED BY <1>16, <2>1, <2>2, <2>3 DEF Abort, EndBlock, GoTo, Position, PositionOf
<1>17. ASSUME NEW w \in Workers, Reply(w)
      PROVE  BlockOf(v)'
  <2>1. made' = made /\ outdated' = outdated
    BY <1>17 DEF Reply, tables
  <2>2. \A a, b : Older(a, b)' <=> Older(a, b)
    BY <2>1 DEF Older, MadeBefore
  <2>3. Made' = Made
    BY <2>1 DEF Made
  <2> QED BY <1>17, <2>1, <2>2, <2>3 DEF Reply, GoTo, sale, block, Position, PositionOf
<1>18. ASSUME NEW w \in Workers, Fail(w)
      PROVE  BlockOf(v)'
  <2>1. made' = made /\ outdated' = outdated
    BY <1>18 DEF Fail, tables
  <2>2. \A a, b : Older(a, b)' <=> Older(a, b)
    BY <2>1 DEF Older, MadeBefore
  <2>3. Made' = Made
    BY <2>1 DEF Made
  <2> QED BY <1>18, <2>1, <2>2, <2>3 DEF Fail, EndBlock, GoTo, Position, PositionOf
<1>19. CASE UNCHANGED vars
  BY <1>19 DEF vars, tables, sale, block, Made, Older, MadeBefore
<1> QED BY <1>1, <1>2, <1>3, <1>4, <1>5, <1>6, <1>7, <1>8, <1>9, <1>10, <1>11, <1>12,
           <1>13, <1>14, <1>15, <1>16, <1>17, <1>18, <1>19
       DEF Next, Step

(* What is older than a change made to an item stays outdated.             *)
LEMMA AppliedStep ==
  ASSUME SyncInv, [Next]_vars
  PROVE  Applied'
<1> USE DEF SyncInv, TypeOK, Applied
<1>1. ASSUME NEW c \in Changes, MakeChange(c)
      PROVE  Applied'
  <2>1. /\ c \notin Made /\ Made' = Made \cup {c}
        /\ \A a, b : MadeBefore(a, b) => MadeBefore(a, b)'
        /\ \A a \in Made : MadeBefore(a, c)'
    BY <1>1, MadeGrows
  <2>2. applied' = applied /\ outdated' = outdated
    BY <1>1 DEF MakeChange, tables
  <2>3. ASSUME NEW d \in applied, NEW a \in Made', Older(a, d)'
        PROVE  a \in outdated
    <3>1. CASE a \in Made
      <4>1. Older(a, d)
        BY <2>1, <2>3 DEF Older
      <4> QED BY <2>3, <3>1, <4>1
    <3>2. CASE a = c
      BY <2>1, <2>3, <3>2 DEF Older
    <3> QED BY <2>1, <3>1, <3>2
  <2> QED BY <2>1, <2>2, <2>3
<1>2. ASSUME NEW w \in Workers, UploadSales(w)
      PROVE  Applied'
  BY <1>2 DEF UploadSales, Begin, tables, Made, Older, MadeBefore
<1>3. ASSUME NEW w \in Workers, UploadChanges(w)
      PROVE  Applied'
  BY <1>3 DEF UploadChanges, Begin, tables, Made, Older, MadeBefore
<1>4. ASSUME NEW w \in Workers, ResolveConflicts(w)
      PROVE  Applied'
  BY <1>4 DEF ResolveConflicts, Begin, tables, Made, Older, MadeBefore
<1>5. ASSUME NEW w \in Workers, NEW s \in Sales, ReportDuplicate(w, s)
      PROVE  Applied'
  BY <1>5 DEF ReportDuplicate, tables, Made, Older, MadeBefore
<1>6. ASSUME NEW w \in Workers, NEW s \in Sales, CreateSale(w, s)
      PROVE  Applied'
  BY <1>6 DEF CreateSale, tables, Made, Older, MadeBefore
<1>7. ASSUME NEW w \in Workers, NEW s \in Sales, StoreUnpaid(w, s)
      PROVE  Applied'
  BY <1>7 DEF StoreUnpaid, tables, Made, Older, MadeBefore
<1>8. ASSUME NEW w \in Workers, ReadItem(w)
      PROVE  Applied'
  BY <1>8 DEF ReadItem, tables, Made, Older, MadeBefore
<1>9. ASSUME NEW w \in Workers, WriteItem(w)
      PROVE  Applied'
  BY <1>9 DEF WriteItem, tables, Made, Older, MadeBefore
<1>10. ASSUME NEW w \in Workers, FinishSale(w)
      PROVE  Applied'
  BY <1>10 DEF FinishSale, tables, Made, Older, MadeBefore
<1>11. ASSUME NEW w \in Workers, NEW c \in Changes, ReportConflict(w, c)
      PROVE  Applied'
  BY <1>11 DEF ReportConflict, tables, Made, Older, MadeBefore
<1>12. ASSUME NEW w \in Workers, NEW c \in Changes, ApplyChange(w, c)
      PROVE  Applied'
  BY <1>12 DEF ApplyChange, tables, Made, Older, MadeBefore
<1>13. ASSUME NEW w \in Workers, NEW c \in Changes, UseMobile(w, c)
      PROVE  Applied'
  BY <1>13 DEF UseMobile, tables, Made, Older, MadeBefore
<1>14. ASSUME NEW w \in Workers, NEW c \in Changes, UseServer(w, c)
      PROVE  Applied'
  BY <1>14 DEF UseServer, tables, Made, Older, MadeBefore
<1>15. ASSUME NEW w \in Workers, Commit(w)
      PROVE  Applied'
  <2> DEFINE new == {c \in Changes : pc[w] = "changes" /\ c \in done[w]}
  <2>1. made' = made /\ outdated' = outdated \cup touched[w] /\ applied' = applied \cup new
    BY <1>15 DEF Commit
  <2>2. \A a, b : Older(a, b)' <=> Older(a, b)
    BY <2>1 DEF Older, MadeBefore
  <2>3. Made' = Made
    BY <2>1 DEF Made
  <2>4. new \subseteq Made
    BY DEF Position, PositionOf
  <2>5. new \subseteq touched[w] /\ \A d \in new, c \in Made : Older(c, d) => c \in touched[w]
    BY DEF BlockOf
  <2> HIDE DEF new
  <2> QED BY <2>1, <2>2, <2>3, <2>4, <2>5
<1>16. ASSUME NEW w \in Workers, Abort(w)
      PROVE  Applied'
  BY <1>16 DEF Abort, tables, Made, Older, MadeBefore
<1>17. ASSUME NEW w \in Workers, Reply(w)
      PROVE  Applied'
  BY <1>17 DEF Reply, tables, Made, Older, MadeBefore
<1>18. ASSUME NEW w \in Workers, Fail(w)
      PROVE  Applied'
  BY <1>18 DEF Fail, tables, Made, Older, MadeBefore
<1>19. CASE UNCHANGED vars
  BY <1>19 DEF vars, tables, sale, block, Made, Older, MadeBefore
<1> QED BY <1>1, <1>2, <1>3, <1>4, <1>5, <1>6, <1>7, <1>8, <1>9, <1>10, <1>11, <1>12,
           <1>13, <1>14, <1>15, <1>16, <1>17, <1>18, <1>19
       DEF Next, Step


(* The invariant is inductive, and holds in every reachable state.         *)
LEMMA SyncStep ==
  ASSUME SyncInv, [Next]_vars
  PROVE  SyncInv'
BY TypeStep, PositionStep, LocksStep, BlockStep, AppliedStep DEF SyncInv, Position

(* The inductive invariant holds for every number of requests.             *)
THEOREM SyncInvariant == Spec => []SyncInv
<1>1. Init => SyncInv
  BY SyncInit
<1>2. SyncInv /\ [Next]_vars => SyncInv'
  BY SyncStep
<1> QED BY <1>1, <1>2, PTL DEF Spec

(* Uploading keeps its types.                                              *)
THEOREM SyncTypes == Spec => []TypeOK
BY SyncInvariant, PTL DEF SyncInv

(* select_for_update and updated_at make the changes of an item happen in  *)
(* the order they were made, however devices upload and requests overlap.  *)
THEOREM NewestChangeWins == Spec => NewestWins
<1> DEFINE Ordered == \A c \in applied' \ applied, d \in applied :
                        Edit[c].item = Edit[d].item => MadeBefore(d, c)
<1>1. ASSUME SyncInv, [Next]_vars PROVE [Ordered]_vars
  <2>1. CASE applied' = applied
    BY <2>1
  <2>2. ASSUME NEW w \in Workers, Commit(w) PROVE Ordered
    <3>1. SUFFICES ASSUME NEW c \in applied' \ applied, NEW d \in applied,
                          Edit[c].item = Edit[d].item
                   PROVE  MadeBefore(d, c)
      OBVIOUS
    <3>2. c \in done[w] /\ pc[w] = "changes"
      BY <2>2 DEF Commit
    <3>3. c \notin outdated /\ c \in Made
      BY <1>1, <3>2 DEF SyncInv, BlockOf, Position, PositionOf
    <3> QED BY <1>1, <3>1, <3>3 DEF SyncInv, Applied, Older
  <2>3. applied' = applied \/ \E w \in Workers : Commit(w)
    BY <1>1 DEF Next, Step, MakeChange, UploadSales, UploadChanges, ResolveConflicts, Begin,
                ReportDuplicate, CreateSale, StoreUnpaid, ReadItem, WriteItem, FinishSale,
                ReportConflict, ApplyChange, UseMobile, UseServer, Abort, Reply, Fail, vars
  <2> QED BY <2>1, <2>2, <2>3
<1> QED BY <1>1, SyncInvariant, PTL DEF Spec, NewestWins
-----------------------------------------------------------------------------
(* The shelf: batches happen one at a time, and as a whole                 *)

OneWorker == \A v, w \in Workers : v = w

LineNumbers(S) == AbstractShelf!LineNumbers(S)

LineQty == [n \in Sales \X Nat |-> Lines[n[1]][n[2]].qty]

UnitsOf(X, i) == SumOver(LineQty, {n \in X : Lines[n[1]][n[2]].item = i})

(* The lines a block has taken from the stock that has created the sales   *)
(* of C and handled the first k lines of sale d.                           *)
Sold(C, d, k) == {n \in LineNumbers(C \ Underpaid) : n[1] = d => n[2] <= k}

SoldBy(w) == Sold(created[w], doing[w], line[w])

(* A block stores what its batch makes of the quantities that are there.   *)
Resting(w) ==
  /\ pc[w] \in {"idle", "reply"} => locked[w] = {}
  /\ pc[w] \notin {"sales", "read", "write"} => created[w] = {}
  /\ pc[w] \notin {"read", "write"} => doing[w] = None

Adjusting(w) == pc[w] = "changes" =>
  /\ \A d \in done[w], c \in todo[w] : Edit[c].item = Edit[d].item => c \in touched[w]
  /\ \A c, d \in done[w] : Edit[c].item = Edit[d].item => c = d
  /\ \A c \in done[w] : stored[w][Edit[c].item] = Edited(c, quantity[Edit[c].item])
  /\ \A i \in locked[w] : (\A c \in done[w] : Edit[c].item # i) => stored[w][i] = quantity[i]

Settling(w) == pc[w] = "resolve" => \A i \in locked[w] :
  stored[w][i] \in {quantity[i]} \cup {Edit[c].qty : c \in {d \in Changes : Edit[d].item = i}}

Selling(w) == pc[w] \in {"sales", "read", "write"} =>
  /\ Sales # {}
  /\ IsFiniteSet(SoldBy(w))
  /\ \A i \in Items : Visible(w, i) = quantity[i] - UnitsOf(SoldBy(w), i)
  /\ \A s \in created[w] : rows[s] = 0
  /\ pc[w] = "write" => seen[w] = Visible(w, CurrentLine(w).item)
  /\ IF pc[w] = "sales"
     THEN todo[w] \cap created[w] = {}
     ELSE doing[w] \notin Underpaid /\ todo[w] \cap created[w] = {doing[w]}

InBlock(w) == Resting(w) /\ Adjusting(w) /\ Settling(w) /\ Selling(w)

ShelfInv == SyncInv /\ \A w \in Workers : InBlock(w)

(* A line number is a sale and one of its lines.                           *)
LEMMA LineNumbersOf ==
  ASSUME NEW S \in SUBSET Sales, NEW n
  PROVE  n \in LineNumbers(S) <=>
           n \in Sales \X Nat /\ n[1] \in S /\ n[2] \in 1..Len(Lines[n[1]])
<1>1. n \in LineNumbers(S) <=> \E s \in S : n \in {s} \X DOMAIN Lines[s]
  BY DEF LineNumbers, AbstractShelf!LineNumbers
<1>2. \A s \in S : n \in {s} \X DOMAIN Lines[s] <=>
        n \in Sales \X Nat /\ n[1] = s /\ n[2] \in 1..Len(Lines[s])
  OBVIOUS
<1> QED BY <1>1, <1>2

(* No line sells nothing.                                                  *)
LEMMA UnitsOfNone ==
  ASSUME NEW i
  PROVE  UnitsOf({}, i) = 0
<1>1. {n \in {} : Lines[n[1]][n[2]].item = i} = {}
  OBVIOUS
<1> QED BY <1>1, SumEmpty DEF UnitsOf

(* One line more adds its units to those of its item.                      *)
LEMMA UnitsOfOneMore ==
  ASSUME NEW X \in SUBSET LineNumbers(Sales), IsFiniteSet(X), NEW i \in Items,
         NEW m \in LineNumbers(Sales), m \notin X
  PROVE  /\ UnitsOf(X, i) \in Nat
         /\ UnitsOf(X \cup {m}, i) = UnitsOf(X, i) +
              (IF Lines[m[1]][m[2]].item = i THEN Lines[m[1]][m[2]].qty ELSE 0)
<1> DEFINE Of(Y) == {n \in Y : Lines[n[1]][n[2]].item = i}
<1>1. \A n \in X \cup {m} : n \in Sales \X Nat /\ n[1] \in Sales /\ n[2] \in 1..Len(Lines[n[1]])
  BY LineNumbersOf
<1>2. \A n \in X \cup {m} : LineQty[n] = Lines[n[1]][n[2]].qty /\ LineQty[n] \in Nat
  BY <1>1 DEF LineQty
<1>3. IsFiniteSet(Of(X))
  <2>1. Of(X) \subseteq X
    OBVIOUS
  <2> QED BY <2>1, FS_Subset
<1>4. \A n \in Of(X) \cup {m} : LineQty[n] \in Nat /\ LineQty[n] \in Int
  BY <1>2
<1>5. m \notin Of(X)
  OBVIOUS
<1>6. UnitsOf(X, i) = SumOver(LineQty, Of(X)) /\ UnitsOf(X \cup {m}, i) = SumOver(LineQty, Of(X \cup {m}))
  BY DEF UnitsOf
<1>7. Lines[m[1]][m[2]].item = i => Of(X \cup {m}) = Of(X) \cup {m}
  OBVIOUS
<1>8. Lines[m[1]][m[2]].item # i => Of(X \cup {m}) = Of(X)
  OBVIOUS
<1> HIDE DEF Of
<1>9. SumOver(LineQty, Of(X)) \in Nat
  BY <1>3, <1>4, SumType
<1>10. SumOver(LineQty, Of(X) \cup {m}) = LineQty[m] + SumOver(LineQty, Of(X))
  BY <1>3, <1>4, <1>5, SumAdd
<1>11. UnitsOf(X, i) \in Nat
  BY <1>6, <1>9
<1>12. Lines[m[1]][m[2]].item = i => UnitsOf(X \cup {m}, i) = UnitsOf(X, i) + Lines[m[1]][m[2]].qty
  <2>1. LineQty[m] = Lines[m[1]][m[2]].qty /\ LineQty[m] \in Nat
    BY <1>2
  <2> HIDE DEF UnitsOf
  <2>2. SUFFICES ASSUME Lines[m[1]][m[2]].item = i
                 PROVE  UnitsOf(X \cup {m}, i) = UnitsOf(X, i) + LineQty[m]
    BY <2>1
  <2>3. UnitsOf(X \cup {m}, i) = SumOver(LineQty, Of(X) \cup {m})
    BY <1>6, <1>7, <2>2
  <2> QED BY <1>6, <1>9, <1>10, <2>1, <2>3
<1>13. Lines[m[1]][m[2]].item # i => UnitsOf(X \cup {m}, i) = UnitsOf(X, i)
  BY <1>6, <1>8
<1> QED BY <1>11, <1>12, <1>13

(* Units are counted.                                                      *)
LEMMA UnitsTypes ==
  ASSUME NEW X \in SUBSET LineNumbers(Sales), IsFiniteSet(X), NEW i
  PROVE  UnitsOf(X, i) \in Nat
<1> DEFINE Y == {n \in X : Lines[n[1]][n[2]].item = i}
<1>1. \A n \in Y : LineQty[n] \in Nat
  BY LineNumbersOf DEF LineQty
<1>2. IsFiniteSet(Y)
  <2>1. Y \subseteq X
    OBVIOUS
  <2> QED BY <2>1, FS_Subset
<1> HIDE DEF Y
<1>3. SumOver(LineQty, Y) \in Nat
  BY <1>1, <1>2, SumType
<1> QED BY <1>3 DEF UnitsOf, Y

(* The shelf adds up the same units.                                       *)
LEMMA UnitsSoldOf ==
  ASSUME NEW S \in SUBSET Sales, IsFiniteSet(LineNumbers(S \ Underpaid)), NEW i
  PROVE  AbstractShelf!UnitsSold(S, i) = UnitsOf(LineNumbers(S \ Underpaid), i)
<1> DEFINE X == {n \in LineNumbers(S \ Underpaid) : Lines[n[1]][n[2]].item = i}
           Sum(g) == g = [s \in SUBSET X |->
             IF s = {} THEN 0 ELSE Lines[Pick(s)[1]][Pick(s)[2]].qty + g[s \ {Pick(s)}]]
<1>1. AbstractShelf!UnitsSold(S, i) = (CHOOSE g : Sum(g))[X]
  BY DEF AbstractShelf!UnitsSold, AbstractShelf!MapThenSumSet, AbstractShelf!MapThenFoldSet,
         LineNumbers, Pick
<1>2. IsFiniteSet(X)
  <2>1. X \subseteq LineNumbers(S \ Underpaid)
    OBVIOUS
  <2> QED BY <2>1, FS_Subset
<1>3. \A n \in X : LineQty[n] = Lines[n[1]][n[2]].qty
  <2>1. S \ Underpaid \in SUBSET Sales
    OBVIOUS
  <2> QED BY <2>1, LineNumbersOf DEF LineQty
<1>4. \A s \in SUBSET X : s # {} => LineQty[Pick(s)] = Lines[Pick(s)[1]][Pick(s)[2]].qty
  BY <1>3 DEF Pick
<1> DEFINE T == SUBSET X
<1>5. \A g : Sum(g) <=> Adds(g, LineQty, X)
  BY <1>4 DEF Adds
<1>6. PICK h : Adds(h, LineQty, X)
  BY <1>2, TableExists
<1> HIDE DEF X
<1>7. Adds(CHOOSE g : Sum(g), LineQty, X)
  <2> HIDE DEF Sum
  <2> QED BY <1>5, <1>6
<1> HIDE DEF Sum
<1>8. (CHOOSE g : Sum(g))[X] = SumOver(LineQty, X)
  <2>1. Adds(CHOOSE g : Adds(g, LineQty, X), LineQty, X)
    BY <1>6
  <2> QED BY <1>2, <1>7, <2>1, TablesAgree, SumDef
<1> QED BY <1>1, <1>8 DEF UnitsOf, X

(* What is sold when a sale is created, a line handled, a sale finished.   *)
LEMMA SoldOf ==
  ASSUME NEW C \in SUBSET Sales, NEW d, NEW k, NEW n
  PROVE  n \in Sold(C, d, k) <=>
           /\ n \in Sales \X Nat /\ n[1] \in C \ Underpaid /\ n[2] \in 1..Len(Lines[n[1]])
           /\ n[1] = d => n[2] <= k
<1>1. C \ Underpaid \in SUBSET Sales
  OBVIOUS
<1> QED BY <1>1, LineNumbersOf DEF Sold

(* Without a sale at hand, the lines of all created sales are sold.        *)
LEMMA SoldNone ==
  ASSUME NEW C \in SUBSET Sales, NEW d, NEW k
  PROVE  /\ Sold({}, d, k) = {}
         /\ Sold(C, None, k) = LineNumbers(C \ Underpaid)
         /\ Sold(C, d, k) \in SUBSET LineNumbers(Sales)
<1>1. \A n : n \notin Sold({}, d, k)
  BY SoldOf
<1>2. \A n \in LineNumbers(C \ Underpaid) : n[1] # None
  <2>1. C \ Underpaid \in SUBSET Sales
    OBVIOUS
  <2> QED BY <2>1, LineNumbersOf
<1>3. \A n \in Sold(C, d, k) : n \in LineNumbers(Sales)
  BY SoldOf, LineNumbersOf
<1> QED BY <1>1, <1>2, <1>3 DEF Sold

(* A sale that was just created has sold nothing yet.                      *)
LEMMA SoldStart ==
  ASSUME NEW C \in SUBSET Sales, NEW s \in Sales \ C
  PROVE  Sold(C \cup {s}, s, 0) = Sold(C, None, 0)
<1>1. C \cup {s} \in SUBSET Sales
  OBVIOUS
<1>2. \A n : n \in Sold(C \cup {s}, s, 0) <=> n \in Sold(C, None, 0)
  BY <1>1, SoldOf
<1> QED BY <1>2 DEF Sold

(* A sale that was not paid sells nothing.                                 *)
LEMMA SoldUnpaid ==
  ASSUME NEW C \in SUBSET Sales, NEW s \in Underpaid, NEW d, NEW k
  PROVE  Sold(C \cup {s}, d, k) = Sold(C, d, k)
<1>1. (C \cup {s}) \ Underpaid = C \ Underpaid
  OBVIOUS
<1> QED BY <1>1 DEF Sold

(* Handling the next line of a sale sells that line and no other.          *)
LEMMA SoldLine ==
  ASSUME NEW C \in SUBSET Sales, NEW s \in C \ Underpaid, NEW k \in Nat, k < Len(Lines[s])
  PROVE  /\ <<s, k + 1>> \in LineNumbers(Sales) \ Sold(C, s, k)
         /\ Sold(C, s, k + 1) = Sold(C, s, k) \cup {<<s, k + 1>>}
<1> DEFINE m == <<s, k + 1>>
<1>1. m \in Sales \X Nat /\ m[1] = s /\ m[2] = k + 1 /\ k + 1 \in 1..Len(Lines[s])
  OBVIOUS
<1>2. m \in LineNumbers(Sales)
  BY <1>1, LineNumbersOf
<1>3. m \notin Sold(C, s, k)
  BY <1>1, SoldOf
<1>4. \A n : n \in Sold(C, s, k + 1) <=> (n \in Sold(C, s, k) \/ n = m)
  <2>1. ASSUME NEW n \in Sold(C, s, k + 1), n \notin Sold(C, s, k) PROVE n = m
    <3>1. n \in Sales \X Nat /\ n[1] = s /\ n[2] <= k + 1 /\ ~(n[2] <= k)
      BY <2>1, SoldOf
    <3> QED BY <3>1
  <2>2. ASSUME NEW n \in Sold(C, s, k) PROVE n \in Sold(C, s, k + 1)
    <3>1. /\ n \in Sales \X Nat /\ n[1] \in C \ Underpaid /\ n[2] \in 1..Len(Lines[n[1]])
          /\ n[1] = s => n[2] <= k
      BY <2>2, SoldOf
    <3>2. n[1] = s => n[2] <= k + 1
      BY <3>1
    <3> QED BY <3>1, <3>2, SoldOf
  <2>3. m \in Sold(C, s, k + 1)
    BY <1>1, SoldOf
  <2> QED BY <2>1, <2>2, <2>3
<1> QED BY <1>2, <1>3, <1>4 DEF Sold

(* With its last line a sale is sold.                                      *)
LEMMA SoldAll ==
  ASSUME NEW C \in SUBSET Sales, NEW s \in C
  PROVE  Sold(C, s, Len(Lines[s])) = Sold(C, None, 0)
<1>1. \A n : n \in Sold(C, s, Len(Lines[s])) <=> n \in Sold(C, None, 0)
  BY SoldOf
<1> QED BY <1>1 DEF Sold

(* A request stays where it is while others work.                          *)
LEMMA Apart ==
  ASSUME NEW v \in Workers, InBlock(v),
         pc'[v] = pc[v], todo'[v] = todo[v], doing'[v] = doing[v], line'[v] = line[v],
         seen'[v] = seen[v], stored'[v] = stored[v], locked'[v] = locked[v],
         touched'[v] = touched[v], created'[v] = created[v], done'[v] = done[v],
         \A i \in locked[v] : quantity'[i] = quantity[i],
         \A c \in done[v] : pc[v] = "changes" => Edit[c].item \in locked[v],
         pc[v] \in {"sales", "read", "write"} => quantity' = quantity /\ rows' = rows
  PROVE  InBlock(v)'
<1>1. Resting(v)'
  BY DEF InBlock, Resting
<1>2. Adjusting(v)'
  BY DEF InBlock, Adjusting
<1>3. Settling(v)'
  BY DEF InBlock, Settling
<1>4. Selling(v)'
  BY DEF InBlock, Selling, SoldBy, Visible, CurrentLine
<1> QED BY <1>1, <1>2, <1>3, <1>4 DEF InBlock

(* The invariant of the refinement holds initially.                        *)
LEMMA ShelfInit == Init => ShelfInv
BY SyncInit DEF Init, ShelfInv, InBlock, Resting, Adjusting, Settling, Selling

(* Every block keeps storing what its batch makes of the quantities.        *)
LEMMA InBlockStep ==
  ASSUME ShelfInv, Sales = {} \/ OneWorker, [Next]_vars, NEW v \in Workers
  PROVE  InBlock(v)'
<1> USE DEF ShelfInv, SyncInv, TypeOK
<1>0. /\ InBlock(v) /\ BlockOf(v)
      /\ \A c \in done[v] : pc[v] = "changes" => Edit[c].item \in locked[v]
  BY DEF BlockOf
<1>1. ASSUME NEW c \in Changes, MakeChange(c)
      PROVE  InBlock(v)'
  <2>1. UNCHANGED <<quantity, rows, pc, todo, doing, line, seen, stored, locked, touched,
                    created, done>>
    BY <1>1 DEF MakeChange, tables, sale, block
  <2> QED BY <1>0, <2>1, Apart
<1>2. ASSUME NEW w \in Workers, UploadSales(w)
      PROVE  InBlock(v)'
  <2>1. CASE v # w
    <3>1. /\ pc'[v] = pc[v] /\ todo'[v] = todo[v] /\ doing'[v] = doing[v] /\ line'[v] = line[v]
          /\ seen'[v] = seen[v] /\ stored'[v] = stored[v] /\ locked'[v] = locked[v]
          /\ touched'[v] = touched[v] /\ created'[v] = created[v] /\ done'[v] = done[v]
          /\ quantity' = quantity /\ rows' = rows
      BY <1>2, <2>1 DEF UploadSales, Begin, GoTo, tables, sale, block, TypeOK
    <3> QED BY <1>0, <3>1, Apart
  <2>2. CASE v = w
    <3>1. /\ pc[w] = "idle" /\ pc'[w] = "sales" /\ Sales # {} /\ quantity' = quantity
          /\ locked'[w] = {} /\ created'[w] = {} /\ doing'[w] = None
      BY <1>2, <1>0, <2>2 DEF UploadSales, Begin, GoTo, tables, sale, block, InBlock, Resting
    <3>2. SoldBy(w)' = {}
      BY <3>1, SoldNone DEF SoldBy
    <3>3. \A i \in Items : Visible(w, i)' = quantity[i] /\ quantity[i] \in Nat
      BY <3>1 DEF Visible
    <3>4. Selling(w)'
      BY <3>1, <3>2, <3>3, UnitsOfNone, FS_EmptySet DEF Selling
    <3> QED BY <2>2, <3>1, <3>4 DEF InBlock, Resting, Adjusting, Settling
  <2> QED BY <2>1, <2>2
<1>3. ASSUME NEW w \in Workers, UploadChanges(w)
      PROVE  InBlock(v)'
  <2>1. CASE v # w
    <3>1. /\ pc'[v] = pc[v] /\ todo'[v] = todo[v] /\ doing'[v] = doing[v] /\ line'[v] = line[v]
          /\ seen'[v] = seen[v] /\ stored'[v] = stored[v] /\ locked'[v] = locked[v]
          /\ touched'[v] = touched[v] /\ created'[v] = created[v] /\ done'[v] = done[v]
          /\ quantity' = quantity /\ rows' = rows
      BY <1>3, <2>1 DEF UploadChanges, Begin, GoTo, tables, sale, block, TypeOK
    <3> QED BY <1>0, <3>1, Apart
  <2>2. CASE v = w
    <3>1. /\ pc[w] = "idle" /\ pc'[w] \in {"changes", "resolve"} /\ done'[w] = {}
          /\ locked'[w] = {} /\ created'[w] = {} /\ doing'[w] = None
      BY <1>3, <1>0, <2>2 DEF UploadChanges, Begin, GoTo, tables, sale, block, InBlock, Resting, Position, PositionOf
    <3> QED BY <2>2, <3>1 DEF InBlock, Resting, Adjusting, Settling, Selling
  <2> QED BY <2>1, <2>2
<1>4. ASSUME NEW w \in Workers, ResolveConflicts(w)
      PROVE  InBlock(v)'
  <2>1. CASE v # w
    <3>1. /\ pc'[v] = pc[v] /\ todo'[v] = todo[v] /\ doing'[v] = doing[v] /\ line'[v] = line[v]
          /\ seen'[v] = seen[v] /\ stored'[v] = stored[v] /\ locked'[v] = locked[v]
          /\ touched'[v] = touched[v] /\ created'[v] = created[v] /\ done'[v] = done[v]
          /\ quantity' = quantity /\ rows' = rows
      BY <1>4, <2>1 DEF ResolveConflicts, Begin, GoTo, tables, sale, block, TypeOK
    <3> QED BY <1>0, <3>1, Apart
  <2>2. CASE v = w
    <3>1. /\ pc[w] = "idle" /\ pc'[w] \in {"changes", "resolve"} /\ done'[w] = {}
          /\ locked'[w] = {} /\ created'[w] = {} /\ doing'[w] = None
      BY <1>4, <1>0, <2>2 DEF ResolveConflicts, Begin, GoTo, tables, sale, block, InBlock, Resting, Position, PositionOf
    <3> QED BY <2>2, <3>1 DEF InBlock, Resting, Adjusting, Settling, Selling
  <2> QED BY <2>1, <2>2
<1>5. ASSUME NEW w \in Workers, NEW s \in Sales, ReportDuplicate(w, s)
      PROVE  InBlock(v)'
  <2>1. CASE v # w
    <3>1. /\ pc'[v] = pc[v] /\ todo'[v] = todo[v] /\ doing'[v] = doing[v] /\ line'[v] = line[v]
          /\ seen'[v] = seen[v] /\ stored'[v] = stored[v] /\ locked'[v] = locked[v]
          /\ touched'[v] = touched[v] /\ created'[v] = created[v] /\ done'[v] = done[v]
          /\ quantity' = quantity /\ rows' = rows
      BY <1>5, <2>1 DEF ReportDuplicate, ReportStored, tables, sale, block, TypeOK
    <3> QED BY <1>0, <3>1, Apart
  <2>2. CASE v = w
    <3>1. /\ pc[w] = "sales" /\ pc' = pc /\ todo'[w] \subseteq todo[w] /\ doing' = doing /\ line' = line
          /\ quantity' = quantity /\ rows' = rows /\ locked' = locked /\ stored' = stored
          /\ created' = created
      BY <1>5 DEF ReportDuplicate, ReportStored, tables, sale, block
    <3> QED BY <1>0, <2>2, <3>1 DEF InBlock, Resting, Adjusting, Settling, Selling, SoldBy, Visible
  <2> QED BY <2>1, <2>2
<1>6. ASSUME NEW w \in Workers, NEW s \in Sales, CreateSale(w, s)
      PROVE  InBlock(v)'
  <2>1. CASE v # w
    <3>1. /\ pc'[v] = pc[v] /\ todo'[v] = todo[v] /\ doing'[v] = doing[v] /\ line'[v] = line[v]
          /\ seen'[v] = seen[v] /\ stored'[v] = stored[v] /\ locked'[v] = locked[v]
          /\ touched'[v] = touched[v] /\ created'[v] = created[v] /\ done'[v] = done[v]
          /\ quantity' = quantity /\ rows' = rows
      BY <1>6, <2>1 DEF CreateSale, GoTo, tables, TypeOK
    <3> QED BY <1>0, <3>1, Apart
  <2>2. CASE v = w
    <3>1. /\ pc[w] = "sales" /\ pc'[w] = "read" /\ todo' = todo /\ doing'[w] = s /\ line' = line
          /\ quantity' = quantity /\ rows' = rows /\ locked' = locked /\ stored' = stored
          /\ created'[w] = created[w] \cup {s} /\ s \notin Underpaid /\ s \in todo[w] /\ rows[s] = 0
      BY <1>6 DEF CreateSale, GoTo, tables
    <3>2. Selling(w) /\ doing[w] = None /\ line[w] = 0
      BY <1>0, <2>2, <3>1 DEF InBlock, Resting, Position, PositionOf
    <3>3. SoldBy(w)' = SoldBy(w)
      <4>1. s \in Sales \ created[w] /\ created[w] \in SUBSET Sales
        BY <3>1, <3>2 DEF Selling
      <4>2. Sold(created[w] \cup {s}, s, 0) = Sold(created[w], None, 0)
        BY <4>1, SoldStart
      <4>3. /\ SoldBy(w)' = Sold(created'[w], doing'[w], line'[w])
            /\ SoldBy(w) = Sold(created[w], doing[w], line[w])
        BY DEF SoldBy
      <4>4. created'[w] = created[w] \cup {s} /\ doing'[w] = s /\ line'[w] = 0
        BY <3>1, <3>2
      <4>5. doing[w] = None /\ line[w] = 0
        BY <3>2
      <4>6. SoldBy(w)' = Sold(created[w] \cup {s}, s, 0)
        BY <4>3, <4>4
      <4>7. SoldBy(w) = Sold(created[w], None, 0)
        BY <4>3, <4>5
      <4> HIDE DEF ShelfInv
      <4> QED BY <4>2, <4>6, <4>7
    <3>4. \A i \in Items : Visible(w, i)' = Visible(w, i)
      BY <3>1 DEF Visible
    <3> HIDE DEF ShelfInv
    <3>5. Selling(w)'
      BY <3>1, <3>2, <3>3, <3>4 DEF Selling
    <3> QED BY <2>2, <3>1, <3>5 DEF InBlock, Resting, Adjusting, Settling
  <2> QED BY <2>1, <2>2
<1>7. ASSUME NEW w \in Workers, NEW s \in Sales, StoreUnpaid(w, s)
      PROVE  InBlock(v)'
  <2>1. CASE v # w
    <3>1. /\ pc'[v] = pc[v] /\ todo'[v] = todo[v] /\ doing'[v] = doing[v] /\ line'[v] = line[v]
          /\ seen'[v] = seen[v] /\ stored'[v] = stored[v] /\ locked'[v] = locked[v]
          /\ touched'[v] = touched[v] /\ created'[v] = created[v] /\ done'[v] = done[v]
          /\ quantity' = quantity /\ rows' = rows
      BY <1>7, <2>1 DEF StoreUnpaid, ReportRefused, tables, sale, TypeOK
    <3> QED BY <1>0, <3>1, Apart
  <2>2. CASE v = w
    <3>1. /\ pc[w] = "sales" /\ pc' = pc /\ todo'[w] = todo[w] \ {s} /\ doing' = doing /\ line' = line
          /\ quantity' = quantity /\ rows' = rows /\ locked' = locked /\ stored' = stored
          /\ created'[w] = created[w] \cup {s} /\ s \in Underpaid /\ rows[s] = 0
      BY <1>7 DEF StoreUnpaid, ReportRefused, tables, sale
    <3>2. Selling(w) /\ doing[w] = None
      BY <1>0, <2>2, <3>1 DEF InBlock, Resting
    <3>3. SoldBy(w)' = SoldBy(w)
      <4>1. created[w] \in SUBSET Sales
        OBVIOUS
      <4>2. Sold(created[w] \cup {s}, doing[w], line[w]) = Sold(created[w], doing[w], line[w])
        <5> DEFINE C == created[w]
        <5>1. C \in SUBSET Sales /\ s \in Underpaid
          BY <3>1, <4>1
        <5> HIDE DEF ShelfInv, C
        <5>2. Sold(C \cup {s}, doing[w], line[w]) = Sold(C, doing[w], line[w])
          BY <5>1, SoldUnpaid
        <5> QED BY <5>2 DEF C
      <4>3. SoldBy(w)' = Sold(created'[w], doing'[w], line'[w])
        BY DEF SoldBy
      <4>4. SoldBy(w)' = Sold(created[w] \cup {s}, doing[w], line[w])
        BY <3>1, <4>3
      <4>5. SoldBy(w) = Sold(created[w], doing[w], line[w])
        BY DEF SoldBy
      <4> HIDE DEF ShelfInv
      <4> QED BY <4>2, <4>4, <4>5
    <3>4. \A i \in Items : Visible(w, i)' = Visible(w, i)
      BY <3>1 DEF Visible
    <3> HIDE DEF ShelfInv
    <3>5. Selling(w)'
      BY <3>1, <3>2, <3>3, <3>4 DEF Selling
    <3> QED BY <2>2, <3>1, <3>2, <3>5 DEF InBlock, Resting, Adjusting, Settling
  <2> QED BY <2>1, <2>2
<1>8. ASSUME NEW w \in Workers, ReadItem(w)
      PROVE  InBlock(v)'
  <2>1. CASE v # w
    <3>1. /\ pc'[v] = pc[v] /\ todo'[v] = todo[v] /\ doing'[v] = doing[v] /\ line'[v] = line[v]
          /\ seen'[v] = seen[v] /\ stored'[v] = stored[v] /\ locked'[v] = locked[v]
          /\ touched'[v] = touched[v] /\ created'[v] = created[v] /\ done'[v] = done[v]
          /\ quantity' = quantity /\ rows' = rows
      BY <1>8, <2>1 DEF ReadItem, GoTo, tables, block, TypeOK
    <3> QED BY <1>0, <3>1, Apart
  <2>2. CASE v = w
    <3>1. /\ pc[w] = "read" /\ pc'[w] = "write" /\ todo' = todo /\ doing' = doing /\ line' = line
          /\ quantity' = quantity /\ rows' = rows /\ locked' = locked /\ stored' = stored
          /\ created' = created /\ seen'[w] = Visible(w, CurrentLine(w).item)
      BY <1>8 DEF ReadItem, GoTo, tables, block
    <3>2. Selling(w)
      BY <1>0, <2>2 DEF InBlock
    <3>3. SoldBy(w)' = SoldBy(w) /\ CurrentLine(w)' = CurrentLine(w)
      BY <3>1 DEF SoldBy, CurrentLine
    <3>4. \A i : Visible(w, i)' = Visible(w, i)
      BY <3>1 DEF Visible
    <3> HIDE DEF ShelfInv
    <3>5. Selling(w)'
      BY <3>1, <3>2, <3>3, <3>4 DEF Selling
    <3> QED BY <2>2, <3>1, <3>5 DEF InBlock, Resting, Adjusting, Settling
  <2> QED BY <2>1, <2>2
<1>9. ASSUME NEW w \in Workers, WriteItem(w)
      PROVE  InBlock(v)'
  <2>1. CASE v # w
    <3>1. /\ pc'[v] = pc[v] /\ todo'[v] = todo[v] /\ doing'[v] = doing[v] /\ line'[v] = line[v]
          /\ seen'[v] = seen[v] /\ stored'[v] = stored[v] /\ locked'[v] = locked[v]
          /\ touched'[v] = touched[v] /\ created'[v] = created[v] /\ done'[v] = done[v]
          /\ quantity' = quantity /\ rows' = rows
      BY <1>9, <2>1 DEF WriteItem, Store, GoTo, tables, TypeOK
    <3> QED BY <1>0, <3>1, Apart
  <2>2. CASE v = w
    <3> DEFINE i == CurrentLine(w).item
               q == CurrentLine(w).qty
               X == SoldBy(w)
               m == <<doing[w], line[w] + 1>>
    <3>1. /\ pc[w] = "write" /\ pc'[w] = "read" /\ todo' = todo /\ doing' = doing
          /\ quantity' = quantity /\ rows' = rows /\ created' = created
          /\ locked'[w] = locked[w] \cup {i} /\ line'[w] = line[w] + 1
          /\ stored' = [stored EXCEPT ![w][i] = seen[w] - q] /\ seen[w] >= q
      BY <1>9 DEF WriteItem, Store, GoTo, tables
    <3>2. Selling(w) /\ i \in Items /\ q \in Nat /\ line[w] \in Nat /\ line[w] < Len(Lines[doing[w]])
      BY <1>0, <2>2, <3>1, LineTypes DEF InBlock, Position, PositionOf
    <3>3. doing[w] \in created[w] \ Underpaid /\ seen[w] = Visible(w, i) /\ created[w] \in SUBSET Sales
      BY <3>1, <3>2 DEF Selling
    <3>4. SoldBy(w)' = X \cup {m} /\ m \in LineNumbers(Sales) /\ m \notin X
      <4>1. /\ m \in LineNumbers(Sales) \ Sold(created[w], doing[w], line[w])
            /\ Sold(created[w], doing[w], line[w] + 1) = Sold(created[w], doing[w], line[w]) \cup {m}
        <5> DEFINE C == created[w]
                   d == doing[w]
                   k == line[w]
        <5>1. C \in SUBSET Sales /\ d \in C \ Underpaid /\ k \in Nat /\ k < Len(Lines[d])
          BY <3>2, <3>3
        <5> HIDE DEF ShelfInv, C, d, k
        <5>2. /\ <<d, k + 1>> \in LineNumbers(Sales) \ Sold(C, d, k)
              /\ Sold(C, d, k + 1) = Sold(C, d, k) \cup {<<d, k + 1>>}
          BY <5>1, SoldLine
        <5> QED BY <5>2 DEF C, d, k
      <4> HIDE DEF ShelfInv
      <4> QED BY <3>1, <4>1 DEF SoldBy
    <3>5. X \in SUBSET LineNumbers(Sales) /\ IsFiniteSet(X)
      BY <3>1, <3>2, <3>3, SoldNone DEF SoldBy, Selling
    <3>6. Lines[m[1]][m[2]].item = i /\ Lines[m[1]][m[2]].qty = q
      BY DEF CurrentLine
    <3>7. \A j \in Items : UnitsOf(X \cup {m}, j) = UnitsOf(X, j) + (IF i = j THEN q ELSE 0)
                         /\ UnitsOf(X, j) \in Nat
      <4> HIDE DEF i, q, X, m, ShelfInv
      <4> QED BY <3>4, <3>5, <3>6, UnitsOfOneMore
    <3>8. \A j \in Items : Visible(w, j)' = IF j = i THEN seen[w] - q ELSE Visible(w, j)
      BY <3>1, <3>2 DEF Visible
    <3>9. \A j \in Items : quantity[j] \in Nat /\ Visible(w, j) = quantity[j] - UnitsOf(X, j)
      BY <3>1, <3>2 DEF Selling
    <3>10. IsFiniteSet(X \cup {m})
      BY <3>5, FS_AddElement
    <3> HIDE DEF ShelfInv, i, q, X, m
    <3>11. \A j \in Items : Visible(w, j)' = quantity[j] - UnitsOf(X \cup {m}, j)
      <4> SUFFICES ASSUME NEW j \in Items
                   PROVE  Visible(w, j)' = quantity[j] - UnitsOf(X \cup {m}, j)
        OBVIOUS
      <4>1. /\ quantity[j] \in Nat /\ UnitsOf(X, j) \in Nat
            /\ Visible(w, j) = quantity[j] - UnitsOf(X, j)
        BY <3>7, <3>9
      <4>2. CASE j = i
        <5>1. UnitsOf(X \cup {m}, j) = UnitsOf(X, j) + q /\ Visible(w, j)' = Visible(w, j) - q
          BY <3>3, <3>7, <3>8, <4>2
        <5> QED BY <3>2, <4>1, <5>1
      <4>3. CASE j # i
        <5>1. UnitsOf(X \cup {m}, j) = UnitsOf(X, j) /\ Visible(w, j)' = Visible(w, j)
          <6>1. UnitsOf(X \cup {m}, j) = UnitsOf(X, j) + 0
            BY <3>7, <4>3
          <6>2. Visible(w, j)' = Visible(w, j)
            BY <3>8, <4>3
          <6> QED BY <4>1, <6>1, <6>2
        <5> QED BY <4>1, <5>1
      <4> QED BY <4>2, <4>3
    <3>12. Selling(w)'
      BY <3>1, <3>2, <3>4, <3>10, <3>11 DEF Selling
    <3> QED BY <2>2, <3>1, <3>12 DEF InBlock, Resting, Adjusting, Settling
  <2> QED BY <2>1, <2>2
<1>10. ASSUME NEW w \in Workers, FinishSale(w)
      PROVE  InBlock(v)'
  <2>1. CASE v # w
    <3>1. /\ pc'[v] = pc[v] /\ todo'[v] = todo[v] /\ doing'[v] = doing[v] /\ line'[v] = line[v]
          /\ seen'[v] = seen[v] /\ stored'[v] = stored[v] /\ locked'[v] = locked[v]
          /\ touched'[v] = touched[v] /\ created'[v] = created[v] /\ done'[v] = done[v]
          /\ quantity' = quantity /\ rows' = rows
      BY <1>10, <2>1 DEF FinishSale, ReportStored, GoTo, tables, block, TypeOK
    <3> QED BY <1>0, <3>1, Apart
  <2>2. CASE v = w
    <3>1. /\ pc[w] = "read" /\ pc'[w] = "sales" /\ todo'[w] = todo[w] \ {doing[w]}
          /\ quantity' = quantity /\ rows' = rows /\ created' = created /\ locked' = locked
          /\ stored' = stored /\ doing'[w] = None /\ line'[w] = 0 /\ line[w] = Len(Lines[doing[w]])
      BY <1>10 DEF FinishSale, ReportStored, GoTo, tables, block
    <3>2. Selling(w) /\ created[w] \in SUBSET Sales
      BY <1>0, <2>2 DEF InBlock
    <3>3. doing[w] \in created[w]
      BY <3>1, <3>2 DEF Selling
    <3>4. SoldBy(w)' = SoldBy(w)
      BY <3>1, <3>2, <3>3, SoldAll DEF SoldBy
    <3>5. \A i : Visible(w, i)' = Visible(w, i)
      BY <3>1 DEF Visible
    <3> HIDE DEF ShelfInv
    <3>6. Selling(w)'
      BY <3>1, <3>2, <3>4, <3>5 DEF Selling
    <3> QED BY <2>2, <3>1, <3>6 DEF InBlock, Resting, Adjusting, Settling
  <2> QED BY <2>1, <2>2
<1>11. ASSUME NEW w \in Workers, NEW c \in Changes, ReportConflict(w, c)
      PROVE  InBlock(v)'
  <2>1. CASE v # w
    <3>1. /\ pc'[v] = pc[v] /\ todo'[v] = todo[v] /\ doing'[v] = doing[v] /\ line'[v] = line[v]
          /\ seen'[v] = seen[v] /\ stored'[v] = stored[v] /\ locked'[v] = locked[v]
          /\ touched'[v] = touched[v] /\ created'[v] = created[v] /\ done'[v] = done[v]
          /\ quantity' = quantity /\ rows' = rows
      BY <1>11, <2>1 DEF ReportConflict, Store, ReportRefused, tables, sale, TypeOK
    <3> QED BY <1>0, <3>1, Apart
  <2>2. CASE v = w
    <3> DEFINE i == Edit[c].item
    <3>1. /\ pc[w] = "changes" /\ pc' = pc /\ todo'[w] \subseteq todo[w] /\ done' = done /\ doing' = doing
          /\ quantity' = quantity /\ touched' = touched /\ created' = created
          /\ locked'[w] = locked[w] \cup {i}
          /\ stored' = [stored EXCEPT ![w][i] = Visible(w, i)]
      BY <1>11 DEF ReportConflict, Store, ReportRefused, tables, sale
    <3>2. Resting(w) /\ Adjusting(w) /\ i \in Items /\ BlockOf(w)
      BY <1>0, <2>2 DEF InBlock
    <3>3. /\ \A j \in Items \ {i} : stored'[w][j] = stored[w][j]
          /\ stored'[w][i] = IF i \in locked[w] THEN stored[w][i] ELSE quantity[i]
      BY <3>1, <3>2 DEF Visible
    <3>4. \A d \in done[w] : Edit[d].item \in locked[w] /\ Edit[d].item \in Items
      BY <3>1, <3>2 DEF BlockOf
    <3>5. locked[w] \subseteq Items
      OBVIOUS
    <3> HIDE DEF ShelfInv
    <3>6. Adjusting(w)'
      <4> HIDE DEF i
      <4>1. \A d \in done[w] : stored'[w][Edit[d].item] = Edited(d, quantity[Edit[d].item])
        BY <3>1, <3>2, <3>3, <3>4 DEF Adjusting
      <4>2. \A j \in locked'[w] :
              (\A d \in done[w] : Edit[d].item # j) => stored'[w][j] = quantity[j]
        BY <3>1, <3>2, <3>3, <3>5 DEF Adjusting
      <4>3. \A d \in done[w] : Edited(d, quantity[Edit[d].item])' = Edited(d, quantity[Edit[d].item])
        BY <3>1 DEF Edited
      <4> QED BY <3>1, <3>2, <4>1, <4>2, <4>3 DEF Adjusting
    <3> QED BY <2>2, <3>1, <3>2, <3>6 DEF InBlock, Resting, Settling, Selling
  <2> QED BY <2>1, <2>2
<1>12. ASSUME NEW w \in Workers, NEW c \in Changes, ApplyChange(w, c)
      PROVE  InBlock(v)'
  <2>1. CASE v # w
    <3>1. /\ pc'[v] = pc[v] /\ todo'[v] = todo[v] /\ doing'[v] = doing[v] /\ line'[v] = line[v]
          /\ seen'[v] = seen[v] /\ stored'[v] = stored[v] /\ locked'[v] = locked[v]
          /\ touched'[v] = touched[v] /\ created'[v] = created[v] /\ done'[v] = done[v]
          /\ quantity' = quantity /\ rows' = rows
      BY <1>12, <2>1 DEF ApplyChange, Store, ReportStored, tables, sale, TypeOK
    <3> QED BY <1>0, <3>1, Apart
  <2>2. CASE v = w
    <3> DEFINE i == Edit[c].item
    <3>1. /\ pc[w] = "changes" /\ pc' = pc /\ todo'[w] = todo[w] \ {c} /\ done'[w] = done[w] \cup {c}
          /\ doing' = doing /\ quantity' = quantity /\ touched'[w] = touched[w] \cup MadeFor(i)
          /\ created' = created /\ locked'[w] = locked[w] \cup {i}
          /\ stored' = [stored EXCEPT ![w][i] = Edited(c, Visible(w, i))]
          /\ c \in todo[w] /\ c \notin touched[w]
      BY <1>12 DEF ApplyChange, Store, ReportStored, tables, sale
    <3>2. Resting(w) /\ Adjusting(w) /\ i \in Items /\ BlockOf(w) /\ todo[w] \subseteq Made
      BY <1>0, <2>2, <3>1 DEF InBlock, Position, PositionOf
    <3>3. \A d \in done[w] : Edit[d].item \in locked[w] /\ Edit[d].item \in Items /\ Edit[d].item # i
      BY <3>1, <3>2 DEF BlockOf, Adjusting
    <3>4. Visible(w, i) = quantity[i]
      BY <3>1, <3>2, <3>3 DEF Visible, Adjusting
    <3>5. /\ \A j \in Items \ {i} : stored'[w][j] = stored[w][j]
          /\ stored'[w][i] = Edited(c, quantity[i])
      BY <3>1, <3>2, <3>4
    <3>6. \A d \in todo[w] : Edit[d].item = i => d \in touched'[w]
      BY <3>1, <3>2 DEF MadeFor
    <3>7. locked[w] \subseteq Items
      OBVIOUS
    <3> HIDE DEF ShelfInv
    <3>8. Adjusting(w)'
      <4> SUFFICES /\ \A d \in done[w] \cup {c}, a \in todo[w] \ {c} :
                        Edit[a].item = Edit[d].item => a \in touched'[w]
                   /\ \A a, d \in done[w] \cup {c} : Edit[a].item = Edit[d].item => a = d
                   /\ \A d \in done[w] \cup {c} :
                        stored'[w][Edit[d].item] = Edited(d, quantity[Edit[d].item])
                   /\ \A j \in locked[w] \cup {i} :
                        (\A d \in done[w] \cup {c} : Edit[d].item # j) => stored'[w][j] = quantity[j]
        BY <3>1 DEF Adjusting, Edited
      <4>1. \A d \in done[w] \cup {c}, a \in todo[w] \ {c} :
              Edit[a].item = Edit[d].item => a \in touched'[w]
        BY <3>1, <3>2, <3>6 DEF Adjusting
      <4>2. \A a, d \in done[w] \cup {c} : Edit[a].item = Edit[d].item => a = d
        BY <3>1, <3>2, <3>3 DEF Adjusting
      <4>3. \A d \in done[w] \cup {c} :
              stored'[w][Edit[d].item] = Edited(d, quantity[Edit[d].item])
        BY <3>1, <3>2, <3>3, <3>5 DEF Adjusting
      <4>4. \A j \in locked[w] \cup {i} :
              (\A d \in done[w] \cup {c} : Edit[d].item # j) => stored'[w][j] = quantity[j]
        BY <3>1, <3>2, <3>5, <3>7 DEF Adjusting
      <4> QED BY <4>1, <4>2, <4>3, <4>4
    <3> QED BY <2>2, <3>1, <3>2, <3>8 DEF InBlock, Resting, Settling, Selling
  <2> QED BY <2>1, <2>2
<1>13. ASSUME NEW w \in Workers, NEW c \in Changes, UseMobile(w, c)
      PROVE  InBlock(v)'
  <2>1. CASE v # w
    <3>1. /\ pc'[v] = pc[v] /\ todo'[v] = todo[v] /\ doing'[v] = doing[v] /\ line'[v] = line[v]
          /\ seen'[v] = seen[v] /\ stored'[v] = stored[v] /\ locked'[v] = locked[v]
          /\ touched'[v] = touched[v] /\ created'[v] = created[v] /\ done'[v] = done[v]
          /\ quantity' = quantity /\ rows' = rows
      BY <1>13, <2>1 DEF UseMobile, Store, ReportRefused, tables, sale, TypeOK
    <3> QED BY <1>0, <3>1, Apart
  <2>2. CASE v = w
    <3> DEFINE i == Edit[c].item
    <3>1. /\ pc[w] = "resolve" /\ pc' = pc /\ doing' = doing /\ quantity' = quantity
          /\ created' = created /\ locked'[w] = locked[w] \cup {i}
          /\ stored' = [stored EXCEPT ![w][i] = Edit[c].qty]
      BY <1>13 DEF UseMobile, Store, ReportRefused, tables, sale
    <3>2. Resting(w) /\ Settling(w) /\ i \in Items /\ locked[w] \subseteq Items
      BY <1>0, <2>2 DEF InBlock
    <3>3. /\ \A j \in Items \ {i} : stored'[w][j] = stored[w][j]
          /\ stored'[w][i] = Edit[c].qty
      BY <3>1, <3>2
    <3> HIDE DEF ShelfInv
    <3>4. Settling(w)'
      BY <3>1, <3>2, <3>3 DEF Settling
    <3> QED BY <2>2, <3>1, <3>2, <3>4 DEF InBlock, Resting, Adjusting, Selling
  <2> QED BY <2>1, <2>2
<1>14. ASSUME NEW w \in Workers, NEW c \in Changes, UseServer(w, c)
      PROVE  InBlock(v)'
  <2>1. CASE v # w
    <3>1. /\ pc'[v] = pc[v] /\ todo'[v] = todo[v] /\ doing'[v] = doing[v] /\ line'[v] = line[v]
          /\ seen'[v] = seen[v] /\ stored'[v] = stored[v] /\ locked'[v] = locked[v]
          /\ touched'[v] = touched[v] /\ created'[v] = created[v] /\ done'[v] = done[v]
          /\ quantity' = quantity /\ rows' = rows
      BY <1>14, <2>1 DEF UseServer, ReportRefused, tables, sale, block, TypeOK
    <3> QED BY <1>0, <3>1, Apart
  <2>2. CASE v = w
    <3>1. /\ pc[w] = "resolve" /\ pc' = pc /\ doing' = doing /\ quantity' = quantity
          /\ created' = created /\ locked' = locked /\ stored' = stored
      BY <1>14 DEF UseServer, ReportRefused, tables, sale, block
    <3> QED BY <1>0, <2>2, <3>1 DEF InBlock, Resting, Adjusting, Settling, Selling
  <2> QED BY <2>1, <2>2
<1>15. ASSUME NEW w \in Workers, Commit(w)
      PROVE  InBlock(v)'
  <2>1. CASE v # w
    <3>1. /\ pc'[v] = pc[v] /\ todo'[v] = todo[v] /\ doing'[v] = doing[v] /\ line'[v] = line[v]
          /\ seen'[v] = seen[v] /\ stored'[v] = stored[v] /\ locked'[v] = locked[v]
          /\ touched'[v] = touched[v] /\ created'[v] = created[v] /\ done'[v] = done[v]
          /\ quantity' = [i \in Items |-> Visible(w, i)]
      BY <1>15, <2>1 DEF Commit, EndBlock, GoTo
    <3>2. \A i \in locked[v] : i \in Items /\ i \notin locked[w]
      BY <2>1 DEF Locks
    <3>3. \A i \in locked[v] : quantity'[i] = quantity[i]
      BY <3>1, <3>2 DEF Visible
    <3>4. pc[v] \notin {"sales", "read", "write"}
      BY <1>0, <2>1 DEF OneWorker, InBlock, Selling
    <3> QED BY <1>0, <3>1, <3>3, <3>4, Apart
  <2>2. CASE v = w
    <3>1. /\ pc'[w] = "reply" /\ locked'[w] = {} /\ created'[w] = {} /\ doing'[w] = None
      BY <1>15 DEF Commit, EndBlock, GoTo
    <3> QED BY <2>2, <3>1 DEF InBlock, Resting, Adjusting, Settling, Selling
  <2> QED BY <2>1, <2>2
<1>16. ASSUME NEW w \in Workers, Abort(w)
      PROVE  InBlock(v)'
  <2>1. CASE v # w
    <3>1. /\ pc'[v] = pc[v] /\ todo'[v] = todo[v] /\ doing'[v] = doing[v] /\ line'[v] = line[v]
          /\ seen'[v] = seen[v] /\ stored'[v] = stored[v] /\ locked'[v] = locked[v]
          /\ touched'[v] = touched[v] /\ created'[v] = created[v] /\ done'[v] = done[v]
          /\ quantity' = quantity /\ rows' = rows
      BY <1>16, <2>1 DEF Abort, EndBlock, GoTo, tables, TypeOK
    <3> QED BY <1>0, <3>1, Apart
  <2>2. CASE v = w
    <3>1. /\ pc'[w] \in {"reply", "idle"} /\ locked'[w] = {} /\ created'[w] = {} /\ doing'[w] = None
      BY <1>16 DEF Abort, EndBlock, GoTo, tables
    <3> QED BY <2>2, <3>1 DEF InBlock, Resting, Adjusting, Settling, Selling
  <2> QED BY <2>1, <2>2
<1>17. ASSUME NEW w \in Workers, Reply(w)
      PROVE  InBlock(v)'
  <2>1. CASE v # w
    <3>1. /\ pc'[v] = pc[v] /\ todo'[v] = todo[v] /\ doing'[v] = doing[v] /\ line'[v] = line[v]
          /\ seen'[v] = seen[v] /\ stored'[v] = stored[v] /\ locked'[v] = locked[v]
          /\ touched'[v] = touched[v] /\ created'[v] = created[v] /\ done'[v] = done[v]
          /\ quantity' = quantity /\ rows' = rows
      BY <1>17, <2>1 DEF Reply, GoTo, tables, sale, block, TypeOK
    <3> QED BY <1>0, <3>1, Apart
  <2>2. CASE v = w
    <3>1. /\ pc[w] = "reply" /\ pc'[w] = "idle" /\ locked' = locked /\ created' = created /\ doing' = doing
      BY <1>17 DEF Reply, GoTo, tables, sale, block
    <3> QED BY <1>0, <2>2, <3>1 DEF InBlock, Resting, Adjusting, Settling, Selling
  <2> QED BY <2>1, <2>2
<1>18. ASSUME NEW w \in Workers, Fail(w)
      PROVE  InBlock(v)'
  <2>1. CASE v # w
    <3>1. /\ pc'[v] = pc[v] /\ todo'[v] = todo[v] /\ doing'[v] = doing[v] /\ line'[v] = line[v]
          /\ seen'[v] = seen[v] /\ stored'[v] = stored[v] /\ locked'[v] = locked[v]
          /\ touched'[v] = touched[v] /\ created'[v] = created[v] /\ done'[v] = done[v]
          /\ quantity' = quantity /\ rows' = rows
      BY <1>18, <2>1 DEF Fail, EndBlock, GoTo, tables, TypeOK
    <3> QED BY <1>0, <3>1, Apart
  <2>2. CASE v = w
    <3>1. /\ pc'[w] \in {"reply", "idle"} /\ locked'[w] = {} /\ created'[w] = {} /\ doing'[w] = None
      BY <1>18 DEF Fail, EndBlock, GoTo, tables
    <3> QED BY <2>2, <3>1 DEF InBlock, Resting, Adjusting, Settling, Selling
  <2> QED BY <2>1, <2>2
<1>19. CASE UNCHANGED vars
  <2>1. UNCHANGED <<quantity, rows, pc, todo, doing, line, seen, stored, locked, touched,
                    created, done>>
    BY <1>19 DEF vars, tables, sale, block
  <2> QED BY <1>0, <2>1, Apart
<1> QED BY <1>1, <1>2, <1>3, <1>4, <1>5, <1>6, <1>7, <1>8, <1>9, <1>10, <1>11, <1>12,
           <1>13, <1>14, <1>15, <1>16, <1>17, <1>18, <1>19
       DEF Next, Step


(* The invariant of the refinement is inductive.                           *)
LEMMA ShelfStep ==
  ASSUME ShelfInv, Sales = {} \/ OneWorker, [Next]_vars
  PROVE  ShelfInv'
<1>1. SyncInv'
  BY SyncStep DEF ShelfInv
<1>2. \A w \in Workers : InBlock(w)'
  BY InBlockStep
<1> QED BY <1>1, <1>2 DEF ShelfInv

Uploaded == {s \in Sales : rows[s] > 0}

(* A batch of changes is Adjust, with the changes that it made.            *)
LEMMA CommitAdjusts ==
  ASSUME ShelfInv, NEW w \in Workers, Commit(w), pc[w] = "changes"
  PROVE  done[w] \in SUBSET Changes /\ AbstractShelf!Adjust(done[w])
<1> DEFINE D == done[w]
<1>1. /\ TypeOK /\ BlockOf(w) /\ Resting(w) /\ Adjusting(w) /\ PositionOf(w) /\ Applied
      /\ Made \subseteq Changes
  BY MadeTypes DEF ShelfInv, SyncInv, InBlock, Position
<1>2. D \subseteq Changes
  BY <1>1 DEF PositionOf
<1>3. D \cap applied = {}
  BY <1>1 DEF BlockOf, Applied
<1>4. /\ \A c, d \in D : Edit[c].item = Edit[d].item => c = d
      /\ \A c \in D : stored[w][Edit[c].item] = Edited(c, quantity[Edit[c].item])
      /\ \A i \in locked[w] : (\A c \in D : Edit[c].item # i) => stored[w][i] = quantity[i]
      /\ \A c \in D : Edit[c].item \in locked[w]
  BY <1>1 DEF BlockOf, Adjusting
<1>5. quantity' = [i \in Items |-> Visible(w, i)] /\ applied' = applied \cup D
  BY <1>2 DEF Commit
<1>6. rows' = rows
  <2>1. created[w] = {}
    BY <1>1 DEF Resting
  <2>2. rows' = [s \in Sales |-> rows[s]]
    BY <2>1 DEF Commit
  <2> QED BY <1>1, <2>2 DEF TypeOK
<1> HIDE DEF D
<1>7. ASSUME NEW i \in Items
      PROVE  Visible(w, i) = IF \E c \in D : Edit[c].item = i
                             THEN AbstractShelf!Edited(CHOOSE c \in D : Edit[c].item = i, quantity[i])
                             ELSE quantity[i]
  <2>1. CASE \E c \in D : Edit[c].item = i
    <3> DEFINE c == CHOOSE c \in D : Edit[c].item = i
    <3>1. c \in D /\ Edit[c].item = i
      BY <2>1
    <3> HIDE DEF c
    <3>2. Visible(w, i) = Edited(c, quantity[i])
      BY <1>4, <3>1 DEF Visible
    <3>3. Edited(c, quantity[i]) = AbstractShelf!Edited(c, quantity[i])
      BY DEF Edited, AbstractShelf!Edited
    <3> QED BY <2>1, <3>2, <3>3 DEF c
  <2>2. CASE ~ \E c \in D : Edit[c].item = i
    BY <1>4, <2>2 DEF Visible
  <2> QED BY <2>1, <2>2
<1>8. AbstractShelf!Adjust(D)
  BY <1>3, <1>4, <1>5, <1>6, <1>7 DEF AbstractShelf!Adjust
<1> QED BY <1>2, <1>8 DEF D

(* A batch of answers to conflicts is Settle.                              *)
LEMMA CommitSettles ==
  ASSUME ShelfInv, NEW w \in Workers, Commit(w), pc[w] = "resolve"
  PROVE  AbstractShelf!Settle(Changes)
<1>1. TypeOK /\ Resting(w) /\ Settling(w)
  BY DEF ShelfInv, SyncInv, InBlock
<1>2. quantity' = [i \in Items |-> Visible(w, i)] /\ applied' = applied
  BY <1>1 DEF Commit, TypeOK
<1>3. rows' = rows
  <2>1. created[w] = {}
    BY <1>1 DEF Resting
  <2>2. rows' = [s \in Sales |-> rows[s]]
    BY <2>1 DEF Commit
  <2> QED BY <1>1, <2>2 DEF TypeOK
<1>4. \A i \in Items : Visible(w, i) \in
        {quantity[i]} \cup {Edit[c].qty : c \in {d \in Changes : Edit[d].item = i}}
  BY <1>1 DEF Settling, Visible
<1> QED BY <1>2, <1>3, <1>4 DEF AbstractShelf!Settle

(* A batch of sales is Sell, with the sales that it created.               *)
LEMMA CommitSells ==
  ASSUME ShelfInv, NEW w \in Workers, Commit(w), pc[w] = "sales"
  PROVE  \E S \in SUBSET Sales : AbstractShelf!Sell(S)
<1>1. TypeOK /\ Resting(w) /\ Selling(w)
  BY DEF ShelfInv, SyncInv, InBlock
<1>2. PICK C \in SUBSET Sales : C = created[w]
  BY <1>1 DEF TypeOK
<1> DEFINE X == LineNumbers(C \ Underpaid)
<1>3. SoldBy(w) = X
  <2>1. SoldBy(w) = Sold(C, None, line[w])
    BY <1>1, <1>2 DEF SoldBy, Resting
  <2> QED BY <1>2, <2>1, SoldNone
<1>4. /\ IsFiniteSet(X)
      /\ \A i \in Items : Visible(w, i) = quantity[i] - UnitsOf(X, i)
      /\ \A s \in C : rows[s] = 0
  BY <1>1, <1>2, <1>3 DEF Selling
<1>5. ASSUME NEW i \in Items
      PROVE  /\ AbstractShelf!UnitsSold(C, i) <= quantity[i]
             /\ Visible(w, i) = quantity[i] - AbstractShelf!UnitsSold(C, i)
  <2>1. Visible(w, i) \in Nat /\ quantity[i] \in Nat
    BY <1>1 DEF Visible, TypeOK
  <2>2. AbstractShelf!UnitsSold(C, i) = UnitsOf(X, i)
    BY <1>2, <1>4, UnitsSoldOf
  <2>3. UnitsOf(X, i) \in Nat
    <3>1. X \in SUBSET LineNumbers(Sales)
      <4>1. LineNumbers(C \ Underpaid) = Sold(C, None, 0) /\ Sold(C, None, 0) \in SUBSET LineNumbers(Sales)
        BY <1>2, SoldNone
      <4> QED BY <4>1
    <3> HIDE DEF X
    <3> QED BY <1>4, <3>1, UnitsTypes
  <2>4. Visible(w, i) = quantity[i] - UnitsOf(X, i)
    BY <1>4
  <2> HIDE DEF X
  <2> QED BY <2>1, <2>2, <2>3, <2>4
<1>6. quantity' = [i \in Items |-> Visible(w, i)] /\ applied' = applied
      /\ rows' = [s \in Sales |-> IF s \in C THEN rows[s] + 1 ELSE rows[s]]
  BY <1>1, <1>2 DEF Commit, TypeOK
<1>7. C \cap Uploaded = {} /\ Uploaded' = Uploaded \cup C
  <2>1. \A s \in C : ~(rows[s] > 0)
    BY <1>4
  <2>2. \A s \in Sales : rows'[s] > 0 <=> (rows[s] > 0 \/ s \in C)
    BY <1>1, <1>4, <1>6 DEF TypeOK
  <2> QED BY <1>2, <2>1, <2>2 DEF Uploaded
<1> HIDE DEF X
<1>8. AbstractShelf!Sell(C)
  BY <1>5, <1>6, <1>7 DEF AbstractShelf!Sell, Uploaded
<1> QED BY <1>8

(* Every step is a batch of the shelf, or changes nothing of it.           *)
LEMMA ShelfRefines ==
  ASSUME ShelfInv, [Next]_vars
  PROVE  AbstractShelf!Next \/ UNCHANGED <<quantity, applied, Uploaded>>
<1>1. ASSUME NEW w \in Workers, Commit(w)
      PROVE  AbstractShelf!Next
  <2>1. pc[w] \in {"sales", "changes", "resolve"}
    BY <1>1 DEF Commit
  <2>2. CASE pc[w] = "changes"
    BY <1>1, <2>2, CommitAdjusts DEF AbstractShelf!Next
  <2>3. CASE pc[w] = "resolve"
    BY <1>1, <2>3, CommitSettles DEF AbstractShelf!Next
  <2>4. CASE pc[w] = "sales"
    BY <1>1, <2>4, CommitSells DEF AbstractShelf!Next
  <2> QED BY <2>1, <2>2, <2>3, <2>4
<1>2. \/ \E w \in Workers : Commit(w)
      \/ quantity' = quantity /\ applied' = applied /\ rows' = rows
  BY DEF Next, Step, MakeChange, UploadSales, UploadChanges, ResolveConflicts, Begin, tables,
         ReportDuplicate, CreateSale, StoreUnpaid, ReadItem, WriteItem, FinishSale,
         ReportConflict, ApplyChange, UseMobile, UseServer, Abort, Reply, Fail, vars
<1> QED BY <1>1, <1>2 DEF Uploaded

(* Uploading implements the shelf (ImplementsShelf): every batch happens   *)
(* at once on the quantities as they are, and no sale or change twice, as  *)
(* long as requests are served one at a time or there are no sales.        *)
THEOREM UploadsImplementShelf ==
  ASSUME Sales = {} \/ OneWorker
  PROVE  Spec => ImplementsShelf
<1>1. Init => AbstractShelf!Init
  BY DEF Init, AbstractShelf!Init
<1>2. ShelfInv /\ [Next]_vars => ShelfInv'
  BY ShelfStep
<1>3. ShelfInv /\ [Next]_vars
        => AbstractShelf!Next \/ UNCHANGED <<quantity, applied, {s \in Sales : rows[s] > 0}>>
  BY ShelfRefines DEF Uploaded
<1> QED BY <1>1, <1>2, <1>3, ShelfInit, PTL DEF Spec, ImplementsShelf, AbstractShelf!Spec
=============================================================================
