---------------------------- MODULE POSCounter ----------------------------
(***************************************************************************)
(* The sales counter (zargar/pos): requests of several terminals ring up   *)
(* the lines of POSTransactions, take payments and cancel.                 *)
(*                                                                         *)
(* Every request reads the transaction afresh and then works on that       *)
(* instance (inst).  A payment runs in an atomic block on PostgreSQL at    *)
(* READ COMMITTED: what it writes is seen by itself only and its rows stay *)
(* locked until it commits, but what it reads is not locked.  The other    *)
(* requests run in autocommit, one statement at a time.  Amounts are       *)
(* abstracted to the set of line items they add up; every line costs the   *)
(* same.                                                                   *)
(***************************************************************************)
EXTENDS Integers, FiniteSetsExt

CONSTANTS
  Transactions, \* POSTransaction rows
  LineItems,    \* ids of the POSTransactionLineItem rows that may be made
  Items,        \* JewelryItem rows
  Customers,    \* Customer rows
  Workers,      \* requests served at the same time
  TxOf,         \* the transaction each line item is added to
  ItemOf,       \* the item it sells; None for a custom item
  QtyOf,        \* its quantity
  CustomerOf,   \* the customer of a transaction; None for a walk-in
  InitialLines, \* line items rung up when the model starts
  InitialStock, \* JewelryItem.quantity when the model starts
  MaxRemovals,  \* bound: line items deleted in one behaviour
  None,         \* no item, no customer
  Unbilled      \* invoice of a transaction that has none

ASSUME CounterAssumptions ==
  /\ LineItems \subseteq Nat
  /\ InitialLines \subseteq LineItems /\ IsFiniteSet(InitialLines)
  /\ TxOf \in [LineItems -> Transactions]
  /\ ItemOf \in [LineItems -> Items \cup {None}]
  /\ QtyOf \in [LineItems -> Nat \ {0}]
  /\ CustomerOf \in [Transactions -> Customers \cup {None}]
  /\ InitialStock \in [Items -> Nat]
  /\ MaxRemovals \in Nat
  /\ None \notin Items \cup Customers \cup Transactions
  /\ \A S \in SUBSET LineItems : S # Unbilled
  /\ Items \cap Customers = {} /\ Items \cap Transactions = {}
  /\ Customers \cap Transactions = {}

VARIABLES
  status,   \* POSTransaction.status
  total,    \* line items POSTransaction.total_amount adds up
  onSale,   \* POSTransactionLineItem rows
  removed,  \* line items deleted again
  paid,     \* line items POSTransaction.amount_paid covers
  invoice,  \* line items the transaction's POSInvoice bills, or Unbilled
  qty,      \* JewelryItem.quantity
  credited, \* transactions counted in Customer.total_purchases
  pc,       \* what each worker is about to do
  tx,       \* the transaction its request is about
  inst,     \* total_amount and amount_paid of its instance
  todo,     \* line items the inventory loop has not handled
  seen,     \* quantity of the item it is about to write
  known,    \* purchases of the customer it is about to credit
  stored,   \* uncommitted quantities of the items it has locked
  locked,   \* rows locked by its atomic block
  took,     \* line items the inventory loop has handled
  less,     \* units of each item the atomic block has subtracted
  sold,     \* history: units of each item sold by committed payments
  taken     \* history: line items whose units committed payments took

tables  == <<status, total, onSale, removed, paid, invoice, qty, credited>>
block   == <<todo, seen, known, stored, locked, took, less>>
history == <<sold, taken>>
vars    == <<tables, pc, tx, inst, block, history>>

Rows == Items \cup Customers \cup Transactions

Steps == {"idle", "check", "lines", "read", "write", "credit", "tally",
          "save", "invoice", "cancel", "insert", "recount", "total"}

NothingStored == [i \in Items |-> 0]

NoAmounts == [total |-> {}, paid |-> {}]

TypeOK ==
  /\ status \in [Transactions -> {"pending", "completed", "cancelled"}]
  /\ total \in [Transactions -> SUBSET LineItems]
  /\ onSale \in SUBSET LineItems
  /\ removed \in SUBSET LineItems
  /\ paid \in [Transactions -> SUBSET LineItems]
  /\ invoice \in [Transactions -> {Unbilled} \cup SUBSET LineItems]
  /\ qty \in [Items -> Nat]
  /\ credited \in [Customers -> SUBSET Transactions]
  /\ pc \in [Workers -> Steps]
  /\ tx \in [Workers -> Transactions \cup {None}]
  /\ inst \in [Workers -> [total : SUBSET LineItems, paid : SUBSET LineItems]]
  /\ todo \in [Workers -> SUBSET LineItems]
  /\ seen \in [Workers -> Nat]
  /\ known \in [Workers -> SUBSET Transactions]
  /\ stored \in [Workers -> [Items -> Nat]]
  /\ locked \in [Workers -> SUBSET Rows]
  /\ took \in [Workers -> SUBSET LineItems]
  /\ less \in [Workers -> [Items -> Nat]]
  /\ sold \in [Items -> Nat]
  /\ taken \in SUBSET LineItems

Init ==
  /\ status = [t \in Transactions |-> "pending"]
  /\ total = [t \in Transactions |-> {l \in InitialLines : TxOf[l] = t}]
  /\ onSale = InitialLines
  /\ removed = {}
  /\ paid = [t \in Transactions |-> {}]
  /\ invoice = [t \in Transactions |-> Unbilled]
  /\ qty = InitialStock
  /\ credited = [c \in Customers |-> {}]
  /\ pc = [w \in Workers |-> "idle"]
  /\ tx = [w \in Workers |-> None]
  /\ inst = [w \in Workers |-> NoAmounts]
  /\ todo = [w \in Workers |-> {}]
  /\ seen = [w \in Workers |-> 0]
  /\ known = [w \in Workers |-> {}]
  /\ stored = [w \in Workers |-> NothingStored]
  /\ locked = [w \in Workers |-> {}]
  /\ took = [w \in Workers |-> {}]
  /\ less = [w \in Workers |-> NothingStored]
  /\ sold = [i \in Items |-> 0]
  /\ taken = {}
-----------------------------------------------------------------------------
(* Helpers                                                                 *)

LinesOf(t) == {l \in onSale : TxOf[l] = t}

\* An amount p of money pays for the lines of S.
Covers(p, S) == Cardinality(S) <= Cardinality(p)

GoTo(w, step) == pc' = [pc EXCEPT ![w] = step]

\* No other atomic block holds the lock of row x.
Free(w, x) == \A v \in Workers \ {w} : x \notin locked[v]

\* An atomic block sees what it wrote itself, else what is committed.
Visible(w, i) == IF i \in locked[w] THEN stored[w][i] ELSE qty[i]

\* The request is over, and with it its atomic block and the locks.
EndBlock(w) ==
  /\ todo' = [todo EXCEPT ![w] = {}]
  /\ seen' = [seen EXCEPT ![w] = 0]
  /\ known' = [known EXCEPT ![w] = {}]
  /\ stored' = [stored EXCEPT ![w] = NothingStored]
  /\ locked' = [locked EXCEPT ![w] = {}]
  /\ took' = [took EXCEPT ![w] = {}]
  /\ less' = [less EXCEPT ![w] = NothingStored]

End(w) ==
  /\ GoTo(w, "idle")
  /\ tx' = [tx EXCEPT ![w] = None]
  /\ inst' = [inst EXCEPT ![w] = NoAmounts]
  /\ EndBlock(w)

Start(w, t, step) ==
  /\ pc[w] = "idle"
  /\ GoTo(w, step)
  /\ tx' = [tx EXCEPT ![w] = t]

-----------------------------------------------------------------------------
(* Ringing up: add_jewelry_item_to_transaction, add_custom_item_to_        *)
(* transaction and remove_line_item, whatever the transaction's status     *)

BeginAdd(w, l) ==
  /\ l \notin onSale \cup removed
  /\ ItemOf[l] # None => QtyOf[l] <= qty[ItemOf[l]]
  /\ Start(w, TxOf[l], "insert")
  /\ todo' = [todo EXCEPT ![w] = {l}]
  /\ UNCHANGED <<tables, inst, seen, known, stored, locked, took, less, history>>

InsertLine(w) ==
  /\ pc[w] = "insert"
  /\ onSale' = onSale \cup todo[w]
  /\ todo' = [todo EXCEPT ![w] = {}]
  /\ GoTo(w, "recount")
  /\ UNCHANGED <<status, total, removed, paid, invoice, qty, credited, tx, inst, seen, known,
                 stored, locked, took, less, history>>

RemoveLine(w, l) ==
  /\ l \in onSale
  /\ Cardinality(removed) < MaxRemovals
  /\ Start(w, TxOf[l], "recount")
  /\ onSale' = onSale \ {l}
  /\ removed' = removed \cup {l}
  /\ UNCHANGED <<status, total, paid, invoice, qty, credited, inst, block, history>>

\* calculate_totals reads the line items; save writes the sum later.
Recount(w) ==
  /\ pc[w] = "recount"
  /\ inst' = [inst EXCEPT ![w].total = LinesOf(tx[w])]
  /\ GoTo(w, "total")
  /\ UNCHANGED <<tables, tx, block, history>>

SaveTotal(w) ==
  /\ pc[w] = "total"
  /\ Free(w, tx[w])
  /\ total' = [total EXCEPT ![tx[w]] = inst[w].total]
  /\ End(w)
  /\ UNCHANGED <<status, onSale, removed, paid, invoice, qty, credited, history>>

-----------------------------------------------------------------------------
(* Cancelling: the status is checked on the instance and written later     *)

BeginCancel(w, t) ==
  /\ status[t] # "completed"
  /\ Start(w, t, "cancel")
  /\ UNCHANGED <<tables, inst, block, history>>

Cancel(w) ==
  /\ pc[w] = "cancel"
  /\ Free(w, tx[w])
  /\ status' = [status EXCEPT ![tx[w]] = "cancelled"]
  /\ End(w)
  /\ UNCHANGED <<total, onSale, removed, paid, invoice, qty, credited, history>>

-----------------------------------------------------------------------------
(* process_payment, complete_transaction and _create_invoice               *)

\* The customer pays the total the terminal shows, whatever the status.
BeginPay(w, t) ==
  /\ Start(w, t, "check")
  /\ inst' = [inst EXCEPT ![w] = [total |-> total[t], paid |-> total[t]]]
  /\ UNCHANGED <<tables, block, history>>

\* The totals are computed anew and compared with the payment.
AcceptPayment(w) ==
  /\ pc[w] = "check"
  /\ Covers(inst[w].paid, LinesOf(tx[w]))
  /\ inst' = [inst EXCEPT ![w].total = LinesOf(tx[w])]
  /\ GoTo(w, "lines")
  /\ UNCHANGED <<tables, tx, block, history>>

RefusePayment(w) ==
  /\ pc[w] = "check"
  /\ ~Covers(inst[w].paid, LinesOf(tx[w]))
  /\ End(w)
  /\ UNCHANGED <<tables, history>>

ReadLines(w) ==
  /\ pc[w] = "lines"
  /\ todo' = [todo EXCEPT ![w] = LinesOf(tx[w])]
  /\ GoTo(w, "read")
  /\ UNCHANGED <<tables, tx, inst, seen, known, stored, locked, took, less, history>>

\* The inventory loop goes through the lines in the order of their ids.
NextLine(w, l) == l \in todo[w] /\ \A m \in todo[w] : l <= m

SkipCustomItem(w, l) ==
  /\ pc[w] = "read"
  /\ NextLine(w, l) /\ ItemOf[l] = None
  /\ todo' = [todo EXCEPT ![w] = @ \ {l}]
  /\ took' = [took EXCEPT ![w] = @ \cup {l}]
  /\ UNCHANGED <<tables, pc, tx, inst, seen, known, stored, locked, less, history>>

ReadItem(w, l) ==
  /\ pc[w] = "read"
  /\ NextLine(w, l) /\ ItemOf[l] # None
  /\ seen' = [seen EXCEPT ![w] = Visible(w, ItemOf[l])]
  /\ GoTo(w, "write")
  /\ UNCHANGED <<tables, tx, inst, todo, known, stored, locked, took, less, history>>

\* Seeded fault: no PositiveIntegerField.
WriteItemUnchecked(w, l) ==
  /\ pc[w] = "write"
  /\ NextLine(w, l)
  /\ Free(w, ItemOf[l])
  /\ stored' = [stored EXCEPT ![w][ItemOf[l]] = seen[w] - QtyOf[l]]
  /\ locked' = [locked EXCEPT ![w] = @ \cup {ItemOf[l]}]
  /\ todo' = [todo EXCEPT ![w] = @ \ {l}]
  /\ took' = [took EXCEPT ![w] = @ \cup {l}]
  /\ less' = [less EXCEPT ![w][ItemOf[l]] = @ + QtyOf[l]]
  /\ seen' = [seen EXCEPT ![w] = 0]
  /\ GoTo(w, "read")
  /\ UNCHANGED <<tables, tx, inst, known, history>>

\* Seeded fault: the item is written outside the atomic block.
WriteItemAtOnce(w, l) ==
  /\ pc[w] = "write"
  /\ NextLine(w, l)
  /\ Free(w, ItemOf[l])
  /\ seen[w] >= QtyOf[l]
  /\ qty' = [qty EXCEPT ![ItemOf[l]] = seen[w] - QtyOf[l]]
  /\ todo' = [todo EXCEPT ![w] = @ \ {l}]
  /\ took' = [took EXCEPT ![w] = @ \cup {l}]
  /\ less' = [less EXCEPT ![w][ItemOf[l]] = @ + QtyOf[l]]
  /\ seen' = [seen EXCEPT ![w] = 0]
  /\ GoTo(w, "read")
  /\ UNCHANGED <<status, total, onSale, removed, paid, invoice, credited, tx, inst, known,
                 stored, locked, history>>

WriteItem(w, l) ==
  /\ pc[w] = "write"
  /\ NextLine(w, l)
  /\ Free(w, ItemOf[l])
  /\ seen[w] >= QtyOf[l]
  /\ stored' = [stored EXCEPT ![w][ItemOf[l]] = seen[w] - QtyOf[l]]
  /\ locked' = [locked EXCEPT ![w] = @ \cup {ItemOf[l]}]
  /\ todo' = [todo EXCEPT ![w] = @ \ {l}]
  /\ took' = [took EXCEPT ![w] = @ \cup {l}]
  /\ less' = [less EXCEPT ![w][ItemOf[l]] = @ + QtyOf[l]]
  /\ seen' = [seen EXCEPT ![w] = 0]
  /\ GoTo(w, "read")
  /\ UNCHANGED <<tables, tx, inst, known, history>>

ReadCustomer(w) ==
  LET c == CustomerOf[tx[w]]
  IN  /\ pc[w] = "read"
      /\ todo[w] = {}
      /\ known' = [known EXCEPT ![w] = IF c = None THEN {} ELSE credited[c]]
      /\ GoTo(w, IF c = None THEN "tally" ELSE "credit")
      /\ UNCHANGED <<tables, tx, inst, todo, seen, stored, locked, took, less, history>>

\* Seeded fault: update_purchase_stats without its save.
CreditCustomerUnsaved(w) ==
  /\ pc[w] = "credit"
  /\ GoTo(w, "tally")
  /\ UNCHANGED <<tables, tx, inst, todo, seen, known, stored, locked, took, less, history>>

\* update_purchase_stats and add_loyalty_points.
CreditCustomer(w) ==
  LET c == CustomerOf[tx[w]]
  IN  /\ pc[w] = "credit"
      /\ Free(w, c)
      /\ known' = [known EXCEPT ![w] = @ \cup {tx[w]}]
      /\ locked' = [locked EXCEPT ![w] = @ \cup {c}]
      /\ GoTo(w, "tally")
      /\ UNCHANGED <<tables, tx, inst, todo, seen, stored, took, less, history>>

\* POSTransaction.save sums up the line items once more ...
Tally(w) ==
  /\ pc[w] = "tally"
  /\ inst' = [inst EXCEPT ![w].total = LinesOf(tx[w])]
  /\ GoTo(w, "save")
  /\ UNCHANGED <<tables, tx, block, history>>

\* Seeded fault: the row is written outside the atomic block.
SaveCompletedAtOnce(w) ==
  /\ pc[w] = "save"
  /\ Free(w, tx[w])
  /\ status' = [status EXCEPT ![tx[w]] = "completed"]
  /\ GoTo(w, "invoice")
  /\ UNCHANGED <<total, onSale, removed, paid, invoice, qty, credited, tx, inst, block,
                 history>>

\* ... and writes the row: status completed, total_amount and amount_paid.
SaveCompleted(w) ==
  /\ pc[w] = "save"
  /\ Free(w, tx[w])
  /\ locked' = [locked EXCEPT ![w] = @ \cup {tx[w]}]
  /\ GoTo(w, "invoice")
  /\ UNCHANGED <<tables, tx, inst, todo, seen, known, stored, took, less, history>>

Units(S, i) == MapThenSumSet(LAMBDA l : QtyOf[l], {l \in S : ItemOf[l] = i})

\* Seeded fault: POSInvoice.transaction is a plain ForeignKey.
CommitAgain(w) ==
  LET t == tx[w]
  IN  /\ pc[w] = "invoice"
      /\ invoice' = [invoice EXCEPT ![t] = inst[w].total]
      /\ status' = [status EXCEPT ![t] = "completed"]
      /\ total' = [total EXCEPT ![t] = inst[w].total]
      /\ paid' = [paid EXCEPT ![t] = inst[w].paid]
      /\ qty' = [i \in Items |-> Visible(w, i)]
      /\ credited' = [c \in Customers |-> IF c \in locked[w] THEN known[w] ELSE credited[c]]
      /\ sold' = [i \in Items |-> sold[i] + less[w][i]]
      /\ taken' = taken \cup took[w]
      /\ End(w)
      /\ UNCHANGED <<onSale, removed>>

\* Seeded fault: the invoice copies the total the terminal showed.
CommitShownTotal(w) ==
  LET t == tx[w]
  IN  /\ pc[w] = "invoice"
      /\ invoice[t] = Unbilled
      /\ invoice' = [invoice EXCEPT ![t] = inst[w].paid]
      /\ status' = [status EXCEPT ![t] = "completed"]
      /\ total' = [total EXCEPT ![t] = inst[w].total]
      /\ paid' = [paid EXCEPT ![t] = inst[w].paid]
      /\ qty' = [i \in Items |-> Visible(w, i)]
      /\ credited' = [c \in Customers |-> IF c \in locked[w] THEN known[w] ELSE credited[c]]
      /\ sold' = [i \in Items |-> sold[i] + less[w][i]]
      /\ taken' = taken \cup took[w]
      /\ End(w)
      /\ UNCHANGED <<onSale, removed>>

\* POSInvoice.objects.create copies the totals of the instance; the block
\* commits everything it wrote.
Commit(w) ==
  LET t == tx[w]
  IN  /\ pc[w] = "invoice"
      /\ invoice[t] = Unbilled
      /\ invoice' = [invoice EXCEPT ![t] = inst[w].total]
      /\ status' = [status EXCEPT ![t] = "completed"]
      /\ total' = [total EXCEPT ![t] = inst[w].total]
      /\ paid' = [paid EXCEPT ![t] = inst[w].paid]
      /\ qty' = [i \in Items |-> Visible(w, i)]
      /\ credited' = [c \in Customers |-> IF c \in locked[w] THEN known[w] ELSE credited[c]]
      /\ sold' = [i \in Items |-> sold[i] + less[w][i]]
      /\ taken' = taken \cup took[w]
      /\ End(w)
      /\ UNCHANGED <<onSale, removed>>

-----------------------------------------------------------------------------
(* What ends a request early: the block is rolled back and the error       *)
(* reported                                                                *)

RefuseStock(w, l) ==
  /\ pc[w] = "write"
  /\ NextLine(w, l)
  /\ seen[w] < QtyOf[l]

\* POSInvoice.transaction is a OneToOneField.
RefuseInvoice(w) == pc[w] = "invoice" /\ invoice[tx[w]] # Unbilled

\* The row the next statement of w writes.
Wanted(w) ==
  CASE pc[w] = "write" -> {ItemOf[l] : l \in {m \in todo[w] : NextLine(w, m)}}
    [] pc[w] = "credit" -> {CustomerOf[tx[w]]}
    [] pc[w] \in {"save", "cancel", "total"} -> {tx[w]}
    [] OTHER -> {}

\* PostgreSQL ends one of the blocks that wait for each other.
Deadlocked(w) ==
  \E D \in SUBSET Workers :
    /\ w \in D
    /\ \A v \in D : \E u \in D \ {v} : Wanted(v) \cap locked[u] # {}

\* Seeded fault: nothing ends a deadlock.
RollbackNoDeadlock(w) ==
  /\ RefuseInvoice(w) \/ \E l \in LineItems : RefuseStock(w, l)
  /\ End(w)
  /\ UNCHANGED <<tables, history>>

Rollback(w) ==
  /\ RefuseInvoice(w) \/ Deadlocked(w) \/ \E l \in LineItems : RefuseStock(w, l)
  /\ End(w)
  /\ UNCHANGED <<tables, history>>

\* Any statement may fail, and the process serving the request may die.
Fail(w) ==
  /\ pc[w] # "idle"
  /\ End(w)
  /\ UNCHANGED <<tables, history>>

-----------------------------------------------------------------------------
Step(w) ==
  \/ InsertLine(w) \/ Recount(w) \/ SaveTotal(w) \/ Cancel(w)
  \/ AcceptPayment(w) \/ RefusePayment(w) \/ ReadLines(w)
  \/ \E l \in LineItems : SkipCustomItem(w, l) \/ ReadItem(w, l) \/ WriteItem(w, l)
  \/ ReadCustomer(w) \/ CreditCustomer(w) \/ Tally(w) \/ SaveCompleted(w)
  \/ Commit(w) \/ Rollback(w)

Next ==
  \E w \in Workers :
    \/ \E l \in LineItems : BeginAdd(w, l)
    \/ \E l \in LineItems : RemoveLine(w, l)
    \/ \E t \in Transactions : BeginCancel(w, t)
    \/ \E t \in Transactions : BeginPay(w, t)
    \/ Step(w)
    \/ Fail(w)

Spec == Init /\ [][Next]_vars

(* The server works on every request until it is answered.                 *)
FairSpec == Spec /\ \A w \in Workers : SF_vars(Step(w))

-----------------------------------------------------------------------------
(* Properties                                                              *)

(* Payments of one till are those of the abstract till: the bill holds     *)
(* exactly the lines taken from the stock, once, all at once, however many *)
(* statements, refusals and failures the payment is made of.               *)
AbstractTill == INSTANCE Till

ImplementsTill == AbstractTill!Spec

(* The stock falls only by what billed sales took, however payments race   *)
(* and fail: racing writers may lose a decrement, never invent a sale.     *)
NoPhantomSale == \A i \in Items : qty[i] + sold[i] >= InitialStock[i]

(* A transaction is completed together with its invoice, or not at all.    *)
CompletedIsBilled ==
  \A t \in Transactions : status[t] = "completed" => invoice[t] # Unbilled

(* The units of a line leave the stock once, however often and from        *)
(* however many terminals the transaction is paid.                         *)
UnitsTakenOnce == \A i \in Items : sold[i] = Units(taken, i)

(* Every billed sale of a customer is in the customer's purchases.         *)
CustomerIsCredited ==
  \A t \in Transactions :
    (invoice[t] # Unbilled /\ CustomerOf[t] # None) => t \in credited[CustomerOf[t]]

(* Payments that wait for each other's rows do not wait for ever.          *)
EveryRequestEnds == \A w \in Workers : pc[w] # "idle" ~> pc[w] = "idle"
=============================================================================
