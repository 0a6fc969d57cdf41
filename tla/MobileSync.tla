---------------------------- MODULE MobileSync ----------------------------
(***************************************************************************)
(* Uploading from mobile devices (zargar/api/offline_sync.py): a device    *)
(* sends the sales and the stock changes made while it was offline, or its *)
(* answers to conflicts, in batches, and the reply names the outcome of    *)
(* each element.                                                           *)
(*                                                                         *)
(* A batch is one atomic block on PostgreSQL at READ COMMITTED, but every  *)
(* element has an exception handler of its own inside the block.  After a  *)
(* statement fails in the database all later ones fail as well, the        *)
(* handlers swallow the errors, and the block ends in a rollback nobody    *)
(* reports.  Replies may be lost, and a batch may be sent again, also      *)
(* while the first one is still served.                                    *)
(*                                                                         *)
(* Times are abstracted to what the code compares: whether an item was     *)
(* saved (updated_at) after a change was made on a device.  Sales carry an *)
(* offline_transaction_id, changes a timestamp; sales are to walk-in       *)
(* customers.                                                              *)
(***************************************************************************)
EXTENDS Integers, Sequences, SequencesExt

CONSTANTS
  Items,        \* JewelryItem rows
  Changes,      \* stock changes devices may make
  Sales,        \* sales made on devices
  Workers,      \* requests served at the same time
  Edit,         \* what each change does: its item, kind and quantity
  Lines,        \* line_items of each sale: a sequence of items and quantities
  Underpaid,    \* sales whose amount_paid is less than their total
  InitialStock, \* JewelryItem.quantity when the model starts
  None          \* no sale

ASSUME MobileAssumptions ==
  /\ Edit \in [Changes -> [item : Items, kind : {"set", "add", "subtract"}, qty : Nat]]
  /\ Lines \in [Sales -> Seq([item : Items, qty : Nat \ {0}])]
  /\ Underpaid \subseteq Sales
  /\ InitialStock \in [Items -> Nat]
  /\ Changes \cap Sales = {}
  /\ None \notin Sales

VARIABLES
  quantity, \* JewelryItem.quantity
  outdated, \* changes made before the updated_at of their item
  rows,     \* POSTransaction rows of each sale
  made,     \* changes made on devices, in that order
  pc,       \* what each worker is about to do
  todo,     \* elements of its batch not handled yet
  doing,    \* the sale it is handling
  line,     \* line items of that sale handled
  seen,     \* quantity of the item it is about to write
  stored,   \* uncommitted quantities of the items it has locked
  locked,   \* items locked by its atomic block
  touched,  \* changes made before an updated_at it has not committed
  created,  \* sales whose POSTransaction it has not committed
  done,     \* elements its reply will report stored
  applied   \* history: changes committed

tables  == <<quantity, outdated, rows>>
sale    == <<doing, line, seen>>
block   == <<stored, locked, touched, created>>
vars    == <<tables, made, pc, todo, sale, block, done, applied>>

Elements == Changes \cup Sales

Steps == {"idle", "sales", "read", "write", "changes", "resolve", "reply"}

NothingStored == [i \in Items |-> 0]

TypeOK ==
  /\ quantity \in [Items -> Nat]
  /\ outdated \in SUBSET Changes
  /\ rows \in [Sales -> Nat]
  /\ made \in Seq(Changes)
  /\ pc \in [Workers -> Steps]
  /\ todo \in [Workers -> SUBSET Elements]
  /\ doing \in [Workers -> Sales \cup {None}]
  /\ line \in [Workers -> Nat]
  /\ seen \in [Workers -> Nat]
  /\ stored \in [Workers -> [Items -> Nat]]
  /\ locked \in [Workers -> SUBSET Items]
  /\ touched \in [Workers -> SUBSET Changes]
  /\ created \in [Workers -> SUBSET Sales]
  /\ done \in [Workers -> SUBSET Elements]
  /\ applied \in SUBSET Changes

Init ==
  /\ quantity = InitialStock
  /\ outdated = {}
  /\ rows = [s \in Sales |-> 0]
  /\ made = <<>>
  /\ pc = [w \in Workers |-> "idle"]
  /\ todo = [w \in Workers |-> {}]
  /\ doing = [w \in Workers |-> None]
  /\ line = [w \in Workers |-> 0]
  /\ seen = [w \in Workers |-> 0]
  /\ stored = [w \in Workers |-> NothingStored]
  /\ locked = [w \in Workers |-> {}]
  /\ touched = [w \in Workers |-> {}]
  /\ created = [w \in Workers |-> {}]
  /\ done = [w \in Workers |-> {}]
  /\ applied = {}
-----------------------------------------------------------------------------
(* Helpers                                                                 *)

Made == ToSet(made)

MadeBefore(c, d) == \E m, n \in DOMAIN made : m < n /\ made[m] = c /\ made[n] = d

MadeFor(i) == {c \in Made : Edit[c].item = i}

CurrentLine(w) == Lines[doing[w]][line[w] + 1]

GoTo(w, step) == pc' = [pc EXCEPT ![w] = step]

\* No other atomic block holds the lock of item i.
Free(w, i) == \A v \in Workers \ {w} : i \notin locked[v]

\* An atomic block sees what it wrote itself, else what is committed.
Visible(w, i) == IF i \in locked[w] THEN stored[w][i] ELSE quantity[i]

Store(w, i, q) ==
  /\ Free(w, i)
  /\ stored' = [stored EXCEPT ![w][i] = q]
  /\ locked' = [locked EXCEPT ![w] = @ \cup {i}]

\* The reply lists x among what was stored, or under the errors and conflicts.
ReportStored(w, x) ==
  /\ todo' = [todo EXCEPT ![w] = @ \ {x}]
  /\ done' = [done EXCEPT ![w] = @ \cup {x}]

ReportRefused(w, x) ==
  /\ todo' = [todo EXCEPT ![w] = @ \ {x}]
  /\ UNCHANGED done

EndBlock(w) ==
  /\ stored' = [stored EXCEPT ![w] = NothingStored]
  /\ locked' = [locked EXCEPT ![w] = {}]
  /\ touched' = [touched EXCEPT ![w] = {}]
  /\ created' = [created EXCEPT ![w] = {}]
  /\ todo' = [todo EXCEPT ![w] = {}]
  /\ doing' = [doing EXCEPT ![w] = None]
  /\ line' = [line EXCEPT ![w] = 0]
  /\ seen' = [seen EXCEPT ![w] = 0]

-----------------------------------------------------------------------------
(* Devices                                                                 *)

MakeChange(c) ==
  /\ c \notin Made
  /\ made' = Append(made, c)
  /\ UNCHANGED <<tables, pc, todo, sale, block, done, applied>>

Begin(w, batch, step) ==
  /\ pc[w] = "idle"
  /\ batch # {}
  /\ GoTo(w, step)
  /\ todo' = [todo EXCEPT ![w] = batch]
  /\ UNCHANGED <<tables, made, sale, block, done, applied>>

\* A device may send anything again, not knowing what became of it.
UploadSales(w) == \E batch \in SUBSET Sales : Begin(w, batch, "sales")

UploadChanges(w) == \E batch \in SUBSET Made : Begin(w, batch, "changes")

\* The server does not check that it reported the conflicts being resolved.
ResolveConflicts(w) == \E batch \in SUBSET Made : Begin(w, batch, "resolve")

-----------------------------------------------------------------------------
(* upload_offline_transactions                                             *)

ReportDuplicate(w, s) ==
  /\ pc[w] = "sales" /\ s \in todo[w]
  /\ rows[s] > 0
  /\ ReportStored(w, s)
  /\ UNCHANGED <<tables, made, pc, sale, block, applied>>

\* Seeded fault: no look for a transaction with the same id.
CreateSaleUnchecked(w, s) ==
  /\ pc[w] = "sales" /\ s \in todo[w]
  /\ s \notin Underpaid
  /\ created' = [created EXCEPT ![w] = @ \cup {s}]
  /\ doing' = [doing EXCEPT ![w] = s]
  /\ GoTo(w, "read")
  /\ UNCHANGED <<tables, made, todo, line, seen, stored, locked, touched, done,
                 applied>>

\* OfflineTransactionSerializer.create; then sync_offline_transaction ...
CreateSale(w, s) ==
  /\ pc[w] = "sales" /\ s \in todo[w]
  /\ rows[s] = 0
  /\ s \notin Underpaid
  /\ created' = [created EXCEPT ![w] = @ \cup {s}]
  /\ doing' = [doing EXCEPT ![w] = s]
  /\ GoTo(w, "read")
  /\ UNCHANGED <<tables, made, todo, line, seen, stored, locked, touched, done,
                 applied>>

\* ... which refuses a sale that was not paid before it touches anything;
\* the transaction stays, with sync_status sync_failed.
StoreUnpaid(w, s) ==
  /\ pc[w] = "sales" /\ s \in todo[w]
  /\ rows[s] = 0
  /\ s \in Underpaid
  /\ created' = [created EXCEPT ![w] = @ \cup {s}]
  /\ ReportRefused(w, s)
  /\ UNCHANGED <<tables, made, pc, sale, stored, locked, touched, applied>>

\* complete_transaction, inventory loop: the item is read without a lock.
ReadItem(w) ==
  /\ pc[w] = "read"
  /\ line[w] < Len(Lines[doing[w]])
  /\ seen' = [seen EXCEPT ![w] = Visible(w, CurrentLine(w).item)]
  /\ GoTo(w, "write")
  /\ UNCHANGED <<tables, made, todo, doing, line, block, done, applied>>

\* Seeded fault: no PositiveIntegerField.
WriteItemUnchecked(w) ==
  /\ pc[w] = "write"
  /\ Store(w, CurrentLine(w).item, seen[w] - CurrentLine(w).qty)
  /\ line' = [line EXCEPT ![w] = @ + 1]
  /\ seen' = [seen EXCEPT ![w] = 0]
  /\ GoTo(w, "read")
  /\ UNCHANGED <<tables, made, todo, doing, touched, created, done, applied>>

\* The save writes quantity and status: updated_at stays as it was.
WriteItem(w) ==
  /\ pc[w] = "write"
  /\ seen[w] >= CurrentLine(w).qty
  /\ Store(w, CurrentLine(w).item, seen[w] - CurrentLine(w).qty)
  /\ line' = [line EXCEPT ![w] = @ + 1]
  /\ seen' = [seen EXCEPT ![w] = 0]
  /\ GoTo(w, "read")
  /\ UNCHANGED <<tables, made, todo, doing, touched, created, done, applied>>

FinishSale(w) ==
  /\ pc[w] = "read"
  /\ line[w] = Len(Lines[doing[w]])
  /\ ReportStored(w, doing[w])
  /\ doing' = [doing EXCEPT ![w] = None]
  /\ line' = [line EXCEPT ![w] = 0]
  /\ GoTo(w, "sales")
  /\ UNCHANGED <<tables, made, seen, block, applied>>

-----------------------------------------------------------------------------
(* upload_inventory_changes and resolve_sync_conflicts                     *)

Edited(c, q) ==
  CASE Edit[c].kind = "set" -> Edit[c].qty
    [] Edit[c].kind = "add" -> q + Edit[c].qty
    [] Edit[c].kind = "subtract" -> IF Edit[c].qty < q THEN q - Edit[c].qty ELSE 0

\* select_for_update gets the lock first, so the quantity and updated_at it
\* returns stay current until the block ends.
ReportConflict(w, c) ==
  LET i == Edit[c].item
  IN  /\ pc[w] = "changes" /\ c \in todo[w]
      /\ c \in outdated \cup touched[w]
      /\ Store(w, i, Visible(w, i))
      /\ ReportRefused(w, c)
      /\ UNCHANGED <<tables, made, pc, sale, touched, created, applied>>

\* Seeded fault: updated_at is missing in update_fields.
ApplyChangeSilently(w, c) ==
  LET i == Edit[c].item
  IN  /\ pc[w] = "changes" /\ c \in todo[w]
      /\ c \notin outdated \cup touched[w]
      /\ Store(w, i, Edited(c, Visible(w, i)))
      /\ touched' = [touched EXCEPT ![w] = @ \cup {c}]
      /\ ReportStored(w, c)
      /\ UNCHANGED <<tables, made, pc, sale, created, applied>>

\* Seeded fault: the item is read without select_for_update.
ApplyChangeUnlocked(w, c) ==
  LET i == Edit[c].item
  IN  /\ pc[w] = "changes" /\ c \in todo[w]
      /\ c \notin outdated \cup touched[w]
      /\ stored' = [stored EXCEPT ![w][i] = Edited(c, Visible(w, i))]
      /\ locked' = [locked EXCEPT ![w] = @ \cup {i}]
      /\ touched' = [touched EXCEPT ![w] = @ \cup MadeFor(i)]
      /\ ReportStored(w, c)
      /\ UNCHANGED <<tables, made, pc, sale, created, applied>>

\* The save sets updated_at, which is later than every change made so far.
ApplyChange(w, c) ==
  LET i == Edit[c].item
  IN  /\ pc[w] = "changes" /\ c \in todo[w]
      /\ c \notin outdated \cup touched[w]
      /\ Store(w, i, Edited(c, Visible(w, i)))
      /\ touched' = [touched EXCEPT ![w] = @ \cup MadeFor(i)]
      /\ ReportStored(w, c)
      /\ UNCHANGED <<tables, made, pc, sale, created, applied>>

\* use_mobile writes the quantity the conflict reported for the device.
UseMobile(w, c) ==
  /\ pc[w] = "resolve" /\ c \in todo[w]
  /\ Store(w, Edit[c].item, Edit[c].qty)
  /\ ReportRefused(w, c)
  /\ UNCHANGED <<tables, made, pc, sale, touched, created, applied>>

UseServer(w, c) ==
  /\ pc[w] = "resolve" /\ c \in todo[w]
  /\ ReportRefused(w, c)
  /\ UNCHANGED <<tables, made, pc, sale, block, applied>>

-----------------------------------------------------------------------------
(* How a batch ends                                                        *)

Commit(w) ==
  LET new == {c \in Changes : pc[w] = "changes" /\ c \in done[w]}
  IN  /\ pc[w] \in {"sales", "changes", "resolve"}
      /\ todo[w] = {}
      /\ quantity' = [i \in Items |-> Visible(w, i)]
      /\ outdated' = outdated \cup touched[w]
      /\ rows' = [s \in Sales |-> IF s \in created[w] THEN rows[s] + 1 ELSE rows[s]]
      /\ applied' = applied \cup new
      /\ EndBlock(w)
      /\ GoTo(w, "reply")
      /\ UNCHANGED <<made, done>>

Oversold(w) == pc[w] = "write" /\ seen[w] < CurrentLine(w).qty

\* The items whose locks the next statement of w may wait for.
Wanted(w) ==
  CASE pc[w] = "write" -> {CurrentLine(w).item}
    [] pc[w] \in {"changes", "resolve"} -> {Edit[c].item : c \in todo[w]}
    [] OTHER -> {}

\* PostgreSQL ends one of the blocks that wait for each other.
Deadlocked(w) ==
  \E D \in SUBSET Workers :
    /\ w \in D
    /\ \A v \in D : \E u \in D \ {v} : Wanted(v) \cap locked[u] # {}

\* A statement fails in the database, and with it all that follow; what was
\* handled before keeps its outcome.
Abort(w) ==
  /\ Oversold(w) \/ Deadlocked(w)
  /\ EndBlock(w)
  /\ GoTo(w, "reply")
  /\ UNCHANGED <<tables, made, done, applied>>

Reply(w) ==
  /\ pc[w] = "reply"
  /\ done' = [done EXCEPT ![w] = {}]
  /\ GoTo(w, "idle")
  /\ UNCHANGED <<tables, made, todo, sale, block, applied>>

\* The connection to the database is lost or the process dies; after the
\* commit only the reply is lost.
Fail(w) ==
  /\ pc[w] # "idle"
  /\ done' = [done EXCEPT ![w] = {}]
  /\ EndBlock(w)
  /\ GoTo(w, "idle")
  /\ UNCHANGED <<tables, made, applied>>

Step(w) ==
  \/ \E s \in Sales : ReportDuplicate(w, s) \/ CreateSale(w, s) \/ StoreUnpaid(w, s)
  \/ ReadItem(w) \/ WriteItem(w) \/ FinishSale(w)
  \/ \E c \in Changes :
       \/ ReportConflict(w, c) \/ ApplyChange(w, c)
       \/ UseMobile(w, c) \/ UseServer(w, c)
  \/ Commit(w) \/ Abort(w) \/ Reply(w)

Next ==
  \/ \E c \in Changes : MakeChange(c)
  \/ \E w \in Workers :
       \/ UploadSales(w) \/ UploadChanges(w) \/ ResolveConflicts(w)
       \/ Step(w)
       \/ Fail(w)

Spec == Init /\ [][Next]_vars

-----------------------------------------------------------------------------
(* Properties                                                              *)

(* Every upload is one atomic batch of the abstract shelf, whatever fails, *)
(* is lost or is sent again: a change or a sale never happens twice.       *)
AbstractShelf == INSTANCE Shelf WITH uploaded <- {s \in Sales : rows[s] > 0}

ImplementsShelf == AbstractShelf!Spec

(* Once a change is made to an item, no change made earlier on any device  *)
(* is made to it any more, in whatever order the devices upload.           *)
NewestWins ==
  [][\A c \in applied' \ applied, d \in applied :
       Edit[c].item = Edit[d].item => MadeBefore(d, c)]_vars
=============================================================================
