# Verification of the ZARGAR jewellery platform

ZARGAR is a multi-tenant Django application for jewellery shops: a point of
sale that also works offline, stock, customers, gold instalment contracts,
layaway, accounting, and the administration of the tenants themselves. It runs
on PostgreSQL (READ COMMITTED, `ATOMIC_REQUESTS` off, so autocommit except in
explicit `atomic` blocks), with gunicorn workers serving requests and Celery
workers running periodic tasks.

This directory holds TLA+ models of the parts where money, stock and backups
meet concurrency and failure, the TLC configurations that check them, and TLAPS
proofs. All paths below are relative to the repository.

| file | content |
|---|---|
| `OfflineSync.tla` | replay of sales stored offline (`zargar/pos/models.py`, `zargar/pos/services.py`) |
| `OfflineSync_proofs.tla` | proofs about it |
| `POSCounter.tla` | requests of the sales counter (`zargar/pos`) |
| `POSCounter_proofs.tla` | proofs about it, the refinement of `Till` among them |
| `Till.tla` | what a till promises; `POSCounter` with one terminal implements it |
| `MobileSync.tla` | uploads from mobile devices (`zargar/api/offline_sync.py`) |
| `MobileSync_proofs.tla` | proofs about it, the refinement of `Shelf` among them |
| `Shelf.tla` | what a shop expects of these uploads; `MobileSync` implements it |
| `TenantBilling.tla` | invoices, payments and suspension of tenants (`zargar/tenants`) |
| `TenantBilling_proofs.tla` | proofs about it |
| `Ledger.tla` | journal entries, account balances and cheques (`zargar/accounting`) |
| `Ledger_proofs.tla` | proofs about it |
| `BackupStore.tla` | a backup from its row to its removal (`zargar/core/backup_manager.py`, `storage.py`) |
| `BackupStore_proofs.tla` | proofs about it |
| `BackupSchedule.tla` | the schedules of backups (`zargar/core/backup_tasks.py`, `zargar/system/models.py`) |
| `BackupSchedule_proofs.tla` | proofs about it |
| `Sums.tla` | theorems about sums over finite sets, used by three of the proof modules |
| `MC*.tla`, `*.cfg` | the instances TLC checks |
| `PROJECT.json` | components, runs, seeded faults, hazards, findings and the source lines of every definition |

Run them with `tlc -config OfflineSync_single.cfg MCOfflineSync` and
`tlapm OfflineSync_proofs.tla`.


## 1. Inventory

### The core: selling

**Offline storage and replay** (`POSOfflineStorage`, `OfflinePOSSystem`,
`POSOfflineService`, the admin action).
*State:* one row per sale with `sync_status`, `is_synced`, `has_conflicts`,
`sync_retry_count` and the transaction made for it; the `POSTransaction` and
its line items; `JewelryItem.quantity` and `status`; the customer's totals.
*Operations:* store a sale; sync a device's pending and failed sales; sync all
unsynced sales of a device or of the shop; sync the ones ticked in the admin;
list and resolve conflicts (retry or skip); clean up synced rows.
*Hard:* `sync_to_database` writes about ten rows in autocommit, so it can stop
between any two of them; every request works on the instances its queryset
loaded and saves single columns of them; nothing keeps two requests from
working on the same sale; retries are bounded and resolving resets them.
*Correct means:* a sale marked synced really is a complete transaction and
stays synced; every sale ends as synced or as a conflict someone sees; the
stock falls by what was sold; an item is `sold` exactly when none is left.

**Sales counter** (`POSTransactionService`, `POSTransaction`, `POSInvoice`).
*State:* the transaction with its totals and status, its line items, its
one-to-one invoice, the stock, the customer's totals and points.
*Operations:* open a transaction, add a jewellery item or a custom item, remove
a line, pay (complete and bill), cancel.
*Hard:* paying is one atomic block that reads the line items three times and
the items and customer without a lock; ringing up and cancelling are single
statements on stale instances; any number of terminals may work on one
transaction; two payments may lock items in opposite orders.
*Correct means:* a sale is billed once or not at all, with the stock, the bill
and the completion falling together; what is billed is what left the stock; a
bill is never changed; every request ends.

**Mobile synchronisation** (`api/offline_sync.py`).
*State:* the same tables, `JewelryItem.updated_at`, and what each device was told.
*Operations:* upload a batch of sales, upload a batch of stock changes, resolve
conflicts; the manifest, download and status endpoints only read.
*Hard:* one atomic block per batch, but a handler per element inside it that
swallows database errors; lost replies and repeated batches; changes of several
devices arriving in any order; locks taken in the order the device lists.
*Correct means:* each batch is all or nothing, a sale or a change happens at
most once, a newer change is never overwritten by an older one, and the reply
says what happened.

**Client queue** (`static/js/pos-interface.js`, `pos-offline-sync.js`): sales
kept in the browser's storage and sent again on a timer and when the connection
returns. A second set of **REST endpoints** (`api/mobile_views.py`) uploads
without locks or a check for repetition.

The three parts share the stock. They are modelled one at a time, each with
several requests in flight, because they meet in the statement
that reads an item and writes it back (`POSTransaction.complete_transaction`),
which all three models contain step by step. A sale made by another part is like a
sale of one more worker. A stock change from a device is not: `ApplyChange` and
`UseMobile` add to a quantity, subtract from it or set it, without a sale and
without touching `status`, so that `NoPhantomSale`, `StockConserved` and
`SoldIffEmpty` are about a stock that only sales write, and fail in the code once a
device counts an item anew.

### Administration

**Tenant billing** (`zargar/tenants`: `billing_services.py`, `admin_models.py`,
two management commands).
*State:* `TenantInvoice` rows with number, period, due date and status;
`BillingCycle.next_billing_date`; `Tenant.is_active`.
*Operations:* an administrator makes a monthly, yearly or custom invoice,
records a payment, switches a tenant on or off; `generate_monthly_invoices`
bills who is due; `process_overdue_invoices` marks what is late, sends
reminders and suspends.
*Hard:* a period and a number are looked for and then inserted; the batch is one
atomic block with a handler per tenant; the overdue run works on rows it read
when it began; an e-mail that fails ends a run or leaves a date where it was.
*Correct means:* a tenant is billed once for a period, in every month, and the
date moves only when it was; who is suspended was late; what is late is noticed when
the command is run.

**Accounting** (`zargar/accounting`).
*State:* journal entries and their lines, account balances, cheques, the bank's
balance.
*Operations:* change and post an entry; present, clear, bounce, cancel and
change a cheque.
*Hard:* posting and clearing are chains of statements in autocommit; statuses are
checked on loaded instances; balances are read, added to and written back.
*Correct means:* posted entries balance and stay as they are; balances are the
sum of what is posted; deposits are those of cleared cheques.

**Backups** (`zargar/core/backup_manager.py`, `storage.py`, `backup_tasks.py`).
*State:* `BackupRecord` rows with status and expiry, copies in two backends,
queued verifications.
*Operations:* daily, weekly, tenant and snapshot backups; verification; cleanup.
*Hard:* one backend may fail where the other does not; tasks die, are retried and
overlap; file and row are removed one after the other.
*Correct means:* a completed backup has its file; only a damaged one is called
corrupted; what has expired goes, file and row.

**Backup schedules** (`BackupSchedule`, `process_scheduled_backups`).
*State:* next run and counters of each schedule, the queue.
*Operations:* every minute queue a task for what is due; a task makes its backup
and records the run.
*Hard:* a schedule is due until its task has recorded the run, so that it is queued
again every minute; records overlap; a task is retried after its run was recorded.
*Correct means:* slots still to come are not passed over (those of a later hour, day
or month, see section 9), runs are counted, what is due is run.

### Around it

| component | state and operations | what is hard |
|---|---|---|
| gold instalment contracts (`zargar/gold_installments`) | contract balance in grams, payments, corrections, completion | status and balance of an instance loaded before another payment; discount rounding |
| layaway (`zargar/customers/layaway_*`) | plan, payments, schedule, refunds, reminders | a payment recorded by the service and again by the plan |
| restoration and disaster recovery (`zargar/admin_panel`) | restore job and snapshot records | external programs |
| notifications (`zargar/core/notification_*`) | scheduled, sent, failed | a slow run and the next one send the same notification |
| loyalty and customers (`zargar/customers`) | points, offers, referrals | read, compare and write back without a lock |
| jewellery services (`zargar/jewelry/services.py`) | serial numbers, thresholds, valuation | the highest number plus one, unlocked |
| suppliers (`zargar/customers/supplier_*`) | purchase orders, deliveries | partial receipts |
| gold prices, authentication, roles, two-factor, settings, health, reports, calendar, templates | see `PROJECT.json` | checks of single requests, caches, formatting |

`PROJECT.json` lists the hazards at the line where they bite, the ones no
property covers included.


## 2. Plan

Done, in this order: `OfflineSync`; `Till` and `POSCounter`; `Shelf` and
`MobileSync`; `TenantBilling`; `BackupStore` and `BackupSchedule`; `Ledger`; and
the proofs of every safety invariant, action property and refinement that the
runs of these modules check. The order follows the damage: stock and takings
first, and among them the code that has no transaction around it first of all;
then what bills tenants, keeps books and keeps backups.

Next:

1. Proofs that use those that are done: what `Till` and `Shelf` promise on their
   own (a unit sold is billed once, a change happens once), so that it need not be
   proved again for what implements them.
2. A `NotificationScheduler`: a periodic task that selects pending work while the
   previous run is still busy, as `BackupSchedule` does for backups.
3. A `ClientQueue` composed with `OfflineSync`'s interface: a sale rung up offline
   is stored on the server at least once.
4. Serial numbers, points and offers: three instances of read, compare and
   write.


## 3. OfflineSync

A worker is one request. `Begin*` reads its batch, as the evaluation of the
queryset does, and keeps of every instance what the code uses later
(`snap`: the retry counter and the conflict flag). It then goes through the
batch record by record, in any order, one committed statement per step:

| code (`sync_to_database`, `complete_transaction`) | action |
|---|---|
| `sync_status = 'syncing'`, count the attempt, save | `StartSync` (`StartOnDeleted` if cleanup removed the row) |
| `POSTransaction.objects.create` and the save of its date | `CreateTx` |
| `POSTransactionLineItem.objects.create` in a loop | `AddLine` |
| `if amount_paid >= total_amount` | `EndOfLines` |
| read the item, write `quantity` and `status` | `ReadItem`, `WriteItem`; `RefuseWrite` when the CHECK of a `PositiveIntegerField` fails |
| customer statistics and points, status `completed` | `Complete` |
| mark the record synced | `MarkSynced` |
| an exception anywhere | `Raise`, then the `except` branch `SaveFailure` |

`ResolveRetry`, `ResolveSkip` and `ResolveMergeRefused` are
`resolve_sync_conflicts`, `Cleanup` is `cleanup_old_transactions`, and `Crash`
ends a request anywhere, leaving what it committed.

`covered` is the number of line items in the instance's `total_amount` when it is computed (none:
the line items come later), and `tx.credited` what the customer was credited.
`taken` and `crashes` are history variables and guard nothing but the bound on
crashes.

*Abstracted:* amounts (a record is `Paid` or not), customers (only what was
credited), wording of errors, the order of a batch (any order), which synced
rows are old enough to clean up (any), which records the administrator ticks
(any).

### Runs

| run | question | result |
|---|---|---|
| `sync_single` | one request at a time, a failure possible at every statement, one crash: does every sale that is taken up again and again settle, are conflicts only exhausted sales, is the stock conserved? | holds |
| `sync_concurrent` | two requests with overlapping batches: is a synced sale backed by a complete transaction for good, does the stock never fall by more than was sold, is `sold` always right? | holds |

*Bounds.* Two records, of two devices, that compete for one of two items: the
first has two line items, so that a failure can fall between them, and the
second one. Stock for two attempts at the first item but one at the second, so
that an attempt can fail in the middle of the inventory loop. `MaxRetries` 2
lets a failed attempt be retried and be exhausted; in the concurrent run it is
1, since the second attempt comes from the second request.
`MaxTx` bounds the transactions, hence the attempts that get so far: when it
is reached, an attempt can still fail, so no behaviour is cut off in the middle
of a request. Three suffice for a leaked transaction, a retried sale and
another sale.

*Fairness.* The server finishes a request it has begun (weak fairness of its
steps; a worker is a thread with nothing to wait for). Nothing makes a request
happen: the timer of `pos-offline-sync.js` posts while the browser's own queue in
`localStorage` holds pending sales (lines 155-177 and 376-381), whatever rows the
server still has to sync, so that a row that failed on the server is not asked for
again once that queue is empty; and `sync_offline_transactions` returns before it
reads a row when `_check_connection` finds no internet (`pos/models.py:1419-1425`),
which changes nothing and is a stuttering step here. `SettlesIfTakenUp` therefore
has its premise in the formula: *if* requests take a sale up again and again, it is
synced or in the list of conflicts again and again. What it excludes is that
attempts go on without end: uncounted, reset by every resolution, or cut off.

### Observations without a run

These follow from the model as well and are recorded here for the maintainers:

- A request killed after `StartSync` leaves its row in `syncing`, which no device
  sync selects. Syncing all unsynced sales or ticking it in the admin would take it
  up again, but nothing does so by itself; the premise of `SettlesIfTakenUp` fails
  for such a row, and for one that failed and is not asked for again.
- Each attempt makes a transaction of its own: one that fails later, or a second
  request on the same record, leaves one more completed or pending transaction,
  which is why `SyncedIsBacked` speaks of the one the record names.
- The customer of a replayed sale is credited with a total of zero line items,
  because the totals are computed before the line items exist.
- `ResolveSkip` leaves the status `failed`, which the next device sync selects:
  a skipped sale is synced after all.
- A second sync of an already synced sale that fails leaves `is_synced` true
  and `sync_status` `failed`.
- Two replays that read one item before either writes lose a decrement; this is
  why the concurrent run checks `NoPhantomSale` and only the sequential one the
  equality `StockConserved`.

### Proofs

`OfflineSync_proofs.tla` proves, for any records, devices, items, workers, line
items, stock and bounds that satisfy `SyncAssumptions`:

| theorem | statement |
|---|---|
| `TypeCorrect` | `Spec => []TypeOK` |
| `SyncedBacked` | `Spec => []SyncedIsBacked` |
| `SyncedFinal` | `Spec => SyncedIsFinal` |
| `StockNotInvented` | `Spec => []NoPhantomSale` |
| `SoldMarkRight` | `Spec => []SoldIffEmpty` |
| `StockKept` | `ASSUME OneWorker PROVE Spec => []StockConserved` |
| `ConflictsAreExhausted` | `ASSUME OneWorker PROVE Spec => []ConflictIsExhausted` |

The first five rest on three inductive invariants, each built on the one before.
`BasicInv` adds to the types where a worker stands: a busy one has a record,
one past `CreateTx` has a transaction, its line counter is within the record's
line items. (`TypeOK` alone is not inductive: `AddLine` needs a transaction to
add to.) `BackedInv` is about ownership: the transaction under construction
belongs to one worker (`Ownership`), holds as many lines as that worker has
inserted (`Construction`), and is never one a synced record already names
(`Released`); therefore a record marked synced names a complete transaction,
and nobody changes it afterwards. `StockInv` carries the bound of
`NoPhantomSale` and the sold mark from an item to what a worker read of it
(`SeenInv`): later writes only widen the bound, so an old read is as good as a
new one.

The last two are about one request at a time (`OneWorker`: any two workers are the
same), as the run `sync_single` is. The hypothesis is needed: of two requests that
read an item before either writes, one decrement is lost, and one that resolves a
conflict under another's stale instance has its reset overwritten column by column.
`ExactInv` adds that what a worker has read of an item is what the item still holds
(`SeenExact`). `ConflictInv` adds that the instances of a batch agree with their rows
in the retry counter and the conflict flag (`InstanceSo`), for as long as the record
is in the batch: the saves of a failure write the counter of the instance, so that
without it a counter could fall behind the flag.

The assumptions say nothing that the code does not guarantee: line item
quantities are positive and stock is a natural number (both are validated or
constrained columns), and `None` is not a record.


## 4. POSCounter and Till

A worker is again one request. Ringing up, removing and cancelling run in
autocommit and are two or three steps: the read or check, and the write that
uses it. A payment is one atomic block: what it writes is kept in `stored`,
`known` and `inst`, its rows are in `locked`, and `Commit` publishes all of it
together with the invoice. A read sees the block's own writes or the committed
value (`Visible`); a write waits for the row lock (`Free`).

| code | action |
|---|---|
| `add_jewelry_item_to_transaction`, `add_custom_item_to_transaction` | `BeginAdd`, `InsertLine`, `Recount`, `SaveTotal` |
| `remove_line_item` | `RemoveLine`, `Recount`, `SaveTotal` |
| `cancel_transaction` | `BeginCancel`, `Cancel` |
| `process_payment` | `BeginPay`, `AcceptPayment` or `RefusePayment` |
| `complete_transaction` | `ReadLines`, `ReadItem`/`WriteItem` or `SkipCustomItem` per line, `ReadCustomer`, `CreditCustomer`, `Tally`, `SaveCompleted` |
| `_create_invoice` and the end of the block | `Commit` |
| a CHECK or UNIQUE constraint, a deadlock ended by PostgreSQL | `Rollback` |
| any other error, or the death of the process | `Fail` |

`Till` is what this amounts to from outside: ringing up changes the lines,
`Sell` bills the lines, takes their units and completes the sale in one step,
and only an unbilled sale can be sold. `ImplementsTill` is the statement that one
terminal, with all its statements, refusals and failures, does nothing else; the
variables correspond by name (`taken` is a history variable of `POSCounter`: the
lines whose units committed payments took). With two terminals the till is not
implemented, since the line items may change between the three reads of a
payment; the promises that survive are stated one by one in `counter_concurrent`.

| run | question | result |
|---|---|---|
| `counter_single` | does one terminal implement the till, and is every billed customer credited? | holds |
| `counter_concurrent` | with two terminals: does the stock fall only by billed sales, is a completed sale billed, and does a line leave the stock once? | holds |
| `counter_live` | do payments that lock two items in opposite orders end? | holds |

*Abstracted:* every line costs the same, so an amount is a set of lines and
compares by its size; the customer pays the total the terminal shows (the case
in which the check in `process_payment` can go wrong through a change of lines;
a customer who pays another amount is refused or gets change, which touches no
state). Discounts and tax only change amounts and have no caller in the
application. `JewelryItem.status` is left to `OfflineSync`, where it is
computed by the same lines.

*Bounds.* In `counter_single` two sales of two lines each compete for two items
and name the same customer; stock for only one of them. In `counter_concurrent`
they have one line each and compete for one item and one customer.
`MaxRemovals` bounds the line items deleted; a line is not added again under
the same id, so this cuts only the repetition of removing. In `counter_live`
the lines, one of them a custom item, are rung up from the start, so that the
state space is the payments.

*Fairness.* Strong fairness of each request's next statement: the row locks a
statement waits for are released when the other block ends, PostgreSQL serves
waiters in turn, and it ends one of the blocks in a deadlock. Without the last
(`RollbackNoDeadlock`) the requests wait for ever. Nothing is assumed about new
requests being made, nor about `Fail`.

*Observations without a run.* A cancellation that read the sale as pending is
written after a payment that committed in between: the sale is billed, out of
stock and cancelled. Lines can still be added to a completed sale,
whose bill does not follow; a line added by another terminal during a payment
is billed but was not paid for; two payments of one customer overwrite each
other's totals.

### Proofs

`POSCounter_proofs.tla` proves, for any transactions, items, customers, line items
and workers that satisfy `CounterAssumptions`:

| theorem | statement |
|---|---|
| `CounterTypes` | `Spec => []TypeOK` |
| `NoSaleIsInvented` | `Spec => []NoPhantomSale` |
| `CompletionsAreBilled` | `Spec => []CompletedIsBilled` |
| `LinesAreTakenOnce` | `Spec => []UnitsTakenOnce` |
| `CounterImplementsTill` | `ASSUME OneWorker PROVE Spec => ImplementsTill` |
| `BilledSalesAreCredited` | `ASSUME OneWorker PROVE Spec => []CustomerIsCredited` |

None of them is inductive, since a commit publishes what a block has gathered long
before. `CounterInv` therefore says of each open block what its commit will make
true. `Position` says which transaction a request is about and that its loop
has handled lines of that transaction only, none twice. `Covered` extends
`NoPhantomSale` to what a block has stored, and to what it is about to store: that
quantity, with what this block has subtracted and what is sold, is at least
the initial stock. A commit by another worker only makes it larger. `Counted`
says that a block has subtracted the units of the lines it has handled, which is
a sum over a finite set (`Finite`), and that a line once taken has a billed
transaction, so that the unique invoice refuses to take it again.

With one worker `TillInv` adds that the lines of the sale are those the block has
handled and has yet to handle, since nobody rings up meanwhile (`AtTill`), and that
it knows all purchases of its customer (`PurchasesKnown`). Then `Commit` is
`AbstractTill!Sell`, and every other step rings up, cancels or stutters
(`TillRefines`). Both fail for two workers; see the observations.


## 5. MobileSync and Shelf

Devices make changes (`MakeChange`, in the order in which they are made) and
send batches: `UploadSales`, `UploadChanges`, `ResolveConflicts`. A device may
send the same batch any number of times, also while the first is still being
served. A worker handles the elements in any order inside one atomic block, as
in section 4, and records in `done` what its reply will report as stored. The
end of a batch is one of

- `Commit`: everything written becomes visible;
- `Abort`: a statement failed in the database (`Oversold`: the quantity would
  become negative; `Deadlocked`). The handler of the element swallows the error,
  all later statements fail too, the block is rolled back, and the reply keeps
  the outcomes recorded before;
- `Fail`: the request dies, before or after the commit, without a reply.

`Reply` ends the request with what `done` holds.

The code compares an item's `updated_at` with the time of a change. The model
keeps the outcome of the comparison: `outdated` holds the changes made before
the last save of their item that set `updated_at`. `ApplyChange` does set it;
`complete_transaction` and `use_mobile` save named columns without it and so
leave `outdated` alone.

`Shelf` has one step per batch: `Adjust` makes changes to the quantities as they
are, `Sell` stores sales and takes their units if there are enough, `Settle`
writes quantities someone chose. No change or sale happens twice. The refinement
maps `uploaded` to the sales with a row and keeps the other names.

| run | question | result |
|---|---|---|
| `mobile_changes` | two requests with overlapping batches of changes: all or nothing, at most once, and never an older change over a newer one? | holds |
| `mobile_sales` | one request at a time, sales and stock changes: all or nothing and at most once? | holds |

*Bounds.* `mobile_changes`: two changes of one item and one of another, so that
batches overlap, conflict and deadlock; each of the three kinds of change
occurs, and subtracting exceeds the stock. `mobile_sales`: three sales and
the same three changes; stock for the first or the second sale but not both, a third that was
not paid and sells nothing. Two requests that upload the same sale at
the same time both create it: the look for its id is not backed by a
constraint, so the sequential bound is part of the statement of that run, and
the duplicate is listed among the hazards.

*Observations without a run.* After `Abort` the reply reports the sales handled
before the failing one as synced, although the whole batch was rolled back.
Sales leave `updated_at` as it is, so a count made before a sale is no conflict
and overwrites what the sale left; so does a resolved conflict.

*Abstracted:* device clocks are exact; sales carry an `offline_transaction_id`
and changes a timestamp (the code has no protection against repetition without
them); sales are to walk-in customers; a batch lists an element once. The conflict
report gives the quantity of a change as `mobile_quantity` whatever its kind,
and `use_mobile` writes it, which `UseMobile` does as well.

### Proofs

`MobileSync_proofs.tla` proves, for any items, changes, sales and requests that
satisfy `MobileAssumptions`:

| theorem | statement |
|---|---|
| `SyncTypes` | `Spec => []TypeOK` |
| `NewestChangeWins` | `Spec => NewestWins` |
| `UploadsImplementShelf` | `ASSUME Sales = {} \/ OneWorker PROVE Spec => ImplementsShelf` |

`NewestWins` is about the moment of a commit, but what decides it was read earlier,
by a block that others overtake. `SyncInv` connects the two. A change that was
applied makes all older ones of its item `outdated` (`Applied`). A block has the
items of the changes it made locked and alone (`Locks`), so that no other commit
outdates them, and has touched every older change of the same item (`BlockOf`),
so that its commit outdates these as well.

For the refinement `ShelfInv` says what an open block has stored, relative to
the committed quantities, by the kind of its batch: of a batch of changes, the
edited quantity of each item with a change that is done, of one at most
(`Adjusting`); of resolutions, a quantity some change names (`Settling`); of
sales, the quantity less the units of the lines handled so far (`Selling`), a sum
that grows by one line with each `WriteItem`. `Commit` is then one step of
`Shelf`, an abort or a lost reply none.

The hypothesis is that there are no sales or one request at a time. It is the
disjunction of what the two runs check, and what the code needs: nothing but
the look for its id keeps two requests from both creating a sale, and the second
commit would take its units again. Batches of changes need no such hypothesis,
because they lock before they compare.


## 6. TenantBilling

Three kinds of process: a clerk is a request of an administrator, a batch is a
run of `generate_monthly_invoices`, a collector a run of
`process_overdue_invoices`. Clerks and collectors run in autocommit. A batch is
one atomic block: the invoices it has inserted (`draft`) are seen by it alone
(`Seen`), who wants to insert one of their numbers waits, the billing dates it has
written (`moved`) become visible when it ends, and a crash takes all of it back.

| code | action |
|---|---|
| `InvoiceCreateView.post`, the look for an invoice of the period | `BeginInvoice` |
| `generate_invoice_number` | `DrawNumber` |
| the insert and its log entry; the unique number refused; a log entry with nobody to name | `CreateInvoice`; `RefuseInvoice`; `UndoUnlogged` |
| the query and the loop of `generate_monthly_invoices_batch` | `BeginBatch`, `NextCycle` |
| `send_invoice_notification`, `calculate_next_billing_date` | `NotifyFails`, `AdvanceCycle` |
| the end of the command's atomic block | `CommitBatch` |
| `InvoicePaymentProcessView`, `manual_payment_processing` | `BeginPayment`, `CommitPayment` |
| `TenantToggleStatusView` | `SwitchTenant` |
| the command's own loop over late invoices | `BeginCollection`, `CycleMissing`, `MarkOverdue`, `ReminderFails`, `Suspend` |
| `process_due_invoices`, which it ends with | `BeginService`, `MarkOverdue`, `ReminderFails`, `CycleMissing`, `SuspendToday`, `EndCollection` |

The templates `admin/billing/invoice_email.*` do not exist, and they are rendered
outside the `try` block: for a tenant with an `owner_email` (`Emailed`) every
notification raises. In the batch the error is caught and the tenant's date stays;
in the overdue run it ends the run.

A tenant has a `BillingCycle` only after one was set up for it; the batch never
sees one without (`Uncycled`). The overdue run does, and looks the cycle up without
asking whether there is one. In the command's loop the look-up (line 55 of
`process_overdue_invoices.py`) comes before the invoice is marked (lines 64-65): it
raises, the run ends, the row stays pending, and since the loop goes by descending
date of issue, hence of due date, every later run ends at the same row, before it comes to the invoices
behind it (`Blocked`). In the service it comes after the marking and the reminder
(`billing_services.py:490-497`). `CycleMissing` is both.

`generate_monthly_invoices` has an option `--admin-user`, which names the user of the
log entries. Without it (`logs` false) the log entry of each invoice raises, the
savepoint around it is undone, and the batch goes on with the next tenant and bills
nobody (`UndoUnlogged`).

| run | question | result |
|---|---|---|
| `billing` | is a period billed once per process that looked for it at most, is who is suspended late, does the date move only for who was billed; if the commands are run again and again, is what is late noticed, and who is due billed, unless a missing cycle is in the way? | holds |

*Bounds.* Three tenants: one with an e-mail address, one without a billing cycle,
one with neither peculiarity; one process of each
kind, each of which runs any number of times; one request of an administrator,
which is enough to race each step of the commands; one crash. Three days of one
month, invoices due on the day they are made and one day of grace: an invoice can
be late, within grace and past it. `MaxSeq` 3 numbers of a month: a bill for each tenant, and a fourth would be refused. Administrators
bill for a month or a custom period (`Kinds`): in a single year a yearly bill takes
the way of a monthly one. `NextBillingDate` assumes billing on the first of a month,
and one month in this instance, so that a date that was moved on lies beyond
the last day.

*Fairness.* A process that has begun and does not die goes on (weak fairness of
`Step`). Nothing else: the repository schedules neither command, days need not pass,
and no request need be made. That the commands are run is a premise of the two
liveness properties, in their formulas. `NoticedIfCollected` says that if the
overdue command comes to its own loop again and again (`Collecting`), each late
invoice is noticed, though every reminder that raises ends a run; it excepts what is
`Blocked` by an invoice of a tenant without a cycle. `BilledIfRun` says that if
batches with an administrator (`--admin-user`) are run again and again, whoever is
due is billed within the month, though e-mails fail, numbers are refused, and batches
without one are run between. Either premise is met only by whoever operates the
platform.

*Abstracted:* amounts, plans and the content of logs; every tenant has a plan, and a cycle is a
monthly one. The block of a payment is one step, since what it reads is used by its last statement
only. The addition of a `relativedelta` to a Persian date gives the next month,
as `tests/test_subscription_billing_backend.py` expects; were it to raise, every tenant would
behave like one with an e-mail address.

*Observations without a run.*

- Each process that looked for an invoice before the first one was committed makes
  one of its own; nothing but the number is unique. This is what
  `BilledOncePerProcess` allows.
- A batch that is overtaken by the end of the month bills one month and moves the
  date past the next, which is never billed by the command. `BilledIfRun` is
  therefore stated for a moment at which no batch is under way.
- One pending invoice, past its due date, of a tenant without a billing cycle stops
  the overdue command for good: no run marks it, and none gets to an invoice that was due earlier.
- `generate_monthly_invoices` without `--admin-user` logs an error for each tenant
  and bills nobody.
- `MarkOverdue` saves a row read earlier: a payment recorded in between is
  overwritten, its reactivation of the tenant is not.
- An invoice marked overdue within the grace period is selected by neither loop
  again: its tenant is never suspended for it.
- A payment reactivates the tenant whatever else it owes.

### Proofs

`TenantBilling_proofs.tla` proves, for any tenants, processes, days and numbers that
satisfy `BillingAssumptions`:

| theorem | statement |
|---|---|
| `BillingIsKept` | `Spec => []BillingInv` |
| `BillingTypes` | `Spec => []TypeOK` |
| `SuspensionFollowsLateness` | `Spec => []SuspendedWasLate` |
| `BilledOncePerProcessKept` | `Spec => []BilledOncePerProcess` |
| `BilledBeforeMoved` | `ASSUME OneBatch PROVE Spec => MovedWasBilled` |

`SuspendedWasLate` is not inductive: a process suspends a tenant for an invoice it
holds since an earlier day, and the crash of a batch takes invoices out of the table.
`BillingInv` therefore says that the invoices an overdue run or a payment holds
are committed (`Position`: such a process saw them with no block of its own open, and
no rollback removes them, `CommittedStep`), that the day it began is not in the future,
that every invoice has an owner (`Owned`), and that the late invoice of a suspended tenant is a
committed one (`SuspendedForGood`).

`BilledOncePerProcess` counts invoices against processes. `AuthorInv` says why the
count is right: each invoice has an author (`Authored`), two invoices of a tenant
and period have different ones, and no process is about to write an invoice of a
period it has written one of already. An invoice that a process did not see when it
looked was in another's open block (`UnseenIsForeign`), or did not exist; either way
it is not its own. An injection into a finite set gives the bound; that is why
`BillingAssumptions` asks for finitely many clerks and batches.

`MovedWasBilled` needs one batch at a time (`OneBatch`: any two processes that run
`generate_monthly_invoices` are the same). A second one that selected a tenant
before the first has committed may write a date that lies before the one the first
wrote; TLC shows it as soon as two batches may run and there is more than one month.
`BatchInv` follows the one batch through its block: the dates it has in hand are
those in the table, and each date it has moved belongs to an invoice of the month
that it can see, of its own or committed (`Covers`), until both become visible
together.


## 7. Ledger

A clerk is a request; entries are made as drafts with lines (`Drafts`). The view
that creates entries cannot do so with lines (the model's `clean` looks at the
lines of an entry that has no key yet and raises), so that entries come from the
model's own interface; posting and changing are the views'.

| code | action |
|---|---|
| `PostJournalEntryView`, `can_be_posted` of the row it loaded | `LoadEntry`, `RefusePost` |
| `post`: status, then line by line | `SavePosted`, `ReadLines`, `EndPost` |
| `ChartOfAccounts.update_balance` | `ReadAccount`, `WriteBalance` |
| `JournalEntryUpdateView`: `get_object` and `clean`, then one atomic block | `BeginEdit`, `CommitEdit` |
| `ChequeStatusUpdateView` with its four actions | `LoadCheque`, `RefuseSettlement`, `Settle` |
| `ChequeManagementUpdateView` | `LoadCheque`, `ChangeCheque` |
| `BankAccount.update_balance` | `ReadBank`, `WriteBank` |
| `create_clearance_journal_entry`, `create_bounce_journal_entry` | `Voucher` |
| a statement that fails, a process that dies | `Crash` |

Concurrent requests about one entry or cheque do break it (below), so the
properties say what holds *unless* that happened: `raced` records the entries and
cheques with overlapping requests, `broken` the kind of balance of which an update
was lost or cut short. Both are history variables and guard nothing. With them,
`BooksAgree` compares every account's balance with `get_balance_as_of_date`, the
sum of its posted lines, after any sequence of posting and editing of any entries
by several clerks.

| run | question | result |
|---|---|---|
| `books` | do posted entries balance and stay as they are, and do balances agree with what is posted and deposited, where requests did not overlap and break off? | holds |
| `voucher` | has a cleared cheque a posted journal entry, as the tests say? | violated |

*Bounds.* Two clerks, so that a request is overtaken at every step; two entries
that share both accounts; lines that balance and lines that do not; two cheques;
four requests, which is present, clear and two more about the same cheque, or
change, post, change and post an entry; one crash.

*Abstracted:* balances are counted in debits, the lines of an entry are its net
debits by account, and a cheque is a received one of amount 1 (an issued one has
no deposit). Drafts that cheques leave behind are listed in `strays` and not posted
or changed, since they are entries with unbalanced lines like any other. An entry
that two overlapping edits give lines to has the later ones; in the code it has
some of both, and it is `raced` either way.

*Observations without a run.*

- Every request to clear a cheque fails, after it has committed the status and the
  deposit: the entry it makes has one line. Bouncing fails likewise, with an entry
  of no line.
- Two clearings that both loaded the cheque as presented deposit it twice, or
  lose one deposit of another cheque.
- An edit loaded before its entry was posted writes the status back to draft,
  with other lines: the entry can be posted again. An edit that commits between
  the check and the reading of the lines makes unbalanced lines posted.
- A request that breaks off during posting leaves an entry that is posted and an
  account without its line; nothing repairs it.
- The amount of a cheque can be changed after it was cleared.
- `BankAccountUpdateView` (`accounting/views.py:475-486`) saves the whole row it has
  loaded, `current_balance` included: it can write an old balance over a deposit made
  meanwhile. Changes of a bank account's master data are not in the model, so
  `DepositsAgree` is about a bank account that only cheques write.

### Proofs

`Ledger_proofs.tla` proves, for any clerks, and any finite sets of entries, accounts and cheques,
and any lines that satisfy `LedgerAssumptions`:

| theorem | statement |
|---|---|
| `TypeCorrect` | `Spec => []TypeOK` |
| `PostedBalanced` | `Spec => []PostedIsBalanced` |
| `PostedFinal` | `Spec => PostedIsFinal` |
| `BooksKept` | `Spec => []BooksAgree` |
| `DepositsKept` | `Spec => []DepositsAgree` |

`BasicInv` adds to the types what the request of each step is about (`Position`):
posting and editing an entry, settling a cheque. `BalancedInv` adds two facts. An
entry or cheque that has not been `raced` is the subject of one clerk at most
(`Alone`), because `Begin` marks it when it is taken a second time. And what that
clerk has loaded is still so (`StillSo`): a clerk about to post what it found
postable has an entry that is still a balanced draft, one that edits has an entry
that is not posted. Hence posting and editing preserve `PostedIsBalanced` for
entries that are not raced, which is not inductive on its own: it needs to know
that the instance is not stale. `PostedIsFinal` follows from the same invariant,
since only the last step of an edit changes lines or takes a status back.

`BooksAgree` speaks of the moments when no request is under way, so it says nothing
inductively. `BooksInv` states at every moment what each account has of each
entry (`Part`): its line, less what the clerk who is posting it has still to add
(`Owed`, from the lines in the table or from those it has read); and every balance
is the sum of these over the entries (`BalancesAdd`). A step of posting changes one
summand and one balance by the same amount (`SumChange`), and lost updates are
excluded by `broken`. `DepositsAgree` is proved likewise: the bank holds one deposit
for each cleared cheque that no clerk is about to deposit (`BankInv`).


## 8. BackupStore

A worker is a Celery worker with the task it runs; each database call and each
call of the storage manager is a step, and each may fail (`MaxFaults`).

| code | action |
|---|---|
| `create_full_system_backup`, `create_tenant_backup`: the row | `BeginBackup` |
| `create_snapshot_backup`: its own row, then that of the tenant backup it calls | `BeginSnapshot`, `CreateTenantRow` |
| `mark_started`, the dump and `_save` to both backends, `mark_completed` | `MarkStarted`, `Upload`, `MarkCompleted` |
| the `except` branch; an error outside it | `MarkFailed`; `Raise` |
| storage flags, metadata, and the task's queueing of the verification | `Record` |
| the expiry of a weekly backup and of a snapshot | `SetExpiry` |
| `verify_backup_integrity`: download, comparison, `corrupted` | `BeginVerify`, `Download`, `Judge`, `MarkCorrupted` |
| `cleanup_expired_backups`: query, files, `expired`, row | `BeginCleanup`, `DeleteFile`, `MarkExpired`, `DropRow`, `CleanupFails`, `EndCleanup` |
| time, a damaged file, a dead worker | `Expire`, `Damage`, `Crash` |

| run | question | result |
|---|---|---|
| `store` | has a completed backup its file, is only a damaged one corrupted, is each file without a row the price of a failed call, does nothing removed come back, and does what has expired go? | holds |

*Bounds.* Two backups, so that a snapshot has both of its rows and a cleanup a
second backup to go on with; two workers, so that any two tasks overlap, two
cleanups and a verification under a cleanup among them; two faults, which is both
backends, or a damaged copy and a failing one; one death.

*Fairness.* Workers go on with their tasks, and the cleanup that beat queues every
day is taken by a worker (weak fairness of both). Nothing need be backed up,
verified or damaged. The second rests on an assumption about the deployment: the
beat entry names `zargar.core.backup_tasks.cleanup_old_backups` (`celery.py:64-67`),
and a worker runs it only if it has imported that module. `celery.py:16` calls
`autodiscover_tasks()`, which looks for modules called `tasks` in the installed
applications; nothing in the repository imports `zargar.core.backup_tasks`
elsewhere. `ExpiredIsRemoved` says what the tasks do where they are registered.

*Abstracted:* the content of a copy is good or bad; dump, compression, encryption
and upload are one step that succeeds or fails. A message lost with its
worker, an error that ends the task and a retry come to the same: the task starts
over with a new row.

*Observations without a run.* The row a snapshot makes for itself stays pending for
ever, and is not selected by the cleanup when it expires. Daily and tenant backups
get no expiry and are never cleaned up. A row saved as `expired` by a cleanup that
died before it removed the row is not selected again. The flags `stored_in_*` say
what the upload was meant to do: the redundant storage reports both backends when
one of them took the file. A worker that dies leaves its row `in_progress`.

### Proofs

`BackupStore_proofs.tla` proves, for any workers and any finite set of backups that
satisfy `StoreAssumptions`:

| theorem | statement |
|---|---|
| `TypeCorrect` | `Spec => []TypeOK` |
| `CompletedKept` | `Spec => []CompletedIsKept` |
| `CorruptedDamaged` | `Spec => []CorruptedWasDamaged` |
| `RemovedFinal` | `Spec => RemovedIsFinal` |
| `OrphansPaid` | `Spec => []OrphansAreFaults` |

The invariant `StoreInv` says what a worker at each step works on (`Tasks`: a
cleanup's backups have expired, a worker about to complete a backup has uploaded it),
that a backup under construction belongs to one worker (`Alone`), and that its row
and its copies are as far as that worker is (`RowsRight`). `CompletedIsKept` needs
all three: copies disappear in a cleanup only, a cleanup selects expired backups
only, and expiry is never taken back because the worker that sets it is alone.

`OrphansAreFaults` counts copies of rows that are gone, but they are left behind
before: `DeleteFile` leaves those of the backends that failed, and the row is dropped
two steps later. `LeftInv` counts them from there on: the copies of backups whose
cleanup has come to the row (`Tried`) are at most the calls that failed. Only
`DeleteFile` adds to them, for each new copy one failed call (`LeftStep`), and
nothing stores a copy of such a backup (`TriedStep`, with `StoreInv`: it has
expired, and a backup being uploaded has not). A cleanup that dies or fails takes
its copies out of the count, and a later one counts what it leaves anew.


## 9. BackupSchedule

The minute's task selects what is due (`SelectDue`) and goes through it by name, as
`BackupSchedule.Meta` orders rows; for each it queues one message (`Dispatch`), or
none if queueing fails or there is no task for the schedule's type (`Unknown`:
`backup_tasks.py:516-518` logs a warning and leaves it due). Workers take messages in order (`Take`), make the backup
(`MakeBackup`; `MakeTenantBackup` for a tenant's, which is not told its schedule) and
record the run: `SaveNextRun` is the save inside `update_next_run`, `SaveCounts` the
one at the end of `record_run`, both from the instance loaded before. `Raise` is an
error anywhere, which queues the task again up to `MaxRetries` times; `SaveCounts`
has the case in which the queueing of the verification raises after the run was
recorded. `Crash` and `DispatcherCrash` are deaths, `Tick` is the clock. A worker is
said to be recording from the load of the row to the last save; `disturbed` is a
history variable with the schedules of which two recordings overlapped or one broke
off.

| run | question | result |
|---|---|---|
| `due` | is no later slot of a daily schedule passed over, is every run counted unless recordings were disturbed, and is what is due run and recorded, beside a schedule for which there is no task? | holds |

*Bounds.* A daily schedule, one of a tenant and one of unknown type, since they
differ in the code path, and the last comes first by name; two workers; two ticks a day with the schedule's hour the second, so that a run can
be recorded before, at and after its hour; four moments in time; one retry; one
fault of any kind. Messages that are equal are queued once: while no worker is
free, every minute adds another message for the same schedule, and this bounds
them without taking away their concurrency. The arms of `CalculateNextRun` for
weekly and monthly schedules are not part of the instance, which another schedule
that is recorded would make too large; the theorem below covers them.

*Fairness.* Beat queues the minute's task, and workers go on with what is in the
queue (weak fairness of `Minute` and of each worker's steps). The clock need not
move. As for `BackupStore`, that workers run these tasks assumes that they have
imported `zargar.core.backup_tasks`, which `autodiscover_tasks()` does not see to:
`DueIsRecorded` is about a deployment that does.

*Abstracted:* time is counted in ticks, all schedules run at the same hour, and all
months have the same length. Day of the week and day of the month are per schedule
(`WeekDay`, `MonthDay`), and a day the month does not have becomes its last.

*Observations without a run.*

- A schedule is due until its task records the run, so that each minute of a
  long backup queues one more backup; a schedule of a tenant is never recorded and is
  queued every minute for ever.
- Of two overlapping recordings one is lost, and one that breaks off between its
  two saves is not counted; good and bad runs may then add up to more or less than the total.
- The weekly arm never takes today and the monthly arm never this month: a weekly
  schedule computed on its own day before its hour is set to the next week, a monthly
  one made, or recorded after the end of its month, before its day passes over that
  day. `LaterSlotIsKept` excepts exactly these (`Later`). (The comment
  "Next run is tomorrow" is not what the daily arm does: it takes today if the hour
  is still to come.)
- `init_backup_schedules` ships an active schedule "Configuration Backup" of type
  `configuration` (lines 65-74). There is no task for that type: it is due for
  ever, is warned about every minute, and never runs. `DueIsRecorded` is about
  full-system schedules.
- The same command gives the weekly backup `day_of_week: 0  # Sunday` (line 50); the
  code compares it with `weekday()`, for which 0 is Monday.

### Proofs

`BackupSchedule_proofs.tla` proves, for any schedules of any kind, workers, and
lengths of day, week and month that satisfy `ScheduleAssumptions`:

| theorem | statement |
|---|---|
| `ScheduleTypes` | `Spec => []TypeOK` |
| `LaterSlotsAreKept` | `Spec => []LaterSlotIsKept` |
| `UndisturbedRunsAreCounted` | `Spec => []UndisturbedIsCounted` |

These include the weekly and monthly arms of `CalculateNextRun`, which the run does
not reach, for any day of the week and of the month. `LaterSlotIsKept` says that a
row's next run is no later than any slot (`Slot`) that is still to come, at a
later hour for a daily schedule, on a later day for a weekly one, in a later month
for a monthly one. For a time computed at this moment that is arithmetic
(`NextRunInTime`, from `DivGrows` and `DaysInOrder`: later ticks have later days, and
slots follow each other as their days do). But `SaveCounts` writes a
time that was computed earlier and kept in an instance. `Punctual` therefore says
of rows and instances that they are `InTime`, and `InTimeStays` that a time which was
remains so, since the slots to come at a later moment are among those of an earlier
one. `UndisturbedIsCounted` is kept by
`Counted`: of a schedule that is not disturbed one worker at most is recording, its
instance is as new as the row, and the row lacks exactly the run it records.


## 10. What is checked and how

- Each module has one type invariant. The other properties are aimed at the
  hazards in `PROJECT.json`.
- *Seeded faults.* Definitions marked so in the comments (`WriteItemUnchecked`,
  `SaveFailureAllFields`, `CommitAgain`, ...) are versions of an action with a
  plausible bug. They are in no specification; `PROJECT.json` pairs each property
  with the fault that breaks it, which shows that the property can fail under
  the run's bounds.
- *Violations.* The run `voucher` expects a violation: it states what a test
  of the repository says and the code does not do; the counterexample TLC prints is
  the scenario. The quotation is in `PROJECT.json`.
- *Deadlock.* A run does not check for deadlock where the system may stop: all sales
  synced and cleaned up (`OfflineSync`), no day, request, backup or fault left (the
  modules of sections 6 to 9). `POSCounter` and `MobileSync` never stop, and their
  runs check.
- *Symmetry.* Workers are interchangeable in some runs with two of them; no
  liveness is checked under symmetry.
- *Refinement.* `POSCounter` with one terminal implements `Till`, and `MobileSync`
  implements `Shelf`; both are checked as properties of the detailed specification.

*Proved for every value of the constants* (sections 3 to 9): every invariant, every
action property and both refinements that the passing runs check. Some of these
theorems have a hypothesis on who works at the same time: `StockConserved`,
`ConflictIsExhausted`, `CustomerIsCredited` and `ImplementsTill` hold for one worker,
`ImplementsShelf` for one worker or no sales, `MovedWasBilled` for one batch; the
properties of `Ledger` and `UndisturbedIsCounted` carry theirs in the formula
(`raced`, `broken`, `disturbed`). The runs of these properties are instances of the
hypothesis, and the sections above say how the code lets each property fail
without it.

The sums that these properties compare (units of line items, lines of an account)
are `MapThenSumSet` over sets of any finite size. `Sums.tla` proves what is needed of
it: a sum over disjoint sets, one with an element more, one whose summand changes.
It is defined by recursion over finite sets; the induction is done in first-order
steps, by taking a smallest set for which a claim fails, which exists since the
strict subset relation on a finite set is well-founded.

*Only model-checked*: liveness, which needs fairness and `ENABLED` and is out of the
prover's reach (`SettlesIfTakenUp`, `EveryRequestEnds`, `NoticedIfCollected`,
`BilledIfRun`, `ExpiredIsRemoved`, `DueIsRecorded`), and the absence of deadlock.


## 11. Not modelled

`PROJECT.json` lists every component with the reason. In short:

- Gold contracts, layaway plans and suppliers: their views filter on a `tenant`
  field their models lack and raise; nothing queues the tasks that would pay or complete, so that
  only tests reach the services. (Layaway's service counts a down payment twice,
  once itself and once through the plan.)
- Restoration (`zargar/admin_panel/tasks.py`): one task that calls external
  programs. Read but not modelled: the snapshot's `BackupJob` is never completed;
  waiting for a task's result inside a task raises; the restore goes on when its
  safety snapshot failed; `cleanup_old_backups` there removes the row even if the
  file stays.
- In the modelled components: `cancel`, `create_reversing_entry` and `close_period` of
  accounting, `apply_transaction_discount` and `calculate_tax` of the counter, which
  nothing calls; running balances of the subsidiary ledger; the update of a bank
  account's master data, which saves its balance as well; changes of plan, and setting
  up and changing a billing cycle; `init_backup_schedules --force`; integrity-check rows, reports and
  statistics.
- The browser's queue, the second set of upload endpoints, notifications, loyalty,
  serial numbers: single read-modify-write steps or clients, next in the plan.
- Views and serializers beyond the order of the calls they make; external programs
  and services (dumps, gold prices, SMS providers); PostgreSQL and Celery themselves,
  of which the models assume row locks, constraint checks, the abort of a block after
  an error, the detection of deadlocks, and messages acknowledged before they are
  run; formatting, calendar and templates.
