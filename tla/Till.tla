------------------------------- MODULE Till -------------------------------
(***************************************************************************)
(* What a till promises, one step per operation: a sale is rung up line by *)
(* line, and paying for it bills the lines, takes their units from the     *)
(* stock and credits the customer, all at once and at most once.           *)
(***************************************************************************)
EXTENDS Integers, FiniteSets

CONSTANTS
  Transactions, \* POSTransaction rows
  LineItems,    \* POSTransactionLineItem rows
  InitialLines, \* line items rung up when the model starts
  TxOf,         \* the transaction each line item is added to
  Unbilled      \* invoice of a transaction that has none

VARIABLES
  status,   \* POSTransaction.status
  onSale,   \* line items rung up
  invoice,  \* line items billed by the transaction's POSInvoice, or Unbilled
  taken     \* line items whose units have left the stock

LinesOf(t) == {l \in onSale : TxOf[l] = t}

Init ==
  /\ status = [t \in Transactions |-> "pending"]
  /\ onSale = InitialLines
  /\ invoice = [t \in Transactions |-> Unbilled]
  /\ taken = {}

Ring ==
  /\ \E l \in LineItems : onSale' \in {onSale \cup {l}, onSale \ {l}}
  /\ UNCHANGED <<status, invoice, taken>>

\* The bill holds exactly the lines taken from the stock, and a sale is
\* billed once.
Sell(t) ==
  /\ invoice[t] = Unbilled
  /\ status' = [status EXCEPT ![t] = "completed"]
  /\ invoice' = [invoice EXCEPT ![t] = LinesOf(t)]
  /\ taken' = taken \cup LinesOf(t)
  /\ UNCHANGED onSale

Cancel(t) ==
  /\ status[t] # "completed"
  /\ status' = [status EXCEPT ![t] = "cancelled"]
  /\ UNCHANGED <<onSale, invoice, taken>>

Next == Ring \/ \E t \in Transactions : Sell(t) \/ Cancel(t)

Spec == Init /\ [][Next]_<<status, onSale, invoice, taken>>
=============================================================================
