------------------------------- MODULE Ledger -------------------------------
(***************************************************************************)
(* Journal entries, account balances and cheques (zargar/accounting).      *)
(* Posting an entry and settling a cheque are chains of statements, each   *)
(* committed on its own; clerks' requests interleave between them, and a   *)
(* request may die or fail between any two.                                *)
(*                                                                         *)
(* Balances are counted in debits: those of credit accounts have the       *)
(* opposite sign.  The lines of an entry are its net debits by account.    *)
(***************************************************************************)
EXTENDS Integers, FiniteSets, FiniteSetsExt

CONSTANTS
  Clerks,      \* requests that may run at the same time
  Entries,     \* journal entries, made as drafts
  Accounts,    \* accounts of the chart
  ChartAccount, \* the account of the bank account
  Cheques,     \* received cheques of amount 1
  Drafts,      \* lines a clerk enters
  MaxRequests, \* bound: requests
  MaxCrashes,  \* bound: requests that die or fail
  None         \* no entry, account or cheque

NoLines == [a \in Accounts |-> 0]

ASSUME LedgerAssumptions ==
  /\ IsFiniteSet(Accounts) /\ IsFiniteSet(Entries) /\ IsFiniteSet(Cheques)
  /\ ChartAccount \in Accounts
  /\ Drafts \subseteq [Accounts -> Int] \ {NoLines}
  /\ MaxRequests \in Nat /\ MaxCrashes \in Nat
  /\ None \notin Entries \cup Accounts \cup Cheques

VARIABLES
  status,   \* JournalEntry.status
  lines,    \* its lines
  balance,  \* ChartOfAccounts.current_balance
  cheque,   \* ChequeManagement.status
  voucher,  \* whether the cheque has a posted journal entry
  strays,   \* drafts left behind by cheques: <<cheque, "clear" or "bounce">>
  bank,     \* BankAccount.current_balance
  pc,       \* what each request is about to do
  request,  \* what it was asked for
  subject,  \* the entry or cheque it is about
  instance, \* what it has loaded
  todo,     \* net debits still to be added to the accounts
  account,  \* the account, and its balance, that it has read
  raced,    \* history: entries and cheques of two overlapping requests
  broken,   \* history: "books" or "bank", when updates overlapped or broke off
  requests,
  crashes

books == <<status, lines, balance, cheque, voucher, strays, bank>>
task  == <<request, subject, instance, todo, account>>
trace == <<raced, broken, requests, crashes>>
vars  == <<books, pc, task, trace>>

EntryStates  == {"draft", "posted"}
ChequeStates == {"pending", "presented", "cleared", "bounced", "cancelled"}
Requests     == {"post", "edit", "present", "clear", "bounce", "cancel", "change", "none"}

Blank == [status |-> "draft", postable |-> FALSE]
NoAccount == [of |-> None, value |-> 0]

TypeOK ==
  /\ status \in [Entries -> EntryStates]
  /\ lines \in [Entries -> Drafts]
  /\ balance \in [Accounts -> Int]
  /\ cheque \in [Cheques -> ChequeStates]
  /\ voucher \in [Cheques -> BOOLEAN]
  /\ strays \in SUBSET (Cheques \X {"clear", "bounce"})
  /\ bank \in Nat
  /\ pc \in [Clerks -> {"idle", "check", "lines", "apply", "write", "edit", "settle",
                        "read bank", "write bank", "voucher"}]
  /\ request \in [Clerks -> Requests]
  /\ subject \in [Clerks -> Entries \cup Cheques \cup {None}]
  /\ instance \in [Clerks -> [status : EntryStates \cup ChequeStates, postable : BOOLEAN]]
  /\ todo \in [Clerks -> [Accounts -> Int]]
  /\ account \in [Clerks -> [of : Accounts \cup {None}, value : Int]]
  /\ raced \in SUBSET (Entries \cup Cheques)
  /\ broken \in SUBSET {"books", "bank"}
  /\ requests \in 0..MaxRequests
  /\ crashes \in 0..MaxCrashes

Init ==
  /\ status = [e \in Entries |-> "draft"]
  /\ lines \in [Entries -> Drafts]
  /\ balance = NoLines
  /\ cheque = [q \in Cheques |-> "pending"]
  /\ voucher = [q \in Cheques |-> FALSE]
  /\ strays = {}
  /\ bank = 0
  /\ pc = [c \in Clerks |-> "idle"]
  /\ request = [c \in Clerks |-> "none"]
  /\ subject = [c \in Clerks |-> None]
  /\ instance = [c \in Clerks |-> Blank]
  /\ todo = [c \in Clerks |-> NoLines]
  /\ account = [c \in Clerks |-> NoAccount]
  /\ raced = {}
  /\ broken = {}
  /\ requests = 0
  /\ crashes = 0
-----------------------------------------------------------------------------
(* Helpers                                                                 *)

Total(l) == MapThenSumSet(LAMBDA a : l[a], Accounts)

Balanced(l) == Total(l) = 0

GoTo(c, step) == pc' = [pc EXCEPT ![c] = step]

Begin(c, r, x, row, step) ==
  /\ pc[c] = "idle"
  /\ requests < MaxRequests
  /\ GoTo(c, step)
  /\ requests' = requests + 1
  /\ request' = [request EXCEPT ![c] = r]
  /\ subject' = [subject EXCEPT ![c] = x]
  /\ instance' = [instance EXCEPT ![c] = row]
  /\ raced' = IF \E d \in Clerks : subject[d] = x THEN raced \cup {x} ELSE raced
  /\ UNCHANGED <<books, todo, account, broken, crashes>>

\* The request is over, and its memory with it.
End(c) ==
  /\ GoTo(c, "idle")
  /\ request' = [request EXCEPT ![c] = "none"]
  /\ subject' = [subject EXCEPT ![c] = None]
  /\ instance' = [instance EXCEPT ![c] = Blank]
  /\ todo' = [todo EXCEPT ![c] = NoLines]
  /\ account' = [account EXCEPT ![c] = NoAccount]
-----------------------------------------------------------------------------
(* Posting an entry                                                        *)

\* Seeded fault: the totals are not compared.
PostableUnbalanced(e) == status[e] = "draft"

\* can_be_posted, of the row as it is loaded.
Postable(e) == status[e] = "draft" /\ Balanced(lines[e])

LoadEntry(c, e) == Begin(c, "post", e, [status |-> status[e], postable |-> Postable(e)], "check")

RefusePost(c) ==
  /\ pc[c] = "check"
  /\ ~instance[c].postable
  /\ End(c)
  /\ UNCHANGED <<books, trace>>

\* The entry is posted before any account has its lines.
SavePosted(c) ==
  /\ pc[c] = "check"
  /\ instance[c].postable
  /\ status' = [status EXCEPT ![subject[c]] = "posted"]
  /\ GoTo(c, "lines")
  /\ UNCHANGED <<lines, balance, cheque, voucher, strays, bank, task, trace>>

\* The lines that are added are those of now, not those that were balanced.
ReadLines(c) ==
  /\ pc[c] = "lines"
  /\ todo' = [todo EXCEPT ![c] = lines[subject[c]]]
  /\ GoTo(c, "apply")
  /\ UNCHANGED <<books, request, subject, instance, account, trace>>

ReadAccount(c, a) ==
  /\ pc[c] = "apply"
  /\ todo[c][a] # 0
  /\ account' = [account EXCEPT ![c] = [of |-> a, value |-> balance[a]]]
  /\ GoTo(c, "write")
  /\ UNCHANGED <<books, request, subject, instance, todo, trace>>

\* Seeded fault: a credit is added like a debit.
WithMagnitude(value, d) == value + (IF d < 0 THEN -d ELSE d)

WithLine(value, d) == value + d

\* ChartOfAccounts.update_balance writes back what it read and the line: what
\* another request has written in between is lost.
WriteBalance(c) ==
  LET a == account[c].of
  IN  /\ pc[c] = "write"
      /\ balance' = [balance EXCEPT ![a] = WithLine(account[c].value, todo[c][a])]
      /\ todo' = [todo EXCEPT ![c][a] = 0]
      /\ account' = [account EXCEPT ![c] = NoAccount]
      /\ broken' = broken \cup (IF balance[a] # account[c].value THEN {"books"} ELSE {})
      /\ GoTo(c, "apply")
      /\ UNCHANGED <<status, lines, cheque, voucher, strays, bank, request, subject,
                     instance, raced, requests, crashes>>

EndPost(c) ==
  /\ pc[c] = "apply"
  /\ todo[c] = NoLines
  /\ End(c)
  /\ UNCHANGED <<books, trace>>
-----------------------------------------------------------------------------
(* Changing an entry                                                       *)

\* Seeded fault: the view serves posted entries too.
EditableAny(e) == Balanced(lines[e])

Editable(e) == status[e] # "posted" /\ Balanced(lines[e])

\* The view refuses a posted entry, and the form one whose lines, as they
\* are stored, do not balance.
BeginEdit(c, e) ==
  /\ Editable(e)
  /\ Begin(c, "edit", e, [status |-> status[e], postable |-> FALSE], "edit")

\* One transaction saves the entry, with the status it was loaded with, and
\* the new lines, balanced or not.
CommitEdit(c, l) ==
  /\ pc[c] = "edit"
  /\ status' = [status EXCEPT ![subject[c]] = instance[c].status]
  /\ lines' = [lines EXCEPT ![subject[c]] = l]
  /\ End(c)
  /\ UNCHANGED <<balance, cheque, voucher, strays, bank, trace>>
-----------------------------------------------------------------------------
(* Cheques                                                                 *)

\* The status a request may find, and the one it leaves.
Settlements ==
  [present |-> [from |-> {"pending"}, to |-> "presented"],
   clear   |-> [from |-> {"presented"}, to |-> "cleared"],
   bounce  |-> [from |-> {"pending", "presented"}, to |-> "bounced"],
   cancel  |-> [from |-> {"pending", "presented", "cancelled"}, to |-> "cancelled"]]

LoadCheque(c, r, q) == Begin(c, r, q, [status |-> cheque[q], postable |-> FALSE], "settle")

\* Seeded fault: any cheque may be cancelled or bounced.
MaySettleAny(c) == request[c] \in DOMAIN Settlements

MaySettle(c) ==
  /\ request[c] \in DOMAIN Settlements
  /\ instance[c].status \in Settlements[request[c]].from

RefuseSettlement(c) ==
  /\ pc[c] = "settle"
  /\ request[c] # "change"
  /\ ~MaySettle(c)
  /\ End(c)
  /\ UNCHANGED <<books, trace>>

\* The new status is committed before the deposit and the journal entry.
Settle(c) ==
  /\ pc[c] = "settle"
  /\ MaySettle(c)
  /\ cheque' = [cheque EXCEPT ![subject[c]] = Settlements[request[c]].to]
  /\ IF request[c] \in {"clear", "bounce"}
     THEN GoTo(c, IF request[c] = "clear" THEN "read bank" ELSE "voucher") /\ UNCHANGED task
     ELSE End(c)
  /\ UNCHANGED <<status, lines, balance, voucher, strays, bank, trace>>

\* The form for the cheque saves the whole row, its status as it was loaded.
ChangeCheque(c) ==
  /\ pc[c] = "settle"
  /\ request[c] = "change"
  /\ cheque' = [cheque EXCEPT ![subject[c]] = instance[c].status]
  /\ End(c)
  /\ UNCHANGED <<status, lines, balance, voucher, strays, bank, trace>>

ReadBank(c) ==
  /\ pc[c] = "read bank"
  /\ account' = [account EXCEPT ![c].value = bank]
  /\ GoTo(c, "write bank")
  /\ UNCHANGED <<books, request, subject, instance, todo, trace>>

\* Seeded fault: the cheque is withdrawn.
BankWithdrawn(value) == value - 1

BankDeposited(value) == value + 1

WriteBank(c) ==
  /\ pc[c] = "write bank"
  /\ bank' = BankDeposited(account[c].value)
  /\ broken' = broken \cup (IF bank # account[c].value THEN {"bank"} ELSE {})
  /\ GoTo(c, "voucher")
  /\ UNCHANGED <<status, lines, balance, cheque, voucher, strays, task, raced, requests, crashes>>

\* Of a cleared cheque, one line, in the bank's account; of a bounced one, which
\* never has an entry to reverse, none.
VoucherLines(r) == IF r = "clear" THEN [NoLines EXCEPT ![ChartAccount] = 1] ELSE NoLines

\* Such an entry cannot be posted, so that the request fails; the draft stays.
Voucher(c) ==
  LET l == VoucherLines(request[c])
      posts == l # NoLines /\ Balanced(l)
  IN  /\ pc[c] = "voucher"
      /\ voucher' = [voucher EXCEPT ![subject[c]] = posts]
      /\ strays' = IF posts THEN strays ELSE strays \cup {<<subject[c], request[c]>>}
      /\ End(c)
      /\ UNCHANGED <<status, lines, balance, cheque, bank, trace>>
-----------------------------------------------------------------------------
\* A statement of the request fails, or its process dies.  What it has saved
\* stays.
Crash(c) ==
  /\ pc[c] # "idle"
  /\ crashes < MaxCrashes
  /\ crashes' = crashes + 1
  /\ broken' = broken \cup (IF pc[c] \in {"lines", "apply", "write"} THEN {"books"} ELSE {})
                      \cup (IF pc[c] \in {"read bank", "write bank"} THEN {"bank"} ELSE {})
  /\ End(c)
  /\ UNCHANGED <<books, raced, requests>>

Step(c) ==
  \/ \E e \in Entries : LoadEntry(c, e) \/ BeginEdit(c, e)
  \/ \E r \in DOMAIN Settlements \cup {"change"}, q \in Cheques : LoadCheque(c, r, q)
  \/ RefusePost(c)
  \/ SavePosted(c)
  \/ ReadLines(c)
  \/ \E a \in Accounts : ReadAccount(c, a)
  \/ WriteBalance(c)
  \/ EndPost(c)
  \/ \E l \in Drafts : CommitEdit(c, l)
  \/ RefuseSettlement(c)
  \/ Settle(c)
  \/ ChangeCheque(c)
  \/ ReadBank(c)
  \/ WriteBank(c)
  \/ Voucher(c)
  \/ Crash(c)

Next == \E c \in Clerks : Step(c)

Spec == Init /\ [][Next]_vars
-----------------------------------------------------------------------------
(* Properties                                                              *)

\* An entry whose requests have never overlapped and that is posted balances,
\* though its lines may have been changed to any others since it was last
\* found to be balanced (JournalEntryUpdateView, JournalEntry.post).
PostedIsBalanced ==
  \A e \in Entries \ raced : status[e] = "posted" => Balanced(lines[e])

\* get_balance_as_of_date: the sum of the account's posted lines.
Posted(a) == MapThenSumSet(LAMBDA e : IF status[e] = "posted" THEN lines[e][a] ELSE 0, Entries)

\* With no request under way, the balance an account keeps is the one computed
\* from its posted lines: none is added twice, left out or added with the wrong
\* sign.  Not so once requests about one entry have overlapped, an update was lost or a
\* request broke off in the middle of posting (JournalEntry.post).
BooksAgree ==
  (\A c \in Clerks : pc[c] = "idle") /\ raced \cap Entries = {} /\ "books" \notin broken
    => \A a \in Accounts : balance[a] = Posted(a)

\* Likewise the bank has a deposit for each cleared cheque and for no other
\* one, even though each request of clearance fails (ChequeManagement).
DepositsAgree ==
  (\A c \in Clerks : pc[c] = "idle") /\ raced \cap Cheques = {} /\ "bank" \notin broken
    => bank = Cardinality({q \in Cheques : cheque[q] = "cleared"})

\* As long as its requests do not overlap, a posted entry keeps its status and
\* its lines (JournalEntryUpdateView.get_object).
PostedIsFinal ==
  [][\A e \in Entries \ raced : status[e] = "posted" =>
       status'[e] = "posted" /\ lines'[e] = lines[e]]_vars

\* A cheque whose clearance has not been broken off has a posted journal entry
\* (ChequeManagement.clear_cheque; the tests and the comments say so).
ClearedIsPosted ==
  (\A c \in Clerks : pc[c] = "idle") /\ crashes = 0 /\ raced = {}
    => \A q \in Cheques : cheque[q] = "cleared" => voucher[q]
=============================================================================
