-------------------------- MODULE BackOfficeProofs ---------------------------
(***************************************************************************)
(* Proofs about the back office for every set of its constants.            *)
(*                                                                         *)
(* Payments: however handlers overlap, what one loaded bounds what it      *)
(* writes, and the authorized amount of a row never changes, so no figure  *)
(* exceeds it.  While no two handlers have overlapped, the row the only    *)
(* handler loaded is still the row, so every figure is exact.              *)
(*                                                                         *)
(* Ledger: a balance is what the whole entries on the books and a posting  *)
(* under way have moved, each line once, to what rounding to cents does;   *)
(* sums over accounts and over entries are SumFacts' sums, compared group  *)
(* by group.                                                               *)
(*                                                                         *)
(* Tax and payroll: one entry per name and one filing per period; the      *)
(* totals of a run are sums over the people who were employed when it was  *)
(* created.                                                                *)
(*                                                                         *)
(* Customers: what a handler knows of the rows stays so although rows      *)
(* change beside it, and what it saw of defaults and tags is still so      *)
(* while no other handler runs.                                            *)
(***************************************************************************)
EXTENDS BackOffice, Sequences, SumFacts, FiniteSetTheorems, TLAPS

(* A row, on its own.                                                          *)
Bounded(row) ==
    /\ row.captured <= row.authorized
    /\ row.refunded <= row.authorized
    /\ row.status \in {"absent", "authorized"} => row.captured = 0 /\ row.refunded = 0
    /\ row.status # "absent" => row.authorized > 0

(* A handler, as the record h, against the row it will write.                  *)
HandlerBounded(h) ==
    h.stage \in {"capturing", "refunding"} =>
        /\ h.of \in Transactions
        /\ txn[h.of].status # "absent"
        /\ h.seen.authorized = txn[h.of].authorized
        /\ h.stage = "capturing" =>
               /\ h.amount \in Nat \ {0}
               /\ h.seen.captured + h.amount <= h.seen.authorized
               /\ h.seen.status \in {"authorized", "partially_refunded"}
        /\ h.stage = "refunding" =>
               /\ txn[h.of].status # "authorized"
               /\ h.seen.status \in {"captured", "partially_refunded"}
               /\ h.seen.refunded + h.amount \in Nat
               /\ h.seen.refunded + h.amount <= h.seen.captured
               /\ h.seen.captured <= h.seen.authorized
               /\ h.seen.refunded < h.seen.captured => h.amount > 0

(* The status of a row against its figures, which holds without overlap.       *)
Settled(row) ==
    /\ row.status \in {"captured", "partially_refunded"} => row.refunded < row.captured
    /\ row.status = "refunded" => row.captured > 0 /\ row.refunded = row.captured

Exact ==
    /\ \A t \in Transactions :
           Settled(txn[t]) /\ txn[t].captured = taken[t] /\ txn[t].refunded = returned[t]
    /\ \A q, r \in Requests : InFlight(q) /\ InFlight(r) => q = r
    /\ \A r \in Requests : InFlight(r) => req[r].seen = txn[req[r].of]

PaymentsInv ==
    /\ TypeOK
    /\ \A t \in Transactions : Bounded(txn[t])
    /\ \A r \in Requests : HandlerBounded(req[r])
    /\ ~overlapped => Exact

LEMMA NoRequestTyped == NoRow \in Transaction /\ NoRequest \in Request
BY DEF NoRow, Transaction, TransactionStatus, NoRequest, Request, Idle

LEMMA PaymentsInit == Init => PaymentsInv
<1> SUFFICES ASSUME Init PROVE PaymentsInv
  OBVIOUS
<1>1. TypeOK
  <2>1. /\ txn \in [Transactions -> Transaction] /\ req \in [Requests -> Request]
        /\ overlapped \in BOOLEAN
    BY NoRequestTyped DEF Init
  <2>2. taken \in [Transactions -> Nat] /\ returned \in [Transactions -> Int]
    BY DEF Init
  <2>3. QED
    BY <2>1, <2>2 DEF TypeOK
<1>2. ASSUME NEW t \in Transactions
      PROVE  /\ Bounded(txn[t]) /\ Settled(txn[t])
             /\ txn[t].captured = taken[t] /\ txn[t].refunded = returned[t]
  BY DEF Init, Bounded, Settled, NoRow
<1>3. ASSUME NEW r \in Requests PROVE HandlerBounded(req[r]) /\ ~InFlight(r)
  BY DEF Init, HandlerBounded, InFlight, NoRequest, Idle
<1>4. QED
  BY <1>1, <1>2, <1>3 DEF PaymentsInv, Exact

LEMMA AuthorizeStep ==
    ASSUME PaymentsInv, NEW t \in Transactions, NEW amount \in Amounts, Authorize(t, amount)
    PROVE  PaymentsInv'
<1> USE DEF PaymentsInv
<1>1. PICK row \in Transaction :
         /\ txn' = [txn EXCEPT ![t] = row] /\ row.status = "authorized"
         /\ row.authorized > 0 /\ row.authorized \in Nat
         /\ row.captured = 0 /\ row.refunded = 0
  <2> DEFINE row == [NoRow EXCEPT !.status = "authorized", !.authorized = amount]
  <2>1. /\ row \in Transaction /\ row.status = "authorized"
        /\ row.authorized = amount /\ row.captured = 0 /\ row.refunded = 0
    BY PaymentsAssumption DEF NoRow, Transaction, TransactionStatus
  <2>2. txn' = [txn EXCEPT ![t] = row]
    BY DEF Authorize
  <2>3. amount \in Nat /\ amount > 0
    BY PaymentsAssumption
  <2> HIDE DEF row
  <2>4. QED
    BY <2>1, <2>2, <2>3
<1>2. /\ txn' \in [Transactions -> Transaction] /\ txn'[t] = row
      /\ \A u \in Transactions : u # t => txn'[u] = txn[u]
  BY <1>1 DEF TypeOK
<1>3. TypeOK'
  BY <1>2 DEF TypeOK, Authorize
<1>4. ASSUME NEW u \in Transactions PROVE Bounded(txn'[u])
  BY <1>1, <1>2 DEF Bounded
<1>5. ASSUME NEW r \in Requests PROVE HandlerBounded(req[r])'
  <2>1. PICK h : h = req[r] /\ req'[r] = h /\ HandlerBounded(h)
    BY DEF Authorize
  <2>2. h.stage \in {"capturing", "refunding"} => h.of # t
    BY <2>1 DEF Authorize, HandlerBounded
  <2>3. QED
    BY <2>1, <2>2, <1>2 DEF HandlerBounded
<1>6. ASSUME ~overlapped' PROVE Exact'
  <2>1. Exact /\ ~overlapped
    BY <1>6 DEF Authorize
  <2>2. \A u \in Transactions :
           Settled(txn'[u]) /\ txn'[u].captured = taken'[u] /\ txn'[u].refunded = returned'[u]
    <3>1. txn[t].captured = 0 /\ txn[t].refunded = 0
      BY DEF Authorize, Bounded
    <3>2. QED
      BY ZenonT(60), <2>1, <3>1, <1>1, <1>2 DEF Exact, Settled, Authorize
  <2>3. \A r \in Requests : InFlight(r)' => req'[r].seen = txn'[req'[r].of]
    <3>1. \A r \in Requests : InFlight(r) => req[r].of # t /\ req[r].of \in Transactions
      BY DEF Authorize, InFlight, HandlerBounded, TypeOK, Request
    <3>2. QED
      BY <2>1, <3>1, <1>2 DEF Exact, Authorize, InFlight
  <2>4. QED
    BY <2>1, <2>2, <2>3 DEF Exact, Authorize, InFlight
<1>7. QED
  BY <1>3, <1>4, <1>5, <1>6

(* What loading a row for a capture or a refund leaves to show.                *)
LEMMA LoadStep ==
    ASSUME PaymentsInv, NEW r \in Requests, NEW t \in Transactions,
           NEW stage \in {"capturing", "refunding"}, NEW amount \in Int,
           Load(r, t, stage, amount),
           stage = "capturing" =>
               /\ amount \in Nat \ {0}
               /\ txn[t].captured + amount <= txn[t].authorized
               /\ txn[t].status \in {"authorized", "partially_refunded"},
           stage = "refunding" =>
               /\ txn[t].status \in {"captured", "partially_refunded"}
               /\ txn[t].refunded + amount \in Nat
               /\ txn[t].refunded + amount <= txn[t].captured
               /\ txn[t].refunded < txn[t].captured => amount > 0
    PROVE  PaymentsInv'
<1> USE DEF PaymentsInv
<1>1. PICK h \in Request : /\ req' = [req EXCEPT ![r] = h]
                           /\ h.stage = stage /\ h.of = t /\ h.seen = txn[t]
                           /\ h.amount = amount
  <2> DEFINE h == [stage |-> stage, of |-> t, seen |-> txn[t], amount |-> amount]
  <2>1. h \in Request
    BY DEF Request, TypeOK
  <2>2. req' = [req EXCEPT ![r] = h]
    BY DEF Load
  <2>3. QED
    BY <2>1, <2>2
<1>2. /\ req' \in [Requests -> Request] /\ req'[r] = h
      /\ \A q \in Requests : q # r => req'[q] = req[q]
  BY <1>1 DEF TypeOK
<1>3. TypeOK' /\ \A u \in Transactions : Bounded(txn'[u])
  BY <1>2 DEF TypeOK, Load
<1>4. HandlerBounded(h)'
  BY <1>1 DEF HandlerBounded, Load, Bounded
<1>5. ASSUME NEW q \in Requests PROVE HandlerBounded(req[q])'
  <2>1. PICK g : g = req'[q] /\ (g = h \/ HandlerBounded(g))
    BY <1>2
  <2>2. CASE g = h
    BY <2>1, <2>2, <1>4 DEF HandlerBounded
  <2>3. CASE HandlerBounded(g)
    BY <2>1, <2>3 DEF HandlerBounded, Load
  <2>4. QED
    BY <2>1, <2>2, <2>3
<1>6. ASSUME ~overlapped' PROVE Exact'
  <2>1. Exact /\ \A q \in Requests : ~InFlight(q)
    BY <1>6 DEF Load
  <2>2. \A q \in Requests : InFlight(q)' => q = r
    BY <2>1, <1>2 DEF InFlight
  <2>3. QED
    BY <2>1, <2>2, <1>1, <1>2 DEF Exact, Load
<1>7. QED
  BY <1>3, <1>5, <1>6

(* What a handler that ends with the row of transaction t rewritten leaves to    *)
(* show.                                                                          *)
LEMMA CommitStep ==
    ASSUME PaymentsInv, NEW r \in Requests, NEW t \in Transactions, NEW row \in Transaction,
           NEW final \in {"done", "failed"}, Finish(r, final),
           txn' = [txn EXCEPT ![t] = row], Bounded(row),
           row.authorized = txn[t].authorized,
           txn[t].status # "absent" => row.status \notin {"absent", "authorized"} \/ row = txn[t],
           taken' \in [Transactions -> Nat], returned' \in [Transactions -> Int],
           overlapped' = overlapped,
           ~overlapped => /\ Settled(row)
                          /\ InFlight(r) /\ row.captured = taken'[t]
                          /\ row.refunded = returned'[t]
                          /\ \A u \in Transactions : u # t => /\ taken'[u] = taken[u]
                                                              /\ returned'[u] = returned[u],
           txn[t].status = "absent" => row = txn[t]
    PROVE  PaymentsInv'
<1> USE DEF PaymentsInv
<1>1. PICK h \in Request : /\ req' = [req EXCEPT ![r] = h] /\ h.stage = final
  <2> DEFINE h == [NoRequest EXCEPT !.stage = final]
  <2>1. h \in Request /\ h.stage = final
    BY NoRequestTyped DEF NoRequest, Request, Idle
  <2>2. req' = [req EXCEPT ![r] = h]
    BY DEF Finish
  <2>3. QED
    BY <2>1, <2>2
<1>2. /\ req' \in [Requests -> Request] /\ req'[r] = h
      /\ \A q \in Requests : q # r => req'[q] = req[q]
  BY <1>1 DEF TypeOK
<1>3. /\ txn' \in [Transactions -> Transaction] /\ txn'[t] = row
      /\ \A u \in Transactions : u # t => txn'[u] = txn[u]
  BY DEF TypeOK
<1>4. TypeOK' /\ \A u \in Transactions : Bounded(txn'[u])
  BY <1>2, <1>3 DEF TypeOK
<1>5. ASSUME NEW q \in Requests PROVE HandlerBounded(req[q])'
  <2>1. PICK g : g = req'[q] /\ (g = h \/ HandlerBounded(g))
    BY <1>2
  <2>2. CASE g = h
    BY <2>1, <2>2, <1>1 DEF HandlerBounded
  <2>3. CASE HandlerBounded(g) /\ g.of = t
    BY <2>1, <2>3, <1>3 DEF HandlerBounded
  <2>4. CASE HandlerBounded(g) /\ g.of # t
    BY <2>1, <2>4, <1>3 DEF HandlerBounded
  <2>5. QED
    BY <2>1, <2>2, <2>3, <2>4
<1>6. ASSUME ~overlapped' PROVE Exact'
  <2>1. Exact /\ InFlight(r) /\ ~overlapped
    BY <1>6
  <2>2. \A q \in Requests : ~InFlight(q)'
    BY <2>1, <1>1, <1>2 DEF Exact, InFlight, Idle
  <2>3. QED
    BY <2>1, <2>2, <1>3 DEF Exact
<1>7. QED
  BY <1>4, <1>5, <1>6

LEMMA CaptureCommitStep ==
    ASSUME PaymentsInv, NEW r \in Requests, CaptureCommit(r)
    PROVE  PaymentsInv'
<1> USE DEF PaymentsInv
<1>1. PICK h : h = req[r] /\ h \in Request /\ HandlerBounded(h) /\ h.stage = "capturing"
  BY DEF TypeOK, CaptureCommit
<1>2. PICK t \in Transactions : t = h.of
  BY <1>1 DEF HandlerBounded
<1>3. /\ txn[t] \in Transaction /\ Bounded(txn[t]) /\ h.seen \in Transaction
      /\ taken[t] \in Nat /\ txn[t].status # "absent"
  BY <1>1, <1>2 DEF TypeOK, Request, HandlerBounded
<1>4. PICK row \in Transaction :
         /\ row = [txn[t] EXCEPT !.captured = h.seen.captured + h.amount, !.status = "captured"]
         /\ row.status = "captured" /\ row.captured = h.seen.captured + h.amount
         /\ row.authorized = txn[t].authorized /\ row.refunded = txn[t].refunded
  <2> DEFINE n == h.seen.captured + h.amount
             row == [txn[t] EXCEPT !.captured = n, !.status = "captured"]
  <2>1. n \in Nat
    BY <1>1, <1>3 DEF HandlerBounded, Transaction
  <2> HIDE DEF n
  <2>2. /\ row \in Transaction /\ row.status = "captured" /\ row.captured = n
        /\ row.authorized = txn[t].authorized /\ row.refunded = txn[t].refunded
    BY <2>1, <1>3 DEF Transaction, TransactionStatus
  <2>3. QED
    BY <2>2 DEF n
<1>5. txn' = [txn EXCEPT ![t] = row]
  BY <1>1, <1>2, <1>4 DEF CaptureCommit, TypeOK
<1>6. Bounded(row)
  BY <1>1, <1>2, <1>3, <1>4 DEF Bounded, HandlerBounded
<1>7. /\ taken' = [taken EXCEPT ![t] = @ + h.amount] /\ returned' = returned
      /\ taken' \in [Transactions -> Nat]
  BY <1>1, <1>2 DEF CaptureCommit, HandlerBounded, TypeOK
<1>8. ~overlapped => /\ Settled(row)
                     /\ row.captured = taken'[t] /\ row.refunded = returned'[t]
                     /\ \A u \in Transactions : u # t => /\ taken'[u] = taken[u]
                                                         /\ returned'[u] = returned[u]
  <2> SUFFICES ASSUME ~overlapped
               PROVE  /\ Settled(row)
                      /\ row.captured = taken'[t] /\ row.refunded = returned'[t]
                      /\ \A u \in Transactions : u # t => /\ taken'[u] = taken[u]
                                                          /\ returned'[u] = returned[u]
    OBVIOUS
  <2>1. h.seen = txn[t] /\ Settled(txn[t]) /\ txn[t].captured = taken[t]
        /\ txn[t].refunded = returned[t]
    BY <1>1, <1>2 DEF Exact, InFlight, Idle
  <2>2. Settled(row)
    BY <2>1, <1>1, <1>3, <1>4 DEF Settled, HandlerBounded, Bounded, Transaction
  <2>3. QED
    BY <2>1, <2>2, <1>3, <1>4, <1>7 DEF TypeOK
<1>9. Finish(r, "done") /\ InFlight(r) /\ overlapped' = overlapped
      /\ returned' \in [Transactions -> Int]
  BY <1>1, <1>7 DEF CaptureCommit, InFlight, Idle, TypeOK
<1>10. QED
  BY <1>3, <1>4, <1>5, <1>6, <1>7, <1>8, <1>9, CommitStep

LEMMA RefundCommitStep ==
    ASSUME PaymentsInv, NEW r \in Requests, RefundCommit(r)
    PROVE  PaymentsInv'
<1> USE DEF PaymentsInv
<1>1. PICK h : h = req[r] /\ h \in Request /\ HandlerBounded(h) /\ h.stage = "refunding"
  BY DEF TypeOK, RefundCommit
<1>2. PICK t \in Transactions : t = h.of
  BY <1>1 DEF HandlerBounded
<1>3. /\ txn[t] \in Transaction /\ Bounded(txn[t]) /\ h.seen \in Transaction
      /\ returned[t] \in Int /\ h.amount \in Int
      /\ txn[t].status \notin {"absent", "authorized"}
  BY <1>1, <1>2 DEF TypeOK, Request, HandlerBounded
<1>s. PICK n \in Nat, s \in {"refunded", "partially_refunded"} :
         n = h.seen.refunded + h.amount /\ s = StatusRefunded(h.seen, n)
  BY <1>1 DEF HandlerBounded, StatusRefunded
<1>4. PICK row \in Transaction :
         /\ row = [txn[t] EXCEPT !.refunded = IF h.amount # 0 THEN n ELSE @,
                                 !.status = IF s # h.seen.status THEN s ELSE @]
         /\ row.status = (IF s # h.seen.status THEN s ELSE txn[t].status)
         /\ row.refunded = (IF h.amount # 0 THEN n ELSE txn[t].refunded)
         /\ row.authorized = txn[t].authorized /\ row.captured = txn[t].captured
  <2> DEFINE figure == IF h.amount # 0 THEN n ELSE txn[t].refunded
             status == IF s # h.seen.status THEN s ELSE txn[t].status
             row == [txn[t] EXCEPT !.refunded = figure, !.status = status]
  <2>1. figure \in Nat /\ status \in TransactionStatus
    BY <1>3, <1>s DEF Transaction, TransactionStatus
  <2> HIDE DEF figure, status
  <2>2. /\ row \in Transaction /\ row.status = status /\ row.refunded = figure
        /\ row.authorized = txn[t].authorized /\ row.captured = txn[t].captured
    BY <2>1, <1>3 DEF Transaction
  <2>3. row = [txn[t] EXCEPT !.refunded = IF h.amount # 0 THEN n ELSE @,
                             !.status = IF s # h.seen.status THEN s ELSE @]
    BY DEF figure, status
  <2> HIDE DEF row
  <2>4. QED
    BY <2>2, <2>3 DEF figure, status
<1>5. txn' = [txn EXCEPT ![t] = row]
  BY <1>1, <1>2, <1>4, <1>s DEF RefundCommit, TypeOK
<1>6. Bounded(row) /\ row.status \notin {"absent", "authorized"}
  <2>1. row.status \notin {"absent", "authorized"}
    BY <1>3, <1>4
  <2>2. /\ h.seen.authorized = txn[t].authorized
        /\ n <= h.seen.captured /\ h.seen.captured <= h.seen.authorized
    BY <1>1, <1>2, <1>s DEF HandlerBounded
  <2>3. row.refunded <= row.authorized
    BY <2>2, <1>3, <1>4 DEF Bounded, Transaction
  <2>4. QED
    BY <2>1, <2>3, <1>3, <1>4 DEF Bounded
<1>7. /\ returned' = [returned EXCEPT ![t] = @ + h.amount] /\ taken' = taken
      /\ returned' \in [Transactions -> Int]
  BY <1>1, <1>2, <1>3 DEF RefundCommit, TypeOK
<1>8. ~overlapped => /\ Settled(row)
                     /\ row.captured = taken'[t] /\ row.refunded = returned'[t]
                     /\ \A u \in Transactions : u # t => /\ taken'[u] = taken[u]
                                                         /\ returned'[u] = returned[u]
  <2> SUFFICES ASSUME ~overlapped
               PROVE  /\ Settled(row)
                      /\ row.captured = taken'[t] /\ row.refunded = returned'[t]
                      /\ \A u \in Transactions : u # t => /\ taken'[u] = taken[u]
                                                          /\ returned'[u] = returned[u]
    OBVIOUS
  <2>1. h.seen = txn[t] /\ Settled(txn[t]) /\ txn[t].captured = taken[t]
        /\ txn[t].refunded = returned[t]
    BY <1>1, <1>2 DEF Exact, InFlight, Idle
  <2>2. Settled(row)
    <3>1. row.refunded = n /\ row.captured = h.seen.captured /\ row.status = s
      BY <2>1, <1>3, <1>4, <1>s DEF Transaction
    <3>2. /\ s = "refunded" => n >= h.seen.captured
          /\ s = "partially_refunded" => n < h.seen.captured
      BY <1>3, <1>s DEF StatusRefunded, Transaction
    <3>3. n <= h.seen.captured
      BY <1>1, <1>2, <1>s DEF HandlerBounded
    <3>4. h.seen.status \in {"captured", "partially_refunded"}
      BY <1>1 DEF HandlerBounded
    <3>5. h.seen.captured > 0
      BY <2>1, <3>4, <1>3 DEF Settled, Transaction
    <3> QED BY <3>5, <3>1, <3>2, <3>3, <1>3 DEF Settled, Transaction
  <2>3. row.refunded = returned'[t]
    BY <2>1, <1>3, <1>4, <1>s, <1>7 DEF TypeOK, Transaction
  <2>4. QED
    BY <2>1, <2>2, <2>3, <1>3, <1>4, <1>7 DEF TypeOK
<1>9. Finish(r, "done") /\ InFlight(r) /\ overlapped' = overlapped
      /\ taken' \in [Transactions -> Nat]
  BY <1>1, <1>7 DEF RefundCommit, InFlight, Idle, TypeOK
<1>10. QED
  BY ZenonT(60), <1>3, <1>4, <1>5, <1>6, <1>7, <1>8, <1>9, CommitStep

LEMMA FailStep ==
    ASSUME PaymentsInv, NEW r \in Requests, Fail(r)
    PROVE  PaymentsInv'
<1> USE DEF PaymentsInv
<1>1. PICK t \in Transactions : t = req[r].of
  BY DEF Fail, InFlight, HandlerBounded, TypeOK, Request
<1>2. txn' = [txn EXCEPT ![t] = txn[t]]
  BY DEF Fail, TypeOK
<1>3. txn[t] \in Transaction /\ Bounded(txn[t]) /\ txn[t].status # "absent"
  BY <1>1 DEF TypeOK, Fail, InFlight, HandlerBounded, Request
<1>4. ~overlapped => Settled(txn[t]) /\ txn[t].captured = taken'[t]
                     /\ txn[t].refunded = returned'[t]
  BY DEF Fail, Exact
<1>5. Finish(r, "failed") /\ InFlight(r) /\ UNCHANGED <<taken, returned, overlapped>>
      /\ taken' \in [Transactions -> Nat] /\ returned' \in [Transactions -> Int]
  BY DEF Fail, TypeOK
<1>6. QED
  BY <1>2, <1>3, <1>4, <1>5, CommitStep

LEMMA PaymentsStep == PaymentsInv /\ [Next]_vars => PaymentsInv'
<1> SUFFICES ASSUME PaymentsInv, [Next]_vars PROVE PaymentsInv'
  OBVIOUS
<1>t. \A t \in Transactions : txn[t] \in Transaction
  BY DEF PaymentsInv, TypeOK
<1>1. ASSUME NEW t \in Transactions, NEW amount \in Amounts, Authorize(t, amount)
      PROVE PaymentsInv'
  BY <1>1, AuthorizeStep
<1>2. ASSUME NEW r \in Requests, NEW t \in Transactions, CaptureRead(r, t)
      PROVE PaymentsInv'
  <2>1. PICK amount \in Amounts \cup {txn[t].authorized} :
           /\ txn[t].status \in {"authorized", "partially_refunded"}
           /\ amount <= txn[t].authorized - txn[t].captured
           /\ Load(r, t, "capturing", amount)
    BY <1>2 DEF CaptureRead, Capturable
  <2>2. amount \in Nat /\ txn[t].captured + amount <= txn[t].authorized
    BY <2>1, <1>t, PaymentsAssumption DEF Transaction
  <2>3. amount # 0
    BY <2>1, <1>t, PaymentsAssumption DEF PaymentsInv, Bounded, Transaction
  <2>4. QED
    BY <2>1, <2>2, <2>3, LoadStep
<1>3. ASSUME NEW r \in Requests, NEW t \in Transactions, RefundRead(r, t)
      PROVE PaymentsInv'
  <2>1. PICK amount \in Amounts \cup {txn[t].captured - txn[t].refunded} :
           /\ txn[t].status \in {"captured", "partially_refunded"}
           /\ amount <= txn[t].captured - txn[t].refunded
           /\ Load(r, t, "refunding", amount)
    BY <1>3 DEF RefundRead, Refundable
  <2>2. /\ amount \in Int /\ txn[t].refunded + amount \in Nat
        /\ txn[t].refunded + amount <= txn[t].captured
        /\ txn[t].refunded < txn[t].captured => amount > 0
    BY <2>1, <1>t, PaymentsAssumption DEF Transaction
  <2>3. QED
    BY <2>1, <2>2, LoadStep
<1>4. ASSUME NEW r \in Requests, CaptureCommit(r) \/ RefundCommit(r) \/ Fail(r)
      PROVE PaymentsInv'
  BY <1>4, CaptureCommitStep, RefundCommitStep, FailStep
<1>5. CASE UNCHANGED vars
  BY <1>5 DEF vars, PaymentsInv, TypeOK, Bounded, HandlerBounded, Exact, Settled, InFlight
<1>6. QED
  BY <1>1, <1>2, <1>3, <1>4, <1>5 DEF Next

LEMMA PaymentsInvariant == Spec => []PaymentsInv
BY PaymentsInit, PaymentsStep, PTL DEF Spec

(* Every row and handler has its type in every reachable state.                 *)
THEOREM PaymentsTypeCorrect == Spec => []TypeOK
<1>1. PaymentsInv => TypeOK
  BY DEF PaymentsInv
<1>2. QED
  BY <1>1, PaymentsInvariant, PTL

(* However captures and refunds overlap and die, capture_payment and             *)
(* refund_payment never record more than the customer authorized.                 *)
THEOREM NeverBeyondAuthorization == Spec => []WithinAuthorization
<1>1. PaymentsInv => WithinAuthorization
  BY DEF PaymentsInv, Bounded, WithinAuthorization
<1>2. QED
  BY <1>1, PaymentsInvariant, PTL

(* Until two handlers overlap, the figures of a transaction are exactly the sums   *)
(* of its captures and refunds, and "refunded" says that all money went back.       *)
THEOREM AccountedWithoutOverlap == Spec => []MoneyAccounted
<1>1. ASSUME PaymentsInv PROVE MoneyAccounted
  <2> SUFFICES ASSUME ~overlapped, NEW t \in Transactions
               PROVE  /\ txn[t].captured = taken[t]
                      /\ txn[t].refunded = returned[t]
                      /\ returned[t] <= taken[t]
                      /\ txn[t].status = "refunded" <=> taken[t] > 0 /\ returned[t] = taken[t]
    BY DEF MoneyAccounted
  <2>1. /\ Settled(txn[t]) /\ txn[t].captured = taken[t] /\ txn[t].refunded = returned[t]
        /\ Bounded(txn[t]) /\ txn[t] \in Transaction
    BY <1>1 DEF PaymentsInv, Exact, TypeOK
  <2>2. txn[t].status \in {"absent", "authorized"} \/ txn[t].status = "refunded"
        \/ txn[t].status \in {"captured", "partially_refunded"}
    BY <2>1 DEF Transaction, TransactionStatus
  <2>3. QED
    BY <2>1, <2>2 DEF Settled, Bounded, Transaction
<1>2. QED
  BY <1>1, PaymentsInvariant, PTL

-----------------------------------------------------------------------------
(* Payroll.  Who is hired stays hired under the same contract, so a stub that was  *)
(* right when it was computed stays right.  The people on the payroll are finitely *)
(* many because each was hired by one step, so a run's totals are sums.            *)

Payable(h) ==
    /\ h.stage = "paying" => h.keys \subseteq Payroll!Hired
    /\ h.stage = "hiring" => h.row.hired
    /\ h.stage = "founding" => h.keys \subseteq Departments

StubIsRight(s) ==
    /\ s.employee \in Payroll!Hired
    /\ Payroll!Near(10000 * s.deductions, 2965 * s.gross, 5000)
    /\ staff[s.employee].contract.salary # Payroll!None =>
           Payroll!Near(26 * s.gross, staff[s.employee].contract.salary, 13)

PayrollInv ==
    /\ Payroll!TypeOK
    /\ IsFiniteSet(Payroll!Hired)
    /\ \A r \in Requests : Payable(paying[r])
    /\ \A run \in runs : /\ run.gross - run.net = Payroll!Withheld(run.stubs)
                         /\ \A s \in run.stubs : StubIsRight(s)

(* HalfEven is a nearest integer.                                                  *)
LEMMA Nearest ==
  ASSUME NEW n \in Nat, NEW d \in {26, 10000}
  PROVE  /\ Payroll!HalfEven(n, d) \in Nat
         /\ 2 * (d * Payroll!HalfEven(n, d) - n) <= d
         /\ -d <= 2 * (d * Payroll!HalfEven(n, d) - n)
<1> DEFINE q == n \div d
           rest == n % d
<1>1. CASE d = 26
  <2>1. q \in Nat /\ rest \in Nat /\ n = 26 * q + rest /\ rest < 26
    BY <1>1
  <2>2. Payroll!HalfEven(n, d) = IF 2 * rest > d \/ (2 * rest = d /\ q % 2 = 1) THEN q + 1 ELSE q
    BY DEF Payroll!HalfEven
  <2> HIDE DEF q, rest
  <2> QED BY <1>1, <2>1, <2>2
<1>2. CASE d = 10000
  <2>1. q \in Nat /\ rest \in Nat /\ n = 10000 * q + rest /\ rest < 10000
    BY <1>2
  <2>2. Payroll!HalfEven(n, d) = IF 2 * rest > d \/ (2 * rest = d /\ q % 2 = 1) THEN q + 1 ELSE q
    BY DEF Payroll!HalfEven
  <2> HIDE DEF q, rest
  <2> QED BY <1>2, <2>1, <2>2
<1> QED BY <1>1, <1>2

(* What run_payroll writes on the stub of somebody with this contract.             *)
LEMMA PayIsRight ==
  ASSUME NEW contract \in Payroll!Contract, NEW gross, gross = Payroll!BiweeklyGross(contract)
  PROVE  /\ gross \in Nat /\ Payroll!Deductions(gross) \in Nat /\ Payroll!NetOf(gross) \in Nat
         /\ Payroll!NetOf(gross) = gross - Payroll!Deductions(gross)
         /\ Payroll!Near(10000 * Payroll!Deductions(gross), 2965 * gross, 5000)
         /\ contract.salary # Payroll!None => Payroll!Near(26 * gross, contract.salary, 13)
<1>1. /\ contract.salary # Payroll!None => contract.salary \in Nat
      /\ contract.hourly # Payroll!None => contract.hourly \in Nat
  BY DEF Payroll!Contract
<1>2. contract.salary # Payroll!None =>
        gross \in Nat /\ Payroll!Near(26 * gross, contract.salary, 13)
  <2> SUFFICES ASSUME contract.salary # Payroll!None
               PROVE  gross \in Nat /\ Payroll!Near(26 * gross, contract.salary, 13)
    OBVIOUS
  <2>1. gross = Payroll!HalfEven(contract.salary, 26)
    BY DEF Payroll!BiweeklyGross
  <2>2. PICK salary \in Nat : salary = contract.salary
    BY <1>1
  <2>3. gross = Payroll!HalfEven(salary, 26)
    BY <2>1, <2>2
  <2>4. /\ gross \in Nat
        /\ 2 * (26 * gross - salary) <= 26
        /\ -26 <= 2 * (26 * gross - salary)
    BY <2>3, Nearest
  <2>5. Payroll!Near(26 * gross, salary, 13)
    BY <2>4 DEF Payroll!Near
  <2> QED BY <2>2, <2>4, <2>5
<1>3. contract.salary = Payroll!None => gross \in Nat
  BY <1>1 DEF Payroll!BiweeklyGross
<1>4. PICK g \in Nat : g = gross
  BY <1>2, <1>3
<1>5. PICK n \in Nat : n = g * 2965
  OBVIOUS
<1>6. PICK d : d = Payroll!HalfEven(n, 10000)
  OBVIOUS
<1>7. d = Payroll!Deductions(gross)
  BY <1>4, <1>5, <1>6 DEF Payroll!Deductions
<1>8. d \in Nat /\ 2 * (10000 * d - n) <= 10000 /\ -10000 <= 2 * (10000 * d - n)
  BY <1>6, Nearest
<1>9. d <= g
  BY <1>5, <1>8
<1>10. Payroll!NetOf(gross) = g - d
  BY <1>4, <1>7 DEF Payroll!NetOf
<1>11. Payroll!Near(10000 * d, 2965 * g, 5000)
  BY <1>5, <1>8 DEF Payroll!Near
<1> QED BY <1>2, <1>4, <1>7, <1>8, <1>9, <1>10, <1>11

(* The sums of the instance are the sums of the library.                          *)
LEMMA PayrollSum == \A f, S : Payroll!SumFunctionOnSet(f, S) = SumFunctionOnSet(f, S)
BY DEF Payroll!SumFunctionOnSet, Payroll!FoldFunctionOnSet, Payroll!MapThenFoldSet,
       SumFunctionOnSet, FoldFunctionOnSet, MapThenFoldSet

(* The totals of some stubs that are right.                                        *)
LEMMA TotalsAddUp ==
  ASSUME NEW stubs \in SUBSET Payroll!Stub, IsFiniteSet(stubs),
         \A s \in stubs : s.net = s.gross - s.deductions
  PROVE  /\ Payroll!TotalGross(stubs) \in Nat /\ Payroll!TotalNet(stubs) \in Nat
         /\ Payroll!TotalGross(stubs) - Payroll!TotalNet(stubs) = Payroll!Withheld(stubs)
<1>1. PICK g, n, w : /\ g = [s \in stubs |-> s.gross] /\ n = [s \in stubs |-> s.net]
                     /\ w = [s \in stubs |-> s.deductions]
  OBVIOUS
<1>2. \A s \in stubs : g[s] \in Nat /\ n[s] \in Nat /\ w[s] \in Nat /\ g[s] = n[s] + w[s]
  BY <1>1 DEF Payroll!Stub
<1>3. PICK G, N, W : /\ G = SumFunctionOnSet(g, stubs) /\ N = SumFunctionOnSet(n, stubs)
                     /\ W = SumFunctionOnSet(w, stubs)
  OBVIOUS
<1>4. G \in Nat /\ N \in Nat /\ W \in Nat
  BY <1>2, <1>3, SumIsNat
<1>5. SumFunctionOnSet(g, stubs) = SumFunctionOnSet(n, stubs) + SumFunctionOnSet(w, stubs)
  BY <1>2, SumOfSums
<1>6. G = N + W
  BY <1>3, <1>5, Zenon
<1>7. G - N = W
  BY <1>4, <1>6
<1>8. Payroll!TotalGross(stubs) = G /\ Payroll!TotalNet(stubs) = N /\ Payroll!Withheld(stubs) = W
  BY <1>1, <1>3, PayrollSum DEF Payroll!TotalGross, Payroll!TotalNet, Payroll!Withheld
<1> QED BY <1>4, <1>7, <1>8

LEMMA PayrollInit == Payroll!Init => PayrollInv
<1> SUFFICES ASSUME Payroll!Init PROVE PayrollInv
  OBVIOUS
<1>1. Payroll!Nothing \in Payroll!Employee /\ Payroll!Nothing.hired = FALSE
  BY DEF Payroll!Nothing, Payroll!Employee, Payroll!Contract
<1>2. Payroll!TypeOK
  BY <1>1 DEF Payroll!TypeOK, Payroll!Init, Payroll!NoTask, Payroll!Idle
<1>3. Payroll!Hired = {}
  BY <1>1 DEF Payroll!Hired, Payroll!Init
<1>4. \A r \in Requests : Payable(paying[r])
  BY DEF Payable, Payroll!Init, Payroll!NoTask
<1>5. runs = {}
  BY DEF Payroll!Init
<1> QED BY <1>2, <1>3, <1>4, <1>5, FS_EmptySet DEF PayrollInv

(* Nobody leaves and no contract changes, so what was right stays right.           *)
LEMMA HiredStay ==
  ASSUME PayrollInv, Payroll!TypeOK', IsFiniteSet(Payroll!Hired)',
         \A e \in Employees : staff[e].hired => staff'[e] = staff[e],
         NEW r \in Requests, \A q \in Requests : q # r => paying'[q] = paying[q],
         Payable(paying[r])', runs' = runs
  PROVE  PayrollInv'
<1>1. Payroll!Hired \subseteq Payroll!Hired'
  BY DEF Payroll!Hired
<1>2. \A q \in Requests : Payable(paying[q])'
  BY <1>1 DEF Payable, PayrollInv
<1>3. ASSUME NEW run \in runs, NEW s \in run.stubs PROVE StubIsRight(s)'
  <2>1. StubIsRight(s)
    BY <1>3 DEF PayrollInv
  <2>2. s.employee \in Payroll!Hired' /\ staff'[s.employee] = staff[s.employee]
    BY <1>1, <2>1 DEF StubIsRight, Payroll!Hired
  <2> QED BY <2>1, <2>2 DEF StubIsRight
<1>4. \A run \in runs : run.gross - run.net = Payroll!Withheld(run.stubs)
  BY DEF PayrollInv
<1> QED BY <1>2, <1>3, <1>4 DEF PayrollInv

(* What a handler may do to its own record.                                        *)
LEMMA TaskTyped ==
  ASSUME Payroll!TypeOK, NEW r \in Requests,
         NEW h \in [stage : Payroll!Idle \cup {"founding", "hiring", "paying"},
                    keys : SUBSET (Departments \cup Employees),
                    row : Payroll!Employee, periods : SUBSET Periods]
  PROVE  [paying EXCEPT ![r] = h] \in
           [Requests -> [stage : Payroll!Idle \cup {"founding", "hiring", "paying"},
                         keys : SUBSET (Departments \cup Employees),
                         row : Payroll!Employee, periods : SUBSET Periods]]
BY DEF Payroll!TypeOK

LEMMA NoTaskTyped ==
  /\ Payroll!Nothing \in Payroll!Employee
  /\ Payroll!NoTask.row = Payroll!Nothing
  /\ \A s \in Payroll!Idle :
       [Payroll!NoTask EXCEPT !.stage = s]
         \in [stage : Payroll!Idle \cup {"founding", "hiring", "paying"},
              keys : SUBSET (Departments \cup Employees),
              row : Payroll!Employee, periods : SUBSET Periods]
<1>1. Payroll!Nothing \in Payroll!Employee
  BY DEF Payroll!Nothing, Payroll!Employee, Payroll!Contract
<1> QED BY <1>1 DEF Payroll!NoTask, Payroll!Idle

LEMMA PayrollStep ==
  ASSUME PayrollInv, [Payroll!Next]_payrollVars, shared' \in BOOLEAN
  PROVE  PayrollInv'
<1> DEFINE Task == [stage : Payroll!Idle \cup {"founding", "hiring", "paying"},
                    keys : SUBSET (Departments \cup Employees),
                    row : Payroll!Employee, periods : SUBSET Periods]
<1>0. /\ Payroll!TypeOK /\ IsFiniteSet(Payroll!Hired) /\ paying \in [Requests -> Task]
      /\ staff \in [Employees -> Payroll!Employee] /\ departments \subseteq Departments
      /\ runs \subseteq Payroll!Run
  BY DEF PayrollInv, Payroll!TypeOK
<1> HIDE DEF Task
<1>1. CASE UNCHANGED payrollVars
  <2>1. Payroll!TypeOK' /\ Payroll!Hired' = Payroll!Hired
    BY <1>0, <1>1 DEF payrollVars, Payroll!TypeOK, Payroll!Hired
  <2>2. \A q \in Requests : Payable(paying[q])'
    BY <1>1, <2>1 DEF payrollVars, PayrollInv, Payable
  <2>3. \A run \in runs : /\ run.gross - run.net = Payroll!Withheld(run.stubs)
                          /\ \A s \in run.stubs : StubIsRight(s)'
    BY <1>1, <2>1 DEF payrollVars, PayrollInv, StubIsRight
  <2>4. runs' = runs
    BY <1>1 DEF payrollVars
  <2> QED BY <1>0, <2>1, <2>2, <2>3, <2>4 DEF PayrollInv
<1>2. ASSUME NEW r \in Requests, NEW h \in Task, paying' = [paying EXCEPT ![r] = h],
             Payable(h), UNCHANGED <<staff, runs>>, departments' \subseteq Departments
      PROVE  PayrollInv'
  <2>1. paying' \in [Requests -> Task] /\ paying'[r] = h
        /\ \A q \in Requests : q # r => paying'[q] = paying[q]
    BY <1>0, <1>2
  <2>2. Payroll!TypeOK'
    BY <1>0, <1>2, <2>1 DEF Payroll!TypeOK, Task
  <2>3. Payroll!Hired' = Payroll!Hired
    BY <1>2 DEF Payroll!Hired
  <2>4. Payable(paying[r])'
    BY <1>2, <2>1, <2>3 DEF Payable
  <2>5. \A e \in Employees : staff'[e] = staff[e]
    BY <1>2
  <2> QED BY <1>0, <1>2, <2>1, <2>2, <2>3, <2>4, <2>5, HiredStay
<1>3. ASSUME NEW r \in Requests, NEW s \in Payroll!Idle, Payroll!Finish(r, s),
             UNCHANGED <<staff, runs>>, departments' \subseteq Departments
      PROVE  PayrollInv'
  <2> DEFINE h == [Payroll!NoTask EXCEPT !.stage = s]
  <2>1. h \in Task /\ paying' = [paying EXCEPT ![r] = h]
    BY <1>3, NoTaskTyped DEF Task, Payroll!Finish
  <2>2. Payable(h)
    BY <1>3 DEF Payable, Payroll!NoTask, Payroll!Idle
  <2> HIDE DEF h
  <2> QED BY <1>2, <1>3, <2>1, <2>2
<1>4. ASSUME NEW r \in Requests, NEW d \in Departments, NEW spelling,
             Payroll!DepartmentCheck(r, d, spelling)
      PROVE  PayrollInv'
  <2> DEFINE h == [Payroll!NoTask EXCEPT !.stage = "founding", !.keys = {d}]
  <2>1. h \in Task
    BY NoTaskTyped DEF Task, Payroll!NoTask
  <2>2. Payable(h)
    BY DEF Payable, Payroll!NoTask
  <2>3. paying' = [paying EXCEPT ![r] = h] /\ UNCHANGED <<departments, staff, runs>>
    BY <1>4 DEF Payroll!DepartmentCheck, Payroll!Begin
  <2> HIDE DEF h
  <2> QED BY <1>0, <1>2, <2>1, <2>2, <2>3
<1>5. ASSUME NEW r \in Requests, NEW e \in Employees, NEW spelling, NEW contract \in Contracts,
             NEW d \in Departments \cup {Nobody}, Payroll!HireCheck(r, e, spelling, contract, d)
      PROVE  PayrollInv'
  <2> DEFINE row == [hired |-> TRUE, contract |-> contract, department |-> d]
             h == [Payroll!NoTask EXCEPT !.stage = "hiring", !.keys = {e}, !.row = row]
  <2>1. row \in Payroll!Employee /\ row.hired
    BY BackOfficeAssumption DEF Payroll!PayrollAssumption, Payroll!Employee
  <2>2. h \in Task /\ Payable(h)
    <3> HIDE DEF row
    <3>1. h \in Task
      BY ZenonT(60), <2>1, NoTaskTyped DEF Task, Payroll!NoTask
    <3>2. h.stage = "hiring" /\ h.row = row
      BY DEF Payroll!NoTask
    <3> QED BY <2>1, <3>1, <3>2 DEF Payable
  <2>3. paying' = [paying EXCEPT ![r] = h] /\ UNCHANGED <<departments, staff, runs>>
    BY <1>5 DEF Payroll!HireCheck, Payroll!Begin
  <2> HIDE DEF h
  <2> QED BY <1>0, <1>2, <2>2, <2>3
<1>6. ASSUME NEW r \in Requests, Payroll!DepartmentCommit(r)
      PROVE  PayrollInv'
  <2>1. PICK s \in {"failed", "done"} : Payroll!Finish(r, s)
    BY <1>6 DEF Payroll!DepartmentCommit
  <2>2. s \in Payroll!Idle
    BY DEF Payroll!Idle
  <2>3. UNCHANGED <<staff, runs>>
    BY <1>6 DEF Payroll!DepartmentCommit
  <2>4. departments' \subseteq Departments
    <3>1. Payroll!DepartmentCommit(r) => departments' = departments \cup paying[r].keys
      BY DEF Payroll!DepartmentCommit
    <3>2. paying[r].keys \subseteq Departments
      BY <1>6 DEF PayrollInv, Payable, Payroll!DepartmentCommit
    <3> QED BY <1>0, <1>6, <3>1, <3>2
  <2> QED BY <1>3, <2>1, <2>2, <2>3, <2>4
<1>7. ASSUME NEW r \in Requests, Payroll!HireCommit(r)
      PROVE  PayrollInv'
  <2>1. PICK e \in Employees :
          /\ paying[r].stage = "hiring" /\ e \in paying[r].keys
          /\ IF staff[e].hired \/ paying[r].row.department \notin departments \cup {Nobody}
             THEN Payroll!Finish(r, "failed") /\ UNCHANGED staff
             ELSE staff' = [staff EXCEPT ![e] = paying[r].row] /\ Payroll!Finish(r, "done")
          /\ UNCHANGED <<departments, runs, shared>>
    BY <1>7 DEF Payroll!HireCommit
  <2>2. CASE Payroll!Finish(r, "failed") /\ UNCHANGED staff
    BY <1>0, <1>3, <2>1, <2>2 DEF Payroll!Idle
  <2>3. CASE /\ ~staff[e].hired
             /\ staff' = [staff EXCEPT ![e] = paying[r].row] /\ Payroll!Finish(r, "done")
    <3> DEFINE h == [Payroll!NoTask EXCEPT !.stage = "done"]
    <3>1. h \in Task /\ paying' = [paying EXCEPT ![r] = h]
      BY <2>3, NoTaskTyped DEF Task, Payroll!Finish, Payroll!Idle
    <3>2. Payable(h)'
      BY DEF Payable, Payroll!NoTask
    <3> HIDE DEF h
    <3>3. paying' \in [Requests -> Task] /\ paying'[r] = h
          /\ \A q \in Requests : q # r => paying'[q] = paying[q]
      BY <1>0, <3>1
    <3>4. PICK row : row = paying[r].row
      OBVIOUS
    <3>5. row \in Payroll!Employee /\ row.hired
      BY <1>0, <2>1, <3>4 DEF Task, PayrollInv, Payable
    <3>6. /\ staff' \in [Employees -> Payroll!Employee] /\ staff'[e] = row
          /\ \A d \in Employees : d # e => staff'[d] = staff[d]
      BY <1>0, <2>3, <3>4, <3>5
    <3>7. Payroll!TypeOK'
      BY <1>0, <2>1, <3>3, <3>6 DEF Payroll!TypeOK, Task
    <3>8. Payroll!Hired' = Payroll!Hired \cup {e}
      BY <3>5, <3>6 DEF Payroll!Hired
    <3>9. IsFiniteSet(Payroll!Hired)'
      BY <1>0, <3>8, FS_AddElement
    <3>10. \A d \in Employees : staff[d].hired => staff'[d] = staff[d]
      BY <2>3, <3>6
    <3>11. Payable(paying[r])'
      BY <3>2, <3>3 DEF Payable
    <3> QED BY <2>1, <3>3, <3>7, <3>9, <3>10, <3>11, HiredStay
  <2> QED BY <2>1, <2>2, <2>3
<1>8. ASSUME NEW r \in Requests, NEW period \in Periods, Payroll!RunStart(r, period)
      PROVE  PayrollInv'
  <2> DEFINE h == [Payroll!NoTask EXCEPT !.stage = "paying", !.keys = Payroll!Hired,
                                         !.periods = {period}]
  <2>1. h \in Task
    BY NoTaskTyped DEF Task, Payroll!NoTask, Payroll!Hired
  <2>2. Payable(h)
    BY DEF Payable, Payroll!NoTask
  <2>3. paying' = [paying EXCEPT ![r] = h] /\ UNCHANGED <<departments, staff, runs>>
    BY <1>8 DEF Payroll!RunStart, Payroll!Begin
  <2> HIDE DEF h
  <2> QED BY <1>0, <1>2, <2>1, <2>2, <2>3
<1>9. ASSUME NEW r \in Requests, Payroll!RunCommit(r)
      PROVE  PayrollInv'
  <2> DEFINE stubs == {Payroll!StubOf(e) : e \in paying[r].keys}
  <2>1. /\ paying[r].stage = "paying" /\ Payroll!Finish(r, "done")
        /\ UNCHANGED <<departments, staff, shared>>
        /\ runs' = runs \cup
             {[by |-> r, period |-> period, stubs |-> stubs,
               gross |-> Payroll!TotalGross(stubs), net |-> Payroll!TotalNet(stubs)] :
                 period \in paying[r].periods}
    BY <1>9 DEF Payroll!RunCommit
  <2>2. paying[r].keys \subseteq Payroll!Hired /\ IsFiniteSet(paying[r].keys)
        /\ paying[r].periods \subseteq Periods
    BY <1>0, <2>1, FS_Subset DEF PayrollInv, Payable, Task
  <2>3. ASSUME NEW s \in stubs
        PROVE  s \in Payroll!Stub /\ s.net = s.gross - s.deductions /\ StubIsRight(s)
    <3>1. PICK e \in paying[r].keys : s = Payroll!StubOf(e)
      OBVIOUS
    <3>2. PICK contract, gross :
            contract = staff[e].contract /\ gross = Payroll!BiweeklyGross(contract)
      OBVIOUS
    <3>3. s = [employee |-> e, gross |-> gross, deductions |-> Payroll!Deductions(gross),
               net |-> Payroll!NetOf(gross)]
      BY <3>1, <3>2 DEF Payroll!StubOf
    <3>4. e \in Payroll!Hired /\ e \in Employees /\ contract \in Payroll!Contract
      BY <1>0, <2>2, <3>2 DEF Payroll!Hired, Payroll!Employee
    <3>5. /\ gross \in Nat /\ Payroll!Deductions(gross) \in Nat /\ Payroll!NetOf(gross) \in Nat
          /\ Payroll!NetOf(gross) = gross - Payroll!Deductions(gross)
          /\ Payroll!Near(10000 * Payroll!Deductions(gross), 2965 * gross, 5000)
          /\ contract.salary # Payroll!None => Payroll!Near(26 * gross, contract.salary, 13)
      BY <3>2, <3>4, PayIsRight
    <3>6. s \in Payroll!Stub
      BY <3>3, <3>4, <3>5 DEF Payroll!Stub
    <3> QED BY <3>2, <3>3, <3>4, <3>5, <3>6 DEF StubIsRight
  <2>4. IsFiniteSet(stubs)
    <3>1. PICK h : h = [e \in paying[r].keys |-> Payroll!StubOf(e)]
      OBVIOUS
    <3>2. stubs = {h[e] : e \in paying[r].keys}
      BY <3>1
    <3> HIDE DEF stubs
    <3> QED BY <2>2, <3>2, ImageIsFinite
  <2> HIDE DEF stubs
  <2>5. /\ Payroll!TotalGross(stubs) \in Nat /\ Payroll!TotalNet(stubs) \in Nat
        /\ Payroll!TotalGross(stubs) - Payroll!TotalNet(stubs) = Payroll!Withheld(stubs)
    BY <2>3, <2>4, TotalsAddUp
  <2>6. ASSUME NEW run \in runs', run \notin runs
        PROVE  run \in Payroll!Run /\ run.gross - run.net = Payroll!Withheld(run.stubs)
               /\ run.stubs = stubs
    <3>1. PICK period \in paying[r].periods :
            run = [by |-> r, period |-> period, stubs |-> stubs,
                   gross |-> Payroll!TotalGross(stubs), net |-> Payroll!TotalNet(stubs)]
      BY <2>1, <2>6
    <3>2. stubs \in SUBSET Payroll!Stub
      BY <2>3
    <3> QED BY <2>2, <2>5, <3>1, <3>2 DEF Payroll!Run
  <2> DEFINE h == [Payroll!NoTask EXCEPT !.stage = "done"]
  <2>7. h \in Task /\ paying' = [paying EXCEPT ![r] = h]
    BY <2>1, NoTaskTyped DEF Task, Payroll!Finish, Payroll!Idle
  <2>8. Payable(h)
    BY DEF Payable, Payroll!NoTask
  <2> HIDE DEF h
  <2>9. paying' \in [Requests -> Task] /\ paying'[r] = h
        /\ \A q \in Requests : q # r => paying'[q] = paying[q]
    BY <1>0, <2>7
  <2>10. runs' \subseteq Payroll!Run
    BY <1>0, <2>6
  <2>11. Payroll!TypeOK'
    BY <1>0, <2>1, <2>9, <2>10 DEF Payroll!TypeOK, Task
  <2>12. Payroll!Hired' = Payroll!Hired
    BY <2>1 DEF Payroll!Hired
  <2>13. \A q \in Requests : Payable(paying[q])'
    BY <2>8, <2>9, <2>12 DEF PayrollInv, Payable
  <2>14. ASSUME NEW run \in runs', NEW s \in run.stubs PROVE StubIsRight(s)'
    <3>1. StubIsRight(s)
      BY <2>3, <2>6, <2>14 DEF PayrollInv
    <3> QED BY <2>1, <2>12, <3>1 DEF StubIsRight
  <2>15. \A run \in runs' : run.gross - run.net = Payroll!Withheld(run.stubs)
    BY <2>6 DEF PayrollInv
  <2> QED BY <1>0, <2>11, <2>12, <2>13, <2>14, <2>15 DEF PayrollInv
<1>10. ASSUME NEW r \in Requests, Payroll!Fail(r)
       PROVE  PayrollInv'
  BY <1>0, <1>3, <1>10 DEF Payroll!Fail, Payroll!Idle
<1> QED BY <1>1, <1>4, <1>5, <1>6, <1>7, <1>8, <1>9, <1>10 DEF Payroll!Next

-----------------------------------------------------------------------------
(* Tax.  An entry keeps its name from the checkout that records it, nobody else     *)
(* uses that name, and only what was recorded is ever selected: so what is reported  *)
(* under a name is the entry of that name.  While no two handlers have overlapped,   *)
(* the entries that a remittance holds are still the rows, and nobody has reported   *)
(* them.                                                                              *)

UniqueNames(some) == \A d, e \in some : TaxService!Name(d) = TaxService!Name(e) => d = e

(* The rows in some and the rows that are stored agree but for the remittance.       *)
AreStored(some) ==
    \A d \in some : \E e \in collected :
        TaxService!Name(d) = TaxService!Name(e) /\ d.tax = e.tax

FilingOK(r) ==
    /\ IsFiniteSet(filing[r].rows) /\ UniqueNames(filing[r].rows)
    /\ filing[r].stage # "done" => reported[r] = {} /\ \A e \in collected : e.by # r
    /\ filing[r].stage = "recording" =>
           \A e \in filing[r].rows : e.by = r /\ e.remittance = Nobody
    /\ filing[r].stage = "remitting" => AreStored(filing[r].rows)
    /\ AreStored(reported[r])

OneFiling ==
    /\ \A q, r \in Requests :
           filing[q].stage \notin TaxService!Idle /\ filing[r].stage \notin TaxService!Idle => q = r
    /\ \A r \in Requests : filing[r].stage = "remitting" =>
           filing[r].rows \subseteq {e \in collected : e.remittance = Nobody}
    /\ \A e \in collected : \A q, r \in TaxService!Reporters(e) : q = r
    /\ \A r \in Requests : TaxService!TotalTax(reported[r])
           = TaxService!TotalTax({e \in collected : e.remittance = r})

TaxInv ==
    /\ TaxService!TypeOK
    /\ IsFiniteSet(collected) /\ UniqueNames(collected)
    /\ \A r \in Requests : FilingOK(r)
    /\ TaxService!RemittedIsReported
    /\ ~shared => OneFiling

LEMMA TaxSum == \A f, S : TaxService!SumFunctionOnSet(f, S) = SumFunctionOnSet(f, S)
BY DEF TaxService!SumFunctionOnSet, TaxService!FoldFunctionOnSet, TaxService!MapThenFoldSet,
       SumFunctionOnSet, FoldFunctionOnSet, MapThenFoldSet

LEMMA TaxCardinality == \A S : TaxService!Cardinality(S) = Cardinality(S)
BY DEF TaxService!Cardinality, Cardinality

(* What a checkout records: a finite set of typed entries with names of its own.      *)
LEMMA RecordedEntries ==
  ASSUME TaxService!TypeOK, NEW r \in Requests, NEW j \in Jurisdictions, NEW basket \in Baskets,
         \A i \in DOMAIN basket :
             TaxService!Cardinality(TaxService!Applicable(j, basket[i].category, today)) = 1
  PROVE  LET new == TaxService!Recorded(r, j, basket) IN
         /\ IsFiniteSet(new) /\ UniqueNames(new) /\ new \subseteq TaxService!Entry
         /\ \A e \in new : e.by = r /\ e.remittance = Nobody
<1> DEFINE new == TaxService!Recorded(r, j, basket)
           Percent(i) == (CHOOSE rate \in
               TaxService!Applicable(j, basket[i].category, today) : TRUE).percent
           Made(i) == [by |-> r, index |-> i, jurisdiction |-> j, day |-> today,
                       remittance |-> Nobody,
                       tax |-> TaxService!TaxAmount(basket[i].taxable, Percent(i))]
<1>1. basket \in Seq(TaxService!Item)
  BY BackOfficeAssumption DEF TaxService!TaxAssumption
<1>2. \A i \in DOMAIN basket : Percent(i) \in Nat
  <2> SUFFICES ASSUME NEW i \in DOMAIN basket PROVE Percent(i) \in Nat
    OBVIOUS
  <2>1. TaxService!Applicable(j, basket[i].category, today) # {}
    <3>1. PICK rates : rates = TaxService!Applicable(j, basket[i].category, today)
      OBVIOUS
    <3>2. Cardinality(rates) = 1
      BY <3>1, TaxCardinality
    <3> QED BY <3>1, <3>2, FS_EmptySet
  <2>2. TaxService!Applicable(j, basket[i].category, today) \subseteq Rates
    BY DEF TaxService!Applicable, TaxService!InForce
  <2>3. \A rate \in Rates : rate.percent \in Nat
    BY BackOfficeAssumption DEF TaxService!TaxAssumption, TaxService!Rate
  <2> QED BY <2>1, <2>2, <2>3
<1>3. \A t, p \in Nat : TaxService!TaxAmount(t, p) \in Nat
  <2> SUFFICES ASSUME NEW t \in Nat, NEW p \in Nat PROVE TaxService!TaxAmount(t, p) \in Nat
    OBVIOUS
  <2>1. 2 * t * p \in Nat
    OBVIOUS
  <2>2. PICK n \in Nat : n = 2 * t * p
    BY <2>1
  <2>3. (n + 1000000) \div 2000000 \in Nat
    OBVIOUS
  <2> QED BY <2>2, <2>3 DEF TaxService!TaxAmount
<1>4. \A i \in DOMAIN basket : Made(i) \in TaxService!Entry
  <2> SUFFICES ASSUME NEW i \in DOMAIN basket PROVE Made(i) \in TaxService!Entry
    OBVIOUS
  <2>1. i \in Nat /\ basket[i].taxable \in Nat
    <3>1. i \in 1..Len(basket) /\ Len(basket) \in Nat
      BY <1>1
    <3>2. basket[i] \in TaxService!Item
      BY <1>1
    <3> QED BY <3>1, <3>2 DEF TaxService!Item
  <2>2. today \in Nat
    BY BackOfficeAssumption DEF TaxService!TypeOK, TaxService!TaxAssumption
  <2>3. TaxService!TaxAmount(basket[i].taxable, Percent(i)) \in Nat
    BY <1>2, <1>3, <2>1
  <2> HIDE DEF Percent
  <2> QED BY <2>1, <2>2, <2>3 DEF TaxService!Entry
<1>5. new = {Made(i) : i \in DOMAIN basket}
  BY DEF TaxService!Recorded
<1> HIDE DEF Percent
<1>6. /\ new \subseteq TaxService!Entry
      /\ \A e \in new : e.by = r /\ e.remittance = Nobody
  BY <1>4, <1>5
<1>7. UniqueNames(new)
  BY <1>5 DEF UniqueNames, TaxService!Name
<1>8. IsFiniteSet(new)
  <2>1. IsFiniteSet(DOMAIN basket)
    <3>1. DOMAIN basket = 1..Len(basket) /\ Len(basket) \in Nat
      BY <1>1
    <3> QED BY <3>1, FS_Interval
  <2>2. PICK h : h = [i \in DOMAIN basket |-> Made(i)]
    OBVIOUS
  <2>3. new = {h[i] : i \in DOMAIN basket}
    BY <1>5, <2>2
  <2> HIDE DEF new, Made
  <2> QED BY <2>1, <2>3, ImageIsFinite
<1> QED BY <1>6, <1>7, <1>8

LEMMA TaxInit == TaxService!Init => TaxInv
<1> SUFFICES ASSUME TaxService!Init PROVE TaxInv
  OBVIOUS
<1>1. /\ collected = {} /\ today = 1 /\ shared = FALSE
      /\ \A r \in Requests : filing[r] = [stage |-> "new", rows |-> {}] /\ reported[r] = {}
  BY DEF TaxService!Init, TaxService!NoFiling
<1>2. TaxService!TypeOK
  <2>1. 1 \in 1..Days
    BY BackOfficeAssumption DEF TaxService!TaxAssumption
  <2>2. /\ filing = [r \in Requests |-> [stage |-> "new", rows |-> {}]]
        /\ reported = [r \in Requests |-> {}]
    BY DEF TaxService!Init, TaxService!NoFiling
  <2> QED BY <1>1, <2>1, <2>2 DEF TaxService!TypeOK, TaxService!Idle
<1>3. IsFiniteSet(collected) /\ UniqueNames(collected)
  BY <1>1, FS_EmptySet DEF UniqueNames
<1>4. \A r \in Requests : FilingOK(r)
  BY <1>1, FS_EmptySet DEF FilingOK, UniqueNames, AreStored
<1>5. TaxService!RemittedIsReported
  BY <1>1 DEF TaxService!RemittedIsReported
<1>6. OneFiling
  <2>1. \A r \in Requests : {e \in collected : e.remittance = r} = reported[r]
    BY <1>1
  <2> QED BY SMTT(45), <1>1, <2>1 DEF OneFiling, TaxService!Idle
<1> QED BY <1>2, <1>3, <1>4, <1>5, <1>6 DEF TaxInv

(* What a step of request r leaves of the others, when no entry loses its name.       *)
LEMMA OtherFilings ==
  ASSUME TaxInv, NEW r \in Requests,
         \A q \in Requests : q # r => filing'[q] = filing[q] /\ reported'[q] = reported[q],
         \A d \in collected : \E e \in collected' :
             TaxService!Name(d) = TaxService!Name(e) /\ d.tax = e.tax,
         \A e \in collected' : e.by = r \/ \E d \in collected : d.by = e.by
  PROVE  \A q \in Requests : q # r => FilingOK(q)'
<1> SUFFICES ASSUME NEW q \in Requests, q # r PROVE FilingOK(q)'
  OBVIOUS
<1>1. FilingOK(q) /\ filing'[q] = filing[q] /\ reported'[q] = reported[q]
  BY DEF TaxInv
<1>2. \A some : AreStored(some) => AreStored(some)'
  <2> SUFFICES ASSUME NEW some, AreStored(some), NEW c \in some
               PROVE  \E e \in collected' :
                          TaxService!Name(c) = TaxService!Name(e) /\ c.tax = e.tax
    BY DEF AreStored
  <2>1. PICK d \in collected : TaxService!Name(c) = TaxService!Name(d) /\ c.tax = d.tax
    BY DEF AreStored
  <2>2. PICK e \in collected' : TaxService!Name(d) = TaxService!Name(e) /\ d.tax = e.tax
    BY <2>1
  <2> QED BY <2>1, <2>2
<1>3. filing[q].stage = "remitting" => AreStored(filing[q].rows)'
  BY <1>1, <1>2 DEF FilingOK
<1>4. AreStored(reported[q])'
  <2>1. PICK some : some = reported[q]
    OBVIOUS
  <2>2. AreStored(some)'
    BY <1>1, <1>2, <2>1 DEF FilingOK
  <2> QED BY <1>1, <2>1, <2>2 DEF AreStored
<1>5. AreStored(filing[q].rows)' \/ filing'[q].stage # "remitting"
  <2>1. PICK some : some = filing[q].rows
    OBVIOUS
  <2>2. filing[q].stage = "remitting" => AreStored(some)'
    BY <1>1, <1>2, <2>1 DEF FilingOK
  <2> QED BY <1>1, <2>1, <2>2 DEF AreStored
<1> QED BY <1>1, <1>4, <1>5 DEF FilingOK

LEMMA TaxBegins ==
  ASSUME TaxInv, NEW r \in Requests, NEW stage \in {"recording", "remitting"},
         NEW rows \in SUBSET TaxService!Entry, IsFiniteSet(rows), UniqueNames(rows),
         stage = "recording" => \A e \in rows : e.by = r /\ e.remittance = Nobody,
         stage = "remitting" => rows \subseteq {e \in collected : e.remittance = Nobody},
         TaxService!Begin(r, stage, rows), UNCHANGED <<collected, today, reported>>,
         shared' \in BOOLEAN
  PROVE  TaxInv'
<1>1. /\ filing'[r] = [stage |-> stage, rows |-> rows] /\ filing[r].stage = "new"
      /\ \A q \in Requests : q # r => filing'[q] = filing[q]
  BY DEF TaxInv, TaxService!TypeOK, TaxService!Begin
<1>2. TaxService!TypeOK'
  BY DEF TaxInv, TaxService!TypeOK, TaxService!Begin
<1>3. \A q \in Requests : q # r => FilingOK(q)'
  BY <1>1, OtherFilings
<1>4. FilingOK(r)'
  <2>1. stage = "remitting" => AreStored(rows)
    BY DEF AreStored
  <2>2. FilingOK(r)
    BY DEF TaxInv
  <2> QED BY <1>1, <2>1, <2>2 DEF FilingOK, AreStored
<1>5. TaxService!RemittedIsReported'
  BY DEF TaxInv, TaxService!RemittedIsReported, TaxService!Reporters
<1>6. ASSUME ~shared' PROVE OneFiling'
  <2>1. OneFiling /\ \A q \in Requests : filing[q].stage \in TaxService!Idle
    BY <1>6 DEF TaxInv, TaxService!Begin
  <2>2. \A q \in Requests : filing'[q].stage \notin TaxService!Idle => q = r
    BY <1>1, <2>1
  <2>3. \A q \in Requests : filing'[q].stage = "remitting" =>
          filing'[q].rows \subseteq {e \in collected : e.remittance = Nobody}
    BY <1>1, <2>1 DEF TaxService!Idle
  <2>4. \A e : TaxService!Reporters(e)' = TaxService!Reporters(e)
    BY DEF TaxService!Reporters
  <2> QED BY <2>1, <2>2, <2>3, <2>4 DEF OneFiling
<1> QED BY <1>2, <1>3, <1>4, <1>5, <1>6 DEF TaxInv

LEMMA TaxFails ==
  ASSUME TaxInv, NEW r \in Requests, filing[r].stage \notin TaxService!Idle,
         TaxService!Finish(r, "failed"), UNCHANGED <<collected, today, reported, shared>>
  PROVE  TaxInv'
<1>1. /\ filing'[r] = [stage |-> "failed", rows |-> {}]
      /\ \A q \in Requests : q # r => filing'[q] = filing[q]
  BY DEF TaxInv, TaxService!TypeOK, TaxService!Finish, TaxService!NoFiling
<1>2. TaxService!TypeOK'
  BY DEF TaxInv, TaxService!TypeOK, TaxService!Finish, TaxService!NoFiling, TaxService!Idle
<1>3. \A q \in Requests : q # r => FilingOK(q)'
  BY <1>1, OtherFilings
<1>4. FilingOK(r)'
  <2>1. FilingOK(r)
    BY DEF TaxInv
  <2> QED BY <1>1, <2>1, FS_EmptySet DEF FilingOK, AreStored, UniqueNames, TaxService!Idle
<1>5. TaxService!RemittedIsReported'
  BY DEF TaxInv, TaxService!RemittedIsReported, TaxService!Reporters
<1>6. ASSUME ~shared' PROVE OneFiling'
  <2>1. OneFiling
    BY <1>6 DEF TaxInv
  <2>2. \A q \in Requests : filing'[q].stage \notin TaxService!Idle =>
          q # r /\ filing'[q] = filing[q]
    BY <1>1 DEF TaxService!Idle
  <2>3. "remitting" \notin TaxService!Idle
    BY DEF TaxService!Idle
  <2>4. \A e : TaxService!Reporters(e)' = TaxService!Reporters(e)
    BY DEF TaxService!Reporters
  <2> QED BY <2>1, <2>2, <2>3, <2>4 DEF OneFiling
<1> QED BY <1>2, <1>3, <1>4, <1>5, <1>6 DEF TaxInv

LEMMA TaxRecorded ==
  ASSUME TaxInv, NEW r \in Requests, TaxService!CalculateCommit(r)
  PROVE  TaxInv'
<1> DEFINE rows == filing[r].rows
<1>1. /\ filing[r].stage = "recording" /\ collected' = collected \cup rows
      /\ UNCHANGED <<today, reported, shared>>
      /\ filing'[r] = [stage |-> "done", rows |-> {}]
      /\ \A q \in Requests : q # r => filing'[q] = filing[q]
      /\ rows \subseteq TaxService!Entry
  BY DEF TaxInv, TaxService!TypeOK, TaxService!CalculateCommit, TaxService!Finish,
         TaxService!NoFiling
<1>2. FilingOK(r)
  BY DEF TaxInv
<1>3. /\ IsFiniteSet(rows) /\ UniqueNames(rows) /\ \A e \in rows : e.by = r /\ e.remittance = Nobody
      /\ reported[r] = {} /\ \A e \in collected : e.by # r
  BY <1>1, <1>2 DEF FilingOK
<1> HIDE DEF rows
<1>4. TaxService!TypeOK'
  BY <1>1 DEF TaxInv, TaxService!TypeOK, TaxService!CalculateCommit, TaxService!Finish,
              TaxService!NoFiling, TaxService!Idle
<1>5. IsFiniteSet(collected)'
  BY <1>1, <1>3, FS_Union DEF TaxInv
<1>6. \A d \in collected, e \in rows : TaxService!Name(d) # TaxService!Name(e)
  BY <1>3 DEF TaxService!Name
<1>7. UniqueNames(collected)'
  BY <1>1, <1>3, <1>6 DEF TaxInv, UniqueNames
<1>8. \A q \in Requests : q # r => FilingOK(q)'
  <2>1. \A q \in Requests : q # r => filing'[q] = filing[q] /\ reported'[q] = reported[q]
    BY <1>1
  <2>2. \A e \in collected' : e.by = r \/ \E d \in collected : d.by = e.by
    BY <1>1, <1>3
  <2>3. \A d \in collected : d \in collected'
    BY <1>1
  <2> QED BY <2>1, <2>2, <2>3, OtherFilings
<1>9. FilingOK(r)'
  BY <1>1, <1>3, FS_EmptySet DEF FilingOK, AreStored, UniqueNames
<1>10. \A e : TaxService!Reporters(e)' = TaxService!Reporters(e)
  BY <1>1 DEF TaxService!Reporters
<1>11. \A e \in rows : TaxService!Reporters(e) = {}
  <2> SUFFICES ASSUME NEW e \in rows, NEW q \in Requests, NEW d \in reported[q],
                      TaxService!Name(d) = TaxService!Name(e)
               PROVE  FALSE
    BY DEF TaxService!Reporters
  <2>1. PICK c \in collected : TaxService!Name(d) = TaxService!Name(c)
    BY DEF TaxInv, FilingOK, AreStored
  <2> QED BY <1>6, <2>1
<1>12. TaxService!RemittedIsReported'
  <2> SUFFICES ASSUME NEW e \in collected'
               PROVE  /\ e.remittance # Nobody => e.remittance \in TaxService!Reporters(e)
                      /\ TaxService!Reporters(e) # {} => e.remittance # Nobody
    BY <1>10 DEF TaxService!RemittedIsReported
  <2>1. CASE e \in collected
    BY <2>1 DEF TaxInv, TaxService!RemittedIsReported
  <2>2. CASE e \in rows
    BY <1>3, <1>11, <2>2
  <2> QED BY <1>1, <2>1, <2>2
<1>13. ASSUME ~shared' PROVE OneFiling'
  <2>1. OneFiling
    BY <1>1, <1>13 DEF TaxInv
  <2>2. \A q \in Requests : filing'[q].stage \notin TaxService!Idle =>
          q # r /\ filing'[q] = filing[q]
    BY <1>1 DEF TaxService!Idle
  <2>3. \A q \in Requests : filing'[q].stage = "remitting" =>
          filing'[q].rows \subseteq {e \in collected' : e.remittance = Nobody}
    <3>1. \A q \in Requests : filing'[q].stage = "remitting" =>
            filing'[q].rows \subseteq {e \in collected : e.remittance = Nobody}
      BY <1>1, <2>1 DEF OneFiling
    <3> QED BY <1>1, <3>1
  <2>4. \A e \in collected' : \A p, q \in TaxService!Reporters(e)' : p = q
    BY <1>1, <1>10, <1>11, <2>1 DEF OneFiling
  <2>5. \A q \in Requests : {e \in collected' : e.remittance = q} = {e \in collected : e.remittance = q}
    BY <1>1, <1>3, BackOfficeAssumption DEF TaxService!TaxAssumption
  <2>6. \A q \in Requests : TaxService!TotalTax(reported'[q])
          = TaxService!TotalTax({e \in collected' : e.remittance = q})
    BY <1>1, <2>1, <2>5 DEF OneFiling
  <2>7. \A p, q \in Requests : filing'[p].stage \notin TaxService!Idle
          /\ filing'[q].stage \notin TaxService!Idle => p = q
    BY <2>1, <2>2 DEF OneFiling
  <2> QED BY <2>3, <2>4, <2>6, <2>7 DEF OneFiling
<1> QED BY <1>4, <1>5, <1>7, <1>8, <1>9, <1>12, <1>13 DEF TaxInv

(* Entries that are marked are worth what they were worth.                            *)
LEMMA MarkingKeepsTax ==
  ASSUME NEW rows, IsFiniteSet(rows), UniqueNames(rows), rows \subseteq TaxService!Entry,
         NEW r \in Requests
  PROVE  TaxService!TotalTax({[e EXCEPT !.remittance = r] : e \in rows})
           = TaxService!TotalTax(rows)
<1>1. PICK h : h = [e \in rows |-> [e EXCEPT !.remittance = r]]
  OBVIOUS
<1>2. \A e \in rows : h[e].tax = e.tax /\ e.tax \in Int
                      /\ TaxService!Name(h[e]) = TaxService!Name(e)
  BY <1>1 DEF TaxService!Entry, TaxService!Name
<1>3. PICK image : image = {h[e] : e \in rows}
  OBVIOUS
<1>4. image = {[e EXCEPT !.remittance = r] : e \in rows}
  BY <1>1, <1>3
<1>5. PICK f, g : f = [e \in rows |-> e.tax] /\ g = [e \in image |-> e.tax]
  OBVIOUS
<1>6. \A d, e \in rows : h[d] = h[e] => d = e
  BY <1>2 DEF UniqueNames
<1>7. \A e \in rows : f[e] \in Int /\ g[h[e]] = f[e]
  BY <1>2, <1>3, <1>5
<1>8. SumFunctionOnSet(g, {h[e] : e \in rows}) = SumFunctionOnSet(f, rows)
  BY <1>6, <1>7, SumOfImage
<1>9. SumFunctionOnSet(g, image) = SumFunctionOnSet(f, rows)
  BY <1>3, <1>8
<1>10. TaxService!TotalTax(image) = TaxService!TotalTax(rows)
  BY <1>5, <1>9, TaxSum DEF TaxService!TotalTax
<1> QED BY <1>4, <1>10

LEMMA TaxRemitted ==
  ASSUME TaxInv, NEW r \in Requests, TaxService!RemitCommit(r)
  PROVE  TaxInv'
<1> DEFINE rows == filing[r].rows
           Marked(e) == \E d \in rows : TaxService!Name(d) = TaxService!Name(e)
           After(e) == IF Marked(e) THEN [e EXCEPT !.remittance = r] ELSE e
<1>1. /\ filing[r].stage = "remitting" /\ UNCHANGED <<today, shared>>
      /\ collected' = {After(e) : e \in collected}
      /\ filing'[r] = [stage |-> "done", rows |-> {}] /\ reported'[r] = rows
      /\ \A q \in Requests : q # r => filing'[q] = filing[q] /\ reported'[q] = reported[q]
      /\ rows \subseteq TaxService!Entry /\ collected \subseteq TaxService!Entry
  <2>1. \A e \in collected : TaxService!Marked(r, e) <=> Marked(e)
    BY DEF TaxService!Marked, TaxService!Selected
  <2>2. collected' = {IF TaxService!Marked(r, e) THEN [e EXCEPT !.remittance = r] ELSE e :
                      e \in collected}
    BY DEF TaxService!RemitCommit
  <2>3. collected' = {After(e) : e \in collected}
    <3> HIDE DEF Marked
    <3> QED BY <2>1, <2>2
  <2> QED BY <2>3 DEF TaxInv, TaxService!TypeOK, TaxService!RemitCommit, TaxService!Finish,
                      TaxService!NoFiling
<1>2. FilingOK(r)
  BY DEF TaxInv
<1>3. /\ IsFiniteSet(rows) /\ UniqueNames(rows) /\ AreStored(rows)
      /\ reported[r] = {} /\ \A e \in collected : e.by # r
  BY <1>1, <1>2 DEF FilingOK
<1>4. ASSUME NEW e \in collected
      PROVE  /\ After(e) \in TaxService!Entry /\ After(e) \in collected'
             /\ After(e).tax = e.tax /\ After(e).by = e.by
             /\ TaxService!Name(After(e)) = TaxService!Name(e)
             /\ After(e).remittance = IF Marked(e) THEN r ELSE e.remittance
  <2>1. e \in TaxService!Entry
    BY <1>1
  <2> HIDE DEF Marked
  <2> QED BY <1>1, <2>1 DEF TaxService!Entry, TaxService!Name
<1>5. ASSUME NEW c \in collected' PROVE \E e \in collected : c = After(e)
  BY <1>1
<1>6. TaxService!TypeOK'
  <2>1. collected' \subseteq TaxService!Entry
    <3> HIDE DEF After
    <3> QED BY <1>4, <1>5
  <2>2. filing' = [filing EXCEPT ![r] = [stage |-> "done", rows |-> {}]]
        /\ reported' = [reported EXCEPT ![r] = rows]
    <3>1. [TaxService!NoFiling EXCEPT !.stage = "done"] = [stage |-> "done", rows |-> {}]
      BY DEF TaxService!NoFiling
    <3> QED BY <3>1 DEF TaxService!RemitCommit, TaxService!Finish
  <2> HIDE DEF rows
  <2> QED BY <1>1, <2>1, <2>2 DEF TaxInv, TaxService!TypeOK, TaxService!Idle
<1> HIDE DEF After, rows
<1>7. IsFiniteSet(collected')
  <2>1. PICK h : h = [e \in collected |-> After(e)]
    OBVIOUS
  <2>2. collected' = {h[e] : e \in collected}
    BY <1>1, <2>1
  <2>3. IsFiniteSet(collected)
    BY DEF TaxInv
  <2> QED BY <2>2, <2>3, ImageIsFinite
<1>8. UniqueNames(collected)'
  <2> SUFFICES ASSUME NEW c \in collected', NEW d \in collected',
                      TaxService!Name(c) = TaxService!Name(d)
               PROVE  c = d
    BY DEF UniqueNames
  <2>1. PICK x \in collected, y \in collected : c = After(x) /\ d = After(y)
    BY <1>5
  <2>2. x = y
    BY <1>4, <2>1 DEF TaxInv, UniqueNames
  <2> QED BY <2>1, <2>2
<1>9. \A q \in Requests : q # r => FilingOK(q)'
  <2>1. \A d \in collected : \E e \in collected' :
          TaxService!Name(d) = TaxService!Name(e) /\ d.tax = e.tax
    BY <1>4
  <2>2. \A e \in collected' : \E d \in collected : d.by = e.by
    BY <1>4, <1>5
  <2> QED BY <1>1, <2>1, <2>2, OtherFilings
<1>10. FilingOK(r)'
  <2>1. PICK some : some = rows
    OBVIOUS
  <2>2. AreStored(some)'
    <3> SUFFICES ASSUME NEW d \in some
                 PROVE  \E c \in collected' : TaxService!Name(d) = TaxService!Name(c) /\ d.tax = c.tax
      BY DEF AreStored
    <3>1. PICK e \in collected : TaxService!Name(d) = TaxService!Name(e) /\ d.tax = e.tax
      BY <1>3, <2>1 DEF AreStored
    <3> QED BY <1>4, <3>1
  <2>3. AreStored(reported[r])'
    BY <1>1, <2>1, <2>2 DEF AreStored
  <2> QED BY <1>1, <2>3, FS_EmptySet DEF FilingOK, UniqueNames
<1>11. \A e : TaxService!Reporters(e)'
         = TaxService!Reporters(e) \cup (IF Marked(e) THEN {r} ELSE {})
  <2> SUFFICES ASSUME NEW e, NEW q \in Requests
               PROVE  (\E d \in reported'[q] : TaxService!Name(d) = TaxService!Name(e))
                        <=> \/ \E d \in reported[q] : TaxService!Name(d) = TaxService!Name(e)
                            \/ q = r /\ Marked(e)
    BY DEF TaxService!Reporters
  <2> QED BY <1>1, <1>3
<1>12. \A d, e : TaxService!Name(d) = TaxService!Name(e) =>
         (Marked(d) <=> Marked(e)) /\ TaxService!Reporters(d) = TaxService!Reporters(e)
  BY DEF TaxService!Reporters
<1> HIDE DEF Marked
<1>13. \A e \in collected : \A c : c = After(e) =>
         TaxService!Reporters(c)' = TaxService!Reporters(e) \cup (IF Marked(e) THEN {r} ELSE {})
  <2> SUFFICES ASSUME NEW e \in collected, NEW c, c = After(e)
               PROVE  TaxService!Reporters(c)'
                        = TaxService!Reporters(e) \cup (IF Marked(e) THEN {r} ELSE {})
    OBVIOUS
  <2>1. TaxService!Name(c) = TaxService!Name(e)
    BY <1>4
  <2>2. (Marked(c) <=> Marked(e)) /\ TaxService!Reporters(c) = TaxService!Reporters(e)
    BY <1>12, <2>1
  <2> QED BY <1>11, <2>2
<1>14. TaxService!RemittedIsReported'
  <2> SUFFICES ASSUME NEW c \in collected'
               PROVE  /\ c.remittance # Nobody => c.remittance \in TaxService!Reporters(c)'
                      /\ TaxService!Reporters(c)' # {} => c.remittance # Nobody
    BY DEF TaxService!RemittedIsReported
  <2>1. PICK e \in collected : c = After(e)
    BY <1>5
  <2>2. /\ e.remittance # Nobody => e.remittance \in TaxService!Reporters(e)
        /\ TaxService!Reporters(e) # {} => e.remittance # Nobody
    BY DEF TaxInv, TaxService!RemittedIsReported
  <2>3. c.remittance = IF Marked(e) THEN r ELSE e.remittance
    BY <1>4, <2>1
  <2>4. TaxService!Reporters(c)'
          = TaxService!Reporters(e) \cup (IF Marked(e) THEN {r} ELSE {})
    BY <1>13, <2>1
  <2>5. r # Nobody
    BY BackOfficeAssumption DEF TaxService!TaxAssumption
  <2> QED BY <2>2, <2>3, <2>4, <2>5
<1>15. ASSUME ~shared' PROVE OneFiling'
  <2>1. OneFiling
    BY <1>1, <1>15 DEF TaxInv
  <2>2. rows \subseteq {e \in collected : e.remittance = Nobody}
    BY <1>1, <2>1 DEF OneFiling, rows
  <2>3. \A e \in collected : Marked(e) <=> e \in rows
    BY <2>2 DEF TaxInv, UniqueNames, Marked
  <2>4. \A e \in rows : TaxService!Reporters(e) = {}
    BY <2>2 DEF TaxInv, TaxService!RemittedIsReported
  <2>5. \A p \in Requests : filing'[p].stage \notin TaxService!Idle => FALSE
    <3>1. \A p \in Requests : filing[p].stage \notin TaxService!Idle => p = r
      BY <1>1, <2>1 DEF OneFiling, TaxService!Idle
    <3> QED BY <1>1, <3>1 DEF TaxService!Idle
  <2>6. "remitting" \notin TaxService!Idle
    BY DEF TaxService!Idle
  <2>7. \A c \in collected' : \A p, q \in TaxService!Reporters(c)' : p = q
    <3> SUFFICES ASSUME NEW c \in collected' 
                 PROVE  \A p, q \in TaxService!Reporters(c)' : p = q
      OBVIOUS
    <3>1. PICK e \in collected : c = After(e)
      BY <1>5
    <3>2. \A p, q \in TaxService!Reporters(e) : p = q
      BY <2>1 DEF OneFiling
    <3> QED BY <1>13, <2>3, <2>4, <3>1, <3>2
  <2>8. \A e \in collected : e.remittance # r
    <3> SUFFICES ASSUME NEW e \in collected, e.remittance = r PROVE FALSE
      OBVIOUS
    <3>1. r \in TaxService!Reporters(e)
      BY BackOfficeAssumption DEF TaxInv, TaxService!RemittedIsReported, TaxService!TaxAssumption
    <3> QED BY <1>3, <3>1 DEF TaxService!Reporters
  <2>9. ASSUME NEW q \in Requests, q # r
        PROVE  {c \in collected' : c.remittance = q} = {e \in collected : e.remittance = q}
    <3>1. \A e \in collected : After(e).remittance = q => e.remittance = q /\ After(e) = e
      BY <1>4, <2>9 DEF After
    <3>2. \A e \in collected : e.remittance = q => After(e) = e
      BY <2>2, <2>3, BackOfficeAssumption DEF After, TaxService!TaxAssumption
    <3>3. \A e \in collected : e.remittance = q => e \in collected'
      BY <1>4, <3>2
    <3> QED BY <1>5, <3>1, <3>3
  <2>10. {c \in collected' : c.remittance = r} = {[e EXCEPT !.remittance = r] : e \in rows}
    <3>1. \A e \in rows : After(e) = [e EXCEPT !.remittance = r]
      BY <2>2, <2>3 DEF After
    <3>2. \A e \in collected : After(e).remittance = r <=> e \in rows
      BY <1>4, <2>3, <2>8
    <3>3. PICK made : made = {After(e) : e \in rows}
      OBVIOUS
    <3>4. \A c \in collected' : c.remittance = r <=> c \in made
      <4> SUFFICES ASSUME NEW c \in collected' PROVE c.remittance = r <=> c \in made
        OBVIOUS
      <4>1. PICK e \in collected : c = After(e)
        BY <1>5
      <4>2. c \in made => \E d \in rows : c = After(d)
        BY <3>3
      <4> QED BY <2>2, <3>2, <3>3, <4>1, <4>2
    <3>5. made \subseteq collected'
      BY <1>4, <2>2, <3>3
    <3>6. made = {[e EXCEPT !.remittance = r] : e \in rows}
      BY <3>1, <3>3
    <3> QED BY <3>4, <3>5, <3>6
  <2>11. \A q \in Requests : TaxService!TotalTax(reported'[q])
           = TaxService!TotalTax({c \in collected' : c.remittance = q})
    <3> SUFFICES ASSUME NEW q \in Requests
                 PROVE  TaxService!TotalTax(reported'[q])
                          = TaxService!TotalTax({c \in collected' : c.remittance = q})
      OBVIOUS
    <3>1. CASE q = r
      <4>1. TaxService!TotalTax({[e EXCEPT !.remittance = r] : e \in rows})
              = TaxService!TotalTax(rows)
        BY <1>1, <1>3, MarkingKeepsTax
      <4> QED BY <1>1, <2>10, <3>1, <4>1
    <3>2. CASE q # r
      <4>1. reported'[q] = reported[q]
        BY <1>1, <3>2
      <4>2. TaxService!TotalTax(reported[q])
              = TaxService!TotalTax({e \in collected : e.remittance = q})
        BY <2>1 DEF OneFiling
      <4> QED BY <2>9, <3>2, <4>1, <4>2
    <3> QED BY <3>1, <3>2
  <2> QED BY <2>5, <2>6, <2>7, <2>11 DEF OneFiling
<1> QED BY <1>6, <1>7, <1>8, <1>9, <1>10, <1>14, <1>15 DEF TaxInv

LEMMA TaxStep ==
  ASSUME TaxInv, \/ TaxService!Next
                 \/ UNCHANGED taxVars /\ shared' \in BOOLEAN /\ (shared => shared')
  PROVE  TaxInv'
<1>1. ASSUME UNCHANGED taxVars, shared' \in BOOLEAN, shared => shared'
      PROVE  TaxInv'
  <2>1. UNCHANGED <<collected, today, filing, reported>>
    BY <1>1 DEF taxVars
  <2>2. TaxService!TypeOK'
    BY <1>1, <2>1 DEF TaxInv, TaxService!TypeOK
  <2>3. \A r \in Requests : FilingOK(r)'
    BY <2>1 DEF TaxInv, FilingOK, AreStored
  <2>4. \A e : TaxService!Reporters(e)' = TaxService!Reporters(e)
    BY <2>1 DEF TaxService!Reporters
  <2>5. OneFiling => OneFiling'
    BY <2>1, <2>4 DEF OneFiling
  <2>6. TaxService!RemittedIsReported'
    BY <2>1, <2>4 DEF TaxInv, TaxService!RemittedIsReported
  <2>7. IsFiniteSet(collected)' /\ UniqueNames(collected)'
    BY <2>1 DEF TaxInv
  <2> QED BY <1>1, <2>2, <2>3, <2>5, <2>6, <2>7 DEF TaxInv
<1>2. shared \in BOOLEAN
  BY DEF TaxInv, TaxService!TypeOK
<1>3. ASSUME NEW r \in Requests, NEW stage, NEW rows, TaxService!Begin(r, stage, rows)
      PROVE  shared' \in BOOLEAN
  BY <1>2, <1>3, Zenon DEF TaxService!Begin
<1>4. ASSUME NEW r \in Requests, NEW j \in Jurisdictions, NEW basket \in Baskets,
             TaxService!CalculateStart(r, j, basket)
      PROVE  TaxInv'
  <2> DEFINE new == TaxService!Recorded(r, j, basket)
  <2>1. /\ IsFiniteSet(new) /\ UniqueNames(new) /\ new \subseteq TaxService!Entry
        /\ \A e \in new : e.by = r /\ e.remittance = Nobody
    BY <1>4, RecordedEntries DEF TaxInv, TaxService!CalculateStart
  <2>2. TaxService!Begin(r, "recording", new) /\ UNCHANGED <<collected, today, reported>>
    BY <1>4 DEF TaxService!CalculateStart
  <2> HIDE DEF new
  <2>3. shared' \in BOOLEAN
    BY <1>3, <2>2
  <2> QED BY <2>1, <2>2, <2>3, TaxBegins
<1>5. ASSUME NEW r \in Requests, NEW j \in Jurisdictions, NEW first \in 1..Days,
             NEW last \in 1..Days, TaxService!RemitSelect(r, j, first, last)
      PROVE  TaxInv'
  <2> DEFINE due == TaxService!Due(j, first, last)
  <2>1. due \subseteq {e \in collected : e.remittance = Nobody}
    BY DEF TaxService!Due
  <2>2. TaxService!Begin(r, "remitting", due) /\ UNCHANGED <<collected, today, reported>>
    BY <1>5 DEF TaxService!RemitSelect
  <2> HIDE DEF due
  <2>3. shared' \in BOOLEAN
    BY <1>3, <2>2
  <2>4. IsFiniteSet(due) /\ UniqueNames(due) /\ due \subseteq TaxService!Entry
    BY <2>1, FS_Subset DEF TaxInv, TaxService!TypeOK, UniqueNames
  <2> QED BY <2>1, <2>2, <2>3, <2>4, TaxBegins
<1>6. ASSUME TaxService!NewDay PROVE TaxInv'
  <2>1. today' \in 1..Days /\ UNCHANGED <<collected, filing, reported, shared>>
    BY <1>6, BackOfficeAssumption
    DEF TaxInv, TaxService!TypeOK, TaxService!NewDay, TaxService!TaxAssumption
  <2>2. TaxService!TypeOK'
    BY <2>1 DEF TaxInv, TaxService!TypeOK
  <2>3. \A r \in Requests : FilingOK(r)'
    BY <2>1 DEF TaxInv, FilingOK, AreStored
  <2>4. \A e : TaxService!Reporters(e)' = TaxService!Reporters(e)
    BY <2>1 DEF TaxService!Reporters
  <2>5. OneFiling => OneFiling'
    BY <2>1, <2>4 DEF OneFiling
  <2>6. TaxService!RemittedIsReported'
    BY <2>1, <2>4 DEF TaxInv, TaxService!RemittedIsReported
  <2>7. IsFiniteSet(collected)' /\ UniqueNames(collected)'
    BY <2>1 DEF TaxInv
  <2> QED BY <2>1, <2>2, <2>3, <2>5, <2>6, <2>7 DEF TaxInv
<1>7. ASSUME NEW r \in Requests, TaxService!Fail(r) PROVE TaxInv'
  BY <1>7, TaxFails DEF TaxService!Fail
<1> QED BY <1>1, <1>4, <1>5, <1>6, <1>7, TaxRecorded, TaxRemitted DEF TaxService!Next

-----------------------------------------------------------------------------
(* The ledger.  What a session holds of an account is a sum of whole entries and     *)
(* the lines of its own entry that it has added so far; so what it commits is again   *)
(* a sum of whole entries, whatever was committed meanwhile.  While no two handlers    *)
(* have overlapped, that sum leaves no entry out.  The columns hold whole cents, so    *)
(* what a commit rounds is again whole cents, and differs from the sum of what it       *)
(* inserts by no more than a cent for each line that was not whole cents.               *)

Moves(entry) == [i \in DOMAIN entry |-> Ledger!Moved(entry[i])]

(* The lines of an entry before line n that are on account a, and what they move.     *)
Turns(entry, a, n) == {i \in DOMAIN entry : i < n /\ entry[i].account = a}

Share(entry, a, n) == SumFunctionOnSet(Moves(entry), Turns(entry, a, n))

LinesOf(a, kept) == {l \in lines : l.account = a /\ l.by \in kept}

(* An amount in whole cents that some of the entries account for.                     *)
Whole(a, amount) ==
    /\ amount \in Multiples(Cent)
    /\ \E kept \in SUBSET Requests : Ledger!FollowsFrom(amount, LinesOf(a, kept))

(* The account a in the session of a handler h.                                        *)
HeldOK(h, a) ==
    /\ h.held[a].dirty => h.held[a].loaded
    /\ ~h.held[a].dirty => Share(h.entry, a, h.next) = 0
    /\ ~h.held[a].loaded => Turns(h.entry, a, h.next) = {}
    /\ h.held[a].loaded =>
           /\ accounts[a].open
           /\ \E base \in Int : /\ Whole(a, base)
                                /\ h.held[a].balance = base + Share(h.entry, a, h.next)

Posting(h) ==
    h.stage = "posting" =>
        /\ h.entry \in Entries /\ Ledger!Balanced(h.entry) /\ h.next \in 1..(Len(h.entry) + 1)
        /\ \A a \in Accounts : HeldOK(h, a)

UpToDate(h) ==
    h.stage = "posting" => \A a \in Accounts : h.held[a].loaded =>
        h.held[a].balance = accounts[a].balance + Share(h.entry, a, h.next)

Books ==
    /\ \A q, r \in Requests :
           posting[q].stage \notin Ledger!Idle /\ posting[r].stage \notin Ledger!Idle => q = r
    /\ \A r \in Requests : UpToDate(posting[r])
    /\ \A a \in Accounts :
           Ledger!FollowsFrom(accounts[a].balance, {l \in lines : l.account = a})
    /\ 2 * SumFunctionOnSet([a \in Ledger!Opened |-> accounts[a].balance], Ledger!Opened)
           \in (-Ledger!Doubt(lines))..Ledger!Doubt(lines)

(* Finitely many lines, in whole cents.                                               *)
InCents(some) ==
    /\ IsFiniteSet(some)
    /\ \A l \in some : /\ l.debit \in Multiples(Cent) /\ l.credit \in Multiples(Cent)
                        /\ l.rough \in BOOLEAN

LedgerInv ==
    /\ Ledger!TypeOK
    /\ InCents(lines) /\ IsFiniteSet(Ledger!Opened)
    /\ \A a \in Accounts : /\ Whole(a, accounts[a].balance)
                           /\ ~accounts[a].open => accounts[a].balance = 0
    /\ \A r \in Requests : posting[r].stage # "done" => \A l \in lines : l.by # r
    /\ \A r \in Requests : Posting(posting[r])
    /\ ~shared => Books

LEMMA LedgerSum == \A f, S : Ledger!SumFunctionOnSet(f, S) = SumFunctionOnSet(f, S)
BY DEF Ledger!SumFunctionOnSet, Ledger!FoldFunctionOnSet, Ledger!MapThenFoldSet,
       SumFunctionOnSet, FoldFunctionOnSet, MapThenFoldSet

(* Rounding.                                                                          *)
LEMMA CentIsSome == Cent \in Nat \ {0}
BY BackOfficeAssumption DEF Ledger!LedgerAssumption

LEMMA Rest ==
  ASSUME NEW n \in Nat
  PROVE  /\ n % Cent \in 0..(Cent - 1) /\ n % Cent <= n /\ n - (n % Cent) \in Multiples(Cent)
         /\ n % Cent = 0 <=> n \in Multiples(Cent)
<1>1. Cent \in Nat \ {0}
  BY CentIsSome
<1>2. n % Cent \in 0..(Cent - 1)
  BY <1>1
<1>3. n \div Cent \in Int /\ n = Cent * (n \div Cent) + (n % Cent)
  BY <1>1
<1>4. n - (n % Cent) \in Multiples(Cent)
  BY <1>1, <1>2, <1>3 DEF Multiples
<1>5. n % Cent <= n
  <2>1. n \div Cent >= 0
    BY <1>1
  <2>2. Cent * (n \div Cent) >= 0
    BY <1>1, <1>3, <2>1
  <2> QED BY <1>1, <1>2, <1>3, <2>2
<1>6. ASSUME n \in Multiples(Cent) PROVE n % Cent = 0
  <2>1. n - (n - (n % Cent)) \in Multiples(Cent)
    BY <1>1, <1>4, <1>6, MultiplesAdd
  <2>2. n - (n - (n % Cent)) = n % Cent
    BY <1>2
  <2> QED BY <1>1, <1>2, <2>1, <2>2, MultiplesAdd
<1>7. n % Cent = 0 => n \in Multiples(Cent)
  BY <1>4
<1> QED BY <1>2, <1>4, <1>5, <1>6, <1>7

LEMMA RoundedNat ==
  ASSUME NEW n \in Nat
  PROVE  /\ Ledger!Rounded(n) \in Nat /\ Ledger!Rounded(n) \in Multiples(Cent)
         /\ 2 * (Ledger!Rounded(n) - n) \in (-Cent)..Cent
         /\ n \in Multiples(Cent) => Ledger!Rounded(n) = n
<1>1. Cent \in Nat \ {0} /\ Cent \in Multiples(Cent)
  <2>1. Cent = Cent * 1 /\ 1 \in Int
    BY CentIsSome
  <2> QED BY <2>1, CentIsSome DEF Multiples
<1>2. PICK rest : rest = n % Cent
  OBVIOUS
<1>3. /\ rest \in 0..(Cent - 1) /\ rest <= n /\ n - rest \in Multiples(Cent)
      /\ n \in Multiples(Cent) => rest = 0
  BY <1>2, Rest
<1>4. Ledger!Rounded(n) = IF 2 * rest >= Cent THEN n - rest + Cent ELSE n - rest
  BY <1>2 DEF Ledger!Rounded
<1>5. n - rest + Cent \in Multiples(Cent)
  BY <1>1, <1>3, MultiplesAdd
<1> QED BY <1>1, <1>3, <1>4, <1>5

LEMMA RoundedIsNear ==
  ASSUME NEW n \in Int
  PROVE  /\ Ledger!Rounded(n) \in Multiples(Cent) /\ Ledger!Rounded(n) \in Int
         /\ 2 * (Ledger!Rounded(n) - n) \in (-Cent)..Cent
         /\ n \in Multiples(Cent) => Ledger!Rounded(n) = n
<1>1. CASE n \in Nat
  BY <1>1, RoundedNat
<1>2. CASE n \notin Nat
  <2>1. PICK m \in Nat : m = -n /\ m > 0
    BY <1>2
  <2>2. Ledger!Rounded(n) = -Ledger!Rounded(m)
    BY <1>2, <2>1 DEF Ledger!Rounded
  <2>3. /\ Ledger!Rounded(m) \in Nat /\ Ledger!Rounded(m) \in Multiples(Cent)
        /\ 2 * (Ledger!Rounded(m) - m) \in (-Cent)..Cent
        /\ m \in Multiples(Cent) => Ledger!Rounded(m) = m
    BY RoundedNat
  <2>4. -Ledger!Rounded(m) \in Multiples(Cent) /\ (n \in Multiples(Cent) => m \in Multiples(Cent))
    BY <2>1, <2>3, CentIsSome, MultiplesAdd
  <2> QED BY <2>1, <2>2, <2>3, <2>4, CentIsSome
<1> QED BY <1>1, <1>2

StoredMove(line) == Ledger!Rounded(line.debit) - Ledger!Rounded(line.credit)

LineDoubt(line) == IF Ledger!Rough(line) THEN Cent ELSE 0

(* The line as it is stored.                                                          *)
LEMMA LineIsNear ==
  ASSUME NEW line \in Ledger!LineIn
  PROVE  /\ Ledger!Rounded(line.debit) \in Nat /\ Ledger!Rounded(line.debit) \in Multiples(Cent)
         /\ Ledger!Rounded(line.credit) \in Nat /\ Ledger!Rounded(line.credit) \in Multiples(Cent)
         /\ StoredMove(line) \in Int /\ LineDoubt(line) \in Int
         /\ StoredMove(line) - (line.debit - line.credit)
              \in (-LineDoubt(line))..LineDoubt(line)
         /\ Ledger!Rough(line) \in BOOLEAN
<1>1. PICK d \in Nat, c \in Nat : d = line.debit /\ c = line.credit
  BY DEF Ledger!LineIn
<1>2. PICK D \in Nat, C \in Nat : D = Ledger!Rounded(d) /\ C = Ledger!Rounded(c)
  BY RoundedNat
<1>3. /\ D \in Multiples(Cent) /\ C \in Multiples(Cent)
      /\ 2 * (D - d) \in (-Cent)..Cent /\ 2 * (C - c) \in (-Cent)..Cent
  BY <1>2, RoundedNat
<1>4. ~Ledger!Rough(line) => D = d /\ C = c
  BY <1>1, <1>2, Rest, RoundedNat DEF Ledger!Rough
<1>5. StoredMove(line) = D - C
  BY <1>1, <1>2 DEF StoredMove
<1>6. LineDoubt(line) \in {0, Cent} /\ (LineDoubt(line) = Cent \/ ~Ledger!Rough(line))
  BY DEF LineDoubt
<1>7. Ledger!Rough(line) \in BOOLEAN
  BY DEF Ledger!Rough
<1>8. (D - C) - (d - c) \in (-LineDoubt(line))..LineDoubt(line)
  <2>1. CASE Ledger!Rough(line)
    BY <1>3, <1>6, <2>1, CentIsSome
  <2>2. CASE ~Ledger!Rough(line)
    BY <1>4, <1>6, <2>2, CentIsSome
  <2> QED BY <2>1, <2>2
<1> QED BY <1>1, <1>2, <1>3, <1>5, <1>6, <1>7, <1>8, CentIsSome

(* What a session commits: the base it loaded and what its lines move, rounded, against   *)
(* the sum of the lines it inserts.                                                      *)
LEMMA CommitIsNear ==
  ASSUME NEW base \in Multiples(Cent), NEW share \in Int, NEW stored \in Multiples(Cent),
         NEW doubt \in Multiples(Cent), doubt >= 0, stored - share \in (-doubt)..doubt
  PROVE  /\ Ledger!Rounded(base + share) - (base + stored) \in (-doubt)..doubt
         /\ 2 * (Ledger!Rounded(base + share) - (base + share)) \in (-doubt)..doubt
<1>1. Cent \in Nat \ {0} /\ base \in Int /\ stored \in Int /\ doubt \in Int
  BY CentIsSome, MultiplesAdd
<1>2. PICK r \in Multiples(Cent) : r = Ledger!Rounded(base + share)
  BY <1>1, RoundedIsNear
<1>3. r \in Int /\ 2 * (r - (base + share)) \in (-Cent)..Cent
  BY <1>1, <1>2, RoundedIsNear
<1>4. CASE doubt = 0
  <2>1. share = stored
    BY <1>1, <1>4
  <2>2. base + share \in Multiples(Cent)
    BY <1>1, <2>1, MultiplesAdd
  <2>3. r = base + share
    BY <1>1, <1>2, <2>2, RoundedIsNear
  <2> QED BY <1>1, <1>2, <1>4, <2>1, <2>3
<1>5. CASE doubt # 0
  <2>1. doubt >= Cent
    BY <1>1, <1>5, MultiplesAdd
  <2>2. PICK off \in Int : off = r - (base + stored)
    BY <1>1, <1>3
  <2>3. off - doubt \in Multiples(Cent) /\ (-off) - doubt \in Multiples(Cent)
    <3>1. base + stored \in Multiples(Cent)
      BY <1>1, MultiplesAdd
    <3>2. off \in Multiples(Cent)
      BY <1>1, <2>2, <3>1, MultiplesAdd
    <3> QED BY <1>1, <3>2, MultiplesAdd
  <2>4. 2 * (off - doubt) <= Cent /\ 2 * ((-off) - doubt) <= Cent
    BY <1>1, <1>3, <2>2
  <2>5. off - doubt < Cent /\ (-off) - doubt < Cent
    BY <1>1, <2>2, <2>4
  <2>6. off - doubt <= 0 /\ (-off) - doubt <= 0
    BY <1>1, <2>3, <2>5, MultiplesAdd
  <2> QED BY <1>1, <1>2, <1>3, <2>1, <2>2, <2>6
<1> QED BY <1>4, <1>5

LEMMA EntryTyped ==
  ASSUME NEW entry \in Entries
  PROVE  /\ entry \in Seq(Ledger!LineIn) /\ Len(entry) \in Nat
         /\ DOMAIN entry = 1..Len(entry) /\ IsFiniteSet(DOMAIN entry)
         /\ \A i \in DOMAIN entry : /\ entry[i] \in Ledger!LineIn
                                    /\ Moves(entry)[i] = entry[i].debit - entry[i].credit
                                    /\ Moves(entry)[i] \in Int
         /\ \A a, n : IsFiniteSet(Turns(entry, a, n)) /\ Share(entry, a, n) \in Int
<1>1. entry \in Seq(Ledger!LineIn)
  BY BackOfficeAssumption DEF Ledger!LedgerAssumption
<1>2. Len(entry) \in Nat /\ DOMAIN entry = 1..Len(entry)
  BY <1>1
<1>3. IsFiniteSet(DOMAIN entry)
  BY <1>2, FS_Interval
<1>4. ASSUME NEW i \in DOMAIN entry
      PROVE  /\ entry[i] \in Ledger!LineIn
             /\ Moves(entry)[i] = entry[i].debit - entry[i].credit
             /\ Moves(entry)[i] \in Int
  <2>1. entry[i] \in Ledger!LineIn
    BY <1>1
  <2>2. Moves(entry)[i] = entry[i].debit - entry[i].credit
    BY DEF Moves, Ledger!Moved
  <2> QED BY <2>1, <2>2 DEF Ledger!LineIn
<1>5. ASSUME NEW a, NEW n PROVE IsFiniteSet(Turns(entry, a, n)) /\ Share(entry, a, n) \in Int
  <2>1. Turns(entry, a, n) \in SUBSET DOMAIN entry
    BY DEF Turns
  <2>2. IsFiniteSet(Turns(entry, a, n))
    BY <1>3, <2>1, FS_Subset
  <2> QED BY <1>4, <2>1, <2>2, SumIsInt DEF Share
<1> QED BY <1>1, <1>2, <1>3, <1>4, <1>5

(* One more line.                                                                      *)
LEMMA ShareGrows ==
  ASSUME NEW entry \in Entries, NEW n \in DOMAIN entry, NEW a
  PROVE  /\ Turns(entry, a, n + 1) = IF entry[n].account = a THEN Turns(entry, a, n) \cup {n}
                                     ELSE Turns(entry, a, n)
         /\ Share(entry, a, n + 1) = IF entry[n].account = a
                                     THEN Share(entry, a, n) + Ledger!Moved(entry[n])
                                     ELSE Share(entry, a, n)
<1>1. Turns(entry, a, n + 1) = IF entry[n].account = a THEN Turns(entry, a, n) \cup {n}
                               ELSE Turns(entry, a, n)
  <2>1. DOMAIN entry \subseteq Int
    BY EntryTyped
  <2> QED BY <2>1 DEF Turns
<1>2. CASE entry[n].account = a
  <2>1. PICK turns : turns = Turns(entry, a, n)
    OBVIOUS
  <2>2. IsFiniteSet(turns) /\ n \notin turns /\ turns \subseteq DOMAIN entry
    <3>1. n \notin Turns(entry, a, n)
      BY EntryTyped DEF Turns
    <3> QED BY <2>1, <3>1, EntryTyped DEF Turns
  <2>3. \A i \in turns \cup {n} : Moves(entry)[i] \in Int
    BY <2>2, EntryTyped
  <2>4. SumFunctionOnSet(Moves(entry), turns \cup {n})
          = SumFunctionOnSet(Moves(entry), turns) + Moves(entry)[n]
    BY <2>2, <2>3, SumPutsIn
  <2>5. Moves(entry)[n] = Ledger!Moved(entry[n])
    BY DEF Moves
  <2> QED BY <1>1, <1>2, <2>1, <2>4, <2>5 DEF Share
<1>3. CASE entry[n].account # a
  BY <1>1, <1>3 DEF Share
<1> QED BY <1>1, <1>2, <1>3

(* The sum of some lines, and how far off it may be.                                   *)
LEMMA SumOfLines ==
  ASSUME NEW some, InCents(some)
  PROVE  /\ Ledger!Sum(some) \in Multiples(Cent) /\ Ledger!Sum(some) \in Int
         /\ Ledger!Doubt(some) \in Multiples(Cent) /\ Ledger!Doubt(some) \in Nat
<1>1. PICK f, d : f = [l \in some |-> l.debit - l.credit]
                  /\ d = [l \in some |-> IF l.rough THEN Cent ELSE 0]
  OBVIOUS
<1>2. Cent \in Nat \ {0} /\ Cent \in Multiples(Cent) /\ 0 \in Multiples(Cent)
  <2>1. Cent = Cent * 1 /\ 1 \in Int /\ 0 = Cent * 0 /\ 0 \in Int
    BY CentIsSome
  <2> QED BY <2>1, CentIsSome DEF Multiples
<1>3. \A l \in some : f[l] \in Multiples(Cent) /\ d[l] \in Multiples(Cent) /\ d[l] \in Nat
  <2> SUFFICES ASSUME NEW l \in some
               PROVE  f[l] \in Multiples(Cent) /\ d[l] \in Multiples(Cent) /\ d[l] \in Nat
    OBVIOUS
  <2>1. l.debit - l.credit \in Multiples(Cent)
    BY <1>2, MultiplesAdd DEF InCents
  <2>2. l.rough \in BOOLEAN
    BY DEF InCents
  <2> QED BY <1>1, <1>2, <2>1, <2>2
<1>4. /\ SumFunctionOnSet(f, some) \in Multiples(Cent)
      /\ SumFunctionOnSet(d, some) \in Multiples(Cent) /\ SumFunctionOnSet(d, some) \in Nat
  BY <1>2, <1>3, SumOfMultiples, SumIsNat DEF InCents
<1> QED BY <1>1, <1>2, <1>4, MultiplesAdd, LedgerSum DEF Ledger!Sum, Ledger!Doubt

LEMMA SumOfMoreLines ==
  ASSUME NEW some, InCents(some), NEW more, InCents(more), some \cap more = {}
  PROVE  /\ Ledger!Sum(some \cup more) = Ledger!Sum(some) + Ledger!Sum(more)
         /\ Ledger!Doubt(some \cup more) = Ledger!Doubt(some) + Ledger!Doubt(more)
<1> DEFINE move(l) == l.debit - l.credit
           doubt(l) == IF l.rough THEN Cent ELSE 0
<1>1. IsFiniteSet(some) /\ IsFiniteSet(more)
  BY DEF InCents
<1>2. \A l \in some \cup more : move(l) \in Int /\ doubt(l) \in Int
  <2> SUFFICES ASSUME NEW l \in some \cup more PROVE move(l) \in Int /\ doubt(l) \in Int
    OBVIOUS
  <2>1. l.debit \in Int /\ l.credit \in Int /\ l.rough \in BOOLEAN
    BY CentIsSome, MultiplesAdd DEF InCents
  <2> QED BY <2>1, CentIsSome
<1> HIDE DEF move, doubt
<1>3. SumFunctionOnSet([l \in some \cup more |-> move(l)], some \cup more)
        = SumFunctionOnSet([l \in some |-> move(l)], some)
          + SumFunctionOnSet([l \in more |-> move(l)], more)
  <2>1. PICK f, g, h : /\ f = [l \in some \cup more |-> move(l)]
                       /\ g = [l \in some |-> move(l)] /\ h = [l \in more |-> move(l)]
    OBVIOUS
  <2>2. \A l \in some \cup more : f[l] \in Int
    BY <1>2, <2>1
  <2>3. SumFunctionOnSet(f, some \cup more) = SumFunctionOnSet(f, some) + SumFunctionOnSet(f, more)
    BY <1>1, <2>2, SumOfUnion
  <2>4. (\A l \in some : f[l] = g[l]) /\ (\A l \in more : f[l] = h[l])
    BY <2>1
  <2>5. SumFunctionOnSet(f, some) = SumFunctionOnSet(g, some)
    BY <1>1, <2>4, SumOfEqualTerms
  <2>6. SumFunctionOnSet(f, more) = SumFunctionOnSet(h, more)
    BY <1>1, <2>4, SumOfEqualTerms
  <2> QED BY <2>1, <2>3, <2>5, <2>6
<1>4. SumFunctionOnSet([l \in some \cup more |-> doubt(l)], some \cup more)
        = SumFunctionOnSet([l \in some |-> doubt(l)], some)
          + SumFunctionOnSet([l \in more |-> doubt(l)], more)
  <2>1. PICK f, g, h : /\ f = [l \in some \cup more |-> doubt(l)]
                       /\ g = [l \in some |-> doubt(l)] /\ h = [l \in more |-> doubt(l)]
    OBVIOUS
  <2>2. \A l \in some \cup more : f[l] \in Int
    BY <1>2, <2>1
  <2>3. SumFunctionOnSet(f, some \cup more) = SumFunctionOnSet(f, some) + SumFunctionOnSet(f, more)
    BY <1>1, <2>2, SumOfUnion
  <2>4. (\A l \in some : f[l] = g[l]) /\ (\A l \in more : f[l] = h[l])
    BY <2>1
  <2>5. SumFunctionOnSet(f, some) = SumFunctionOnSet(g, some)
    BY <1>1, <2>4, SumOfEqualTerms
  <2>6. SumFunctionOnSet(f, more) = SumFunctionOnSet(h, more)
    BY <1>1, <2>4, SumOfEqualTerms
  <2> QED BY <2>1, <2>3, <2>5, <2>6
<1> QED BY <1>3, <1>4, LedgerSum DEF Ledger!Sum, Ledger!Doubt, move, doubt

LEMMA LinesAmong ==
  ASSUME NEW some, InCents(some), NEW few \in SUBSET some
  PROVE  InCents(few)
BY FS_Subset DEF InCents

OnAccount(some, a) == {l \in some : l.account = a}

LinesFrom(r, entry) ==
    {[by |-> r, index |-> i, account |-> entry[i].account,
      debit |-> Ledger!Rounded(entry[i].debit), credit |-> Ledger!Rounded(entry[i].credit),
      rough |-> Ledger!Rough(entry[i])] : i \in DOMAIN entry}

Line == [by : Requests, index : Nat, account : Accounts, debit : Nat, credit : Nat,
         rough : BOOLEAN]

(* What PostCommit inserts, on one account.                                            *)
LEMMA PostedShare ==
  ASSUME NEW r \in Requests, NEW entry \in Entries, NEW a,
         NEW posted, posted = LinesFrom(r, entry)
  PROVE  /\ posted \subseteq Line /\ InCents(posted) /\ \A l \in posted : l.by = r
         /\ Ledger!Sum(OnAccount(posted, a)) - Share(entry, a, Len(entry) + 1)
              \in (-Ledger!Doubt(OnAccount(posted, a)))..Ledger!Doubt(OnAccount(posted, a))
<1> DEFINE turns == Turns(entry, a, Len(entry) + 1)
<1>1. PICK h : h = [i \in DOMAIN entry |->
                      [by |-> r, index |-> i, account |-> entry[i].account,
                       debit |-> Ledger!Rounded(entry[i].debit),
                       credit |-> Ledger!Rounded(entry[i].credit),
                       rough |-> Ledger!Rough(entry[i])]]
  OBVIOUS
<1>2. posted = {h[i] : i \in DOMAIN entry}
  BY <1>1 DEF LinesFrom
<1>3. PICK stored, doubt, off :
        /\ stored = [i \in DOMAIN entry |-> StoredMove(entry[i])]
        /\ doubt = [i \in DOMAIN entry |-> LineDoubt(entry[i])]
        /\ off = [i \in DOMAIN entry |-> StoredMove(entry[i]) - Moves(entry)[i]]
  OBVIOUS
<1>4. \A i \in DOMAIN entry :
        /\ h[i].by = r /\ h[i].index = i /\ h[i].account = entry[i].account
        /\ h[i].debit \in Multiples(Cent) /\ h[i].credit \in Multiples(Cent)
        /\ h[i].debit - h[i].credit = stored[i]
        /\ (IF h[i].rough THEN Cent ELSE 0) = doubt[i]
        /\ h[i] \in Line
  <2> SUFFICES ASSUME NEW i \in DOMAIN entry
               PROVE  /\ h[i].by = r /\ h[i].index = i /\ h[i].account = entry[i].account
                      /\ h[i].debit \in Multiples(Cent) /\ h[i].credit \in Multiples(Cent)
                      /\ h[i].debit - h[i].credit = stored[i]
                      /\ (IF h[i].rough THEN Cent ELSE 0) = doubt[i]
                      /\ h[i] \in Line
    OBVIOUS
  <2>1. i \in Nat /\ entry[i] \in Ledger!LineIn
    BY EntryTyped
  <2>2. /\ Ledger!Rounded(entry[i].debit) \in Nat /\ Ledger!Rounded(entry[i].credit) \in Nat
        /\ Ledger!Rounded(entry[i].debit) \in Multiples(Cent)
        /\ Ledger!Rounded(entry[i].credit) \in Multiples(Cent)
        /\ Ledger!Rough(entry[i]) \in BOOLEAN
    BY <2>1, LineIsNear
  <2>3. entry[i].account \in Accounts
    BY <2>1 DEF Ledger!LineIn
  <2>4. /\ h[i].by = r /\ h[i].index = i /\ h[i].account = entry[i].account
        /\ h[i].debit = Ledger!Rounded(entry[i].debit)
        /\ h[i].credit = Ledger!Rounded(entry[i].credit)
        /\ h[i].rough = Ledger!Rough(entry[i]) /\ h[i] \in Line
    BY <1>1, <2>1, <2>2, <2>3 DEF Line
  <2>5. h[i].debit - h[i].credit = stored[i]
    BY <1>3, <2>4 DEF StoredMove
  <2>6. (IF h[i].rough THEN Cent ELSE 0) = doubt[i]
    BY <1>3, <2>4 DEF LineDoubt
  <2> QED BY <2>2, <2>4, <2>5, <2>6
<1>5. \A i \in DOMAIN entry :
        /\ stored[i] \in Int /\ doubt[i] \in Int /\ off[i] \in Int /\ Moves(entry)[i] \in Int
        /\ stored[i] = Moves(entry)[i] + off[i] /\ off[i] \in (-doubt[i])..doubt[i]
  <2> SUFFICES ASSUME NEW i \in DOMAIN entry
               PROVE  /\ stored[i] \in Int /\ doubt[i] \in Int /\ off[i] \in Int
                      /\ Moves(entry)[i] \in Int /\ stored[i] = Moves(entry)[i] + off[i]
                      /\ off[i] \in (-doubt[i])..doubt[i]
    OBVIOUS
  <2>1. /\ entry[i] \in Ledger!LineIn /\ Moves(entry)[i] \in Int
        /\ Moves(entry)[i] = entry[i].debit - entry[i].credit
    BY EntryTyped
  <2>2. /\ StoredMove(entry[i]) \in Int /\ LineDoubt(entry[i]) \in Int
        /\ StoredMove(entry[i]) - Moves(entry)[i]
             \in (-LineDoubt(entry[i]))..LineDoubt(entry[i])
    BY <2>1, LineIsNear
  <2> QED BY <1>3, <2>1, <2>2
<1>6. turns = {i \in DOMAIN entry : entry[i].account = a}
  BY EntryTyped DEF Turns
<1>7. OnAccount(posted, a) = {h[i] : i \in turns}
  BY <1>2, <1>4, <1>6 DEF OnAccount
<1>8. IsFiniteSet(turns) /\ turns \subseteq DOMAIN entry
  BY <1>6, EntryTyped
<1> HIDE DEF turns
<1>9. PICK image : image = {h[i] : i \in turns}
  OBVIOUS
<1>10. PICK g, d : /\ g = [l \in image |-> l.debit - l.credit]
                   /\ d = [l \in image |-> IF l.rough THEN Cent ELSE 0]
  OBVIOUS
<1>11. \A i \in turns : g[h[i]] = stored[i] /\ d[h[i]] = doubt[i]
  BY <1>4, <1>8, <1>9, <1>10
<1>12. \A i, j \in turns : h[i] = h[j] => i = j
  BY <1>4, <1>8
<1>13. /\ SumFunctionOnSet(g, {h[i] : i \in turns}) = SumFunctionOnSet(stored, turns)
       /\ SumFunctionOnSet(d, {h[i] : i \in turns}) = SumFunctionOnSet(doubt, turns)
  <2>1. \A i \in turns : stored[i] \in Int /\ doubt[i] \in Int
    BY <1>5, <1>8
  <2>2. SumFunctionOnSet(g, {h[i] : i \in turns}) = SumFunctionOnSet(stored, turns)
    BY <1>8, <1>11, <1>12, <2>1, SumOfImage
  <2>3. SumFunctionOnSet(d, {h[i] : i \in turns}) = SumFunctionOnSet(doubt, turns)
    BY <1>8, <1>11, <1>12, <2>1, SumOfImage
  <2> QED BY <2>2, <2>3
<1>14. /\ Ledger!Sum(image) = SumFunctionOnSet(stored, turns)
       /\ Ledger!Doubt(image) = SumFunctionOnSet(doubt, turns)
  BY <1>9, <1>10, <1>13, LedgerSum DEF Ledger!Sum, Ledger!Doubt
<1>15. Ledger!Sum(OnAccount(posted, a)) - Share(entry, a, Len(entry) + 1)
         \in (-Ledger!Doubt(OnAccount(posted, a)))..Ledger!Doubt(OnAccount(posted, a))
  <2>1. PICK total, moved, less, most :
          /\ total = SumFunctionOnSet(stored, turns) /\ moved = SumFunctionOnSet(Moves(entry), turns)
          /\ less = SumFunctionOnSet(off, turns) /\ most = SumFunctionOnSet(doubt, turns)
    OBVIOUS
  <2>2. moved \in Int
    BY <1>5, <1>8, <2>1, SumIsInt
  <2>3. less \in Int /\ most \in Int /\ less \in (-most)..most
    <3>1. \A i \in turns : off[i] \in Int /\ doubt[i] \in Int /\ off[i] \in (-doubt[i])..doubt[i]
      BY <1>5, <1>8
    <3> QED BY <1>8, <2>1, <3>1, SumWithin
  <2>4. total = moved + less
    <3>1. \A i \in turns : /\ Moves(entry)[i] \in Int /\ off[i] \in Int
                           /\ stored[i] = Moves(entry)[i] + off[i]
      BY <1>5, <1>8
    <3> QED BY <1>8, <2>1, <3>1, SumOfSums
  <2>5. Share(entry, a, Len(entry) + 1) = moved
    BY <2>1 DEF Share, turns
  <2>6. /\ Ledger!Sum(OnAccount(posted, a)) = total
        /\ Ledger!Doubt(OnAccount(posted, a)) = most
    BY <1>7, <1>9, <1>14, <2>1
  <2>7. total - moved \in (-most)..most
    BY <2>2, <2>3, <2>4
  <2> QED BY <2>5, <2>6, <2>7
<1>16. InCents(posted)
  <2>1. PICK names : names = DOMAIN entry
    OBVIOUS
  <2>2. IsFiniteSet({h[i] : i \in names})
    BY <2>1, EntryTyped, ImageIsFinite
  <2>3. \A i \in names : h[i].rough \in BOOLEAN
    BY <1>4, <2>1 DEF Line
  <2> QED BY <1>2, <1>4, <2>1, <2>2, <2>3 DEF InCents
<1> QED BY <1>2, <1>4, <1>15, <1>16

(* The doubt of some lines, account by account.                                        *)
LEMMA DoubtByAccount ==
  ASSUME NEW some, InCents(some), NEW A, IsFiniteSet(A), \A l \in some : l.account \in A
  PROVE  /\ SumFunctionOnSet([a \in A |-> Ledger!Doubt(OnAccount(some, a))], A)
              = Ledger!Doubt(some)
         /\ \A a : Ledger!Doubt(OnAccount(some, a)) \in Nat
<1>1. PICK d, group, parts : /\ d = [l \in some |-> IF l.rough THEN Cent ELSE 0]
                             /\ group = [l \in some |-> l.account]
                             /\ parts = [a \in A |-> Ledger!Doubt(OnAccount(some, a))]
  OBVIOUS
<1>2. IsFiniteSet(some) /\ \A l \in some : d[l] \in Int
  BY <1>1, CentIsSome DEF InCents
<1>3. ASSUME NEW a
      PROVE  /\ OnAccount(some, a) \subseteq some /\ InCents(OnAccount(some, a))
             /\ Ledger!Doubt(OnAccount(some, a)) = SumFunctionOnSet(d, OnAccount(some, a))
  <2>1. PICK few : few = OnAccount(some, a)
    OBVIOUS
  <2>2. few \subseteq some /\ InCents(few)
    BY <2>1, LinesAmong DEF OnAccount
  <2>3. PICK e : e = [l \in few |-> IF l.rough THEN Cent ELSE 0]
    OBVIOUS
  <2>4. IsFiniteSet(few) /\ \A l \in few : d[l] = e[l]
    BY <1>1, <2>2, <2>3 DEF InCents
  <2>5. SumFunctionOnSet(d, few) = SumFunctionOnSet(e, few)
    BY <2>4, SumOfEqualTerms
  <2>6. Ledger!Doubt(few) = SumFunctionOnSet(e, few)
    BY <2>3, LedgerSum DEF Ledger!Doubt
  <2> QED BY <2>1, <2>2, <2>5, <2>6
<1>4. SumsGroups(parts, d, some, group, A)
  <2>1. \A l \in some : group[l] \in A
    BY <1>1
  <2>2. \A a \in A : {l \in some : group[l] = a} = OnAccount(some, a)
    BY <1>1 DEF OnAccount
  <2> QED BY <1>1, <1>3, <2>1, <2>2 DEF SumsGroups
<1>5. SumFunctionOnSet(parts, A) = SumFunctionOnSet(d, some)
  BY <1>2, <1>4, SumByGroups
<1>6. Ledger!Doubt(some) = SumFunctionOnSet(d, some)
  BY <1>1, LedgerSum DEF Ledger!Doubt
<1> QED BY <1>1, <1>3, <1>5, <1>6, SumOfLines

(* The lines of a balanced entry move nothing in all.                                 *)
LEMMA BalancedMovesNothing ==
  ASSUME NEW entry \in Entries, Ledger!Balanced(entry)
  PROVE  SumFunctionOnSet(Moves(entry), DOMAIN entry) = 0
<1>1. PICK d, c : d = [i \in DOMAIN entry |-> entry[i].debit]
                  /\ c = [i \in DOMAIN entry |-> entry[i].credit]
  OBVIOUS
<1>2. \A i \in DOMAIN entry : c[i] \in Int /\ Moves(entry)[i] \in Int
                              /\ d[i] = c[i] + Moves(entry)[i] /\ d[i] \in Int
  <2> SUFFICES ASSUME NEW i \in DOMAIN entry
               PROVE  c[i] \in Int /\ Moves(entry)[i] \in Int
                      /\ d[i] = c[i] + Moves(entry)[i] /\ d[i] \in Int
    OBVIOUS
  <2>1. /\ entry[i] \in Ledger!LineIn
        /\ Moves(entry)[i] = entry[i].debit - entry[i].credit
    BY EntryTyped
  <2> QED BY <1>1, <2>1 DEF Ledger!LineIn
<1>3. SumFunctionOnSet(d, DOMAIN entry)
        = SumFunctionOnSet(c, DOMAIN entry) + SumFunctionOnSet(Moves(entry), DOMAIN entry)
  BY <1>2, EntryTyped, SumOfSums
<1>4. PICK D, C, M : /\ D = SumFunctionOnSet(d, DOMAIN entry) /\ C = SumFunctionOnSet(c, DOMAIN entry)
                     /\ M = SumFunctionOnSet(Moves(entry), DOMAIN entry)
  OBVIOUS
<1>5. D \in Int /\ C \in Int /\ M \in Int
  BY <1>2, <1>4, EntryTyped, SumIsInt
<1>6. D = C
  <2>1. DOMAIN d = DOMAIN entry /\ DOMAIN c = DOMAIN entry
    BY <1>1
  <2>2. Ledger!Debits(entry) = D /\ Ledger!Credits(entry) = C
    BY <1>1, <1>4, <2>1, LedgerSum DEF Ledger!Debits, Ledger!Credits, Ledger!SumFunction
  <2> QED BY <2>2 DEF Ledger!Balanced
<1>7. D = C + M
  BY <1>3, <1>4, Zenon
<1>8. M = 0
  BY <1>5, <1>6, <1>7
<1> QED BY <1>4, <1>8

Handler == [stage : Ledger!Idle \cup {"opening", "posting"}, entry : Entries \cup {<< >>},
            next : Nat, held : [Accounts -> Ledger!Held]]

LEMMA LedgerTyped ==
  ASSUME LedgerInv
  PROVE  /\ accounts \in [Accounts -> Ledger!Account] /\ posting \in [Requests -> Handler]
         /\ shared \in BOOLEAN
         /\ InCents(lines) /\ IsFiniteSet(lines)
BY DEF LedgerInv, Ledger!TypeOK, Handler, InCents

LEMMA NoPostingTyped ==
  /\ Ledger!NoPosting \in Handler
  /\ \A s \in Ledger!Idle : /\ [Ledger!NoPosting EXCEPT !.stage = s] \in Handler
                            /\ [Ledger!NoPosting EXCEPT !.stage = s].stage = s
<1>1. Ledger!NotHeld \in Ledger!Held
  BY DEF Ledger!NotHeld, Ledger!Held
<1>2. [a \in Accounts |-> Ledger!NotHeld] \in [Accounts -> Ledger!Held]
  BY <1>1
<1>3. PICK none : none = [a \in Accounts |-> Ledger!NotHeld]
  OBVIOUS
<1>4. Ledger!NoPosting = [stage |-> "new", entry |-> << >>, next |-> 1, held |-> none]
  BY <1>3 DEF Ledger!NoPosting
<1> QED BY <1>2, <1>3, <1>4 DEF Handler, Ledger!Idle

LEMMA LedgerInit == Ledger!Init => LedgerInv
<1> SUFFICES ASSUME Ledger!Init PROVE LedgerInv
  OBVIOUS
<1>1. /\ lines = {} /\ shared = FALSE
      /\ \A a \in Accounts : ~accounts[a].open /\ accounts[a].balance = 0
      /\ \A r \in Requests : posting[r] = Ledger!NoPosting /\ posting[r].stage = "new"
  BY DEF Ledger!Init, Ledger!NoPosting
<1>2. Ledger!TypeOK
  <2>1. posting \in [Requests -> Handler]
    BY NoPostingTyped DEF Ledger!Init
  <2>2. accounts \in [Accounts -> Ledger!Account]
    BY DEF Ledger!Init, Ledger!Account
  <2> QED BY <1>1, <2>1, <2>2 DEF Ledger!TypeOK, Handler
<1>3. Ledger!Opened = {} /\ IsFiniteSet(Ledger!Opened) /\ IsFiniteSet(lines)
  BY <1>1, FS_EmptySet DEF Ledger!Opened
<1>4. Ledger!Doubt({}) = 0 /\ Ledger!FollowsFrom(0, {})
  <2>1. Ledger!Sum({}) = 0 /\ Ledger!Doubt({}) = 0
    BY LedgerSum, SumOfNothing DEF Ledger!Sum, Ledger!Doubt
  <2> QED BY <2>1 DEF Ledger!FollowsFrom
<1>5. \A a \in Accounts : Whole(a, accounts[a].balance)
  <2>1. \A a : LinesOf(a, {}) = {}
    BY <1>1 DEF LinesOf
  <2>2. 0 \in Multiples(Cent)
    BY CentIsSome, MultiplesAdd
  <2> QED BY <1>1, <1>4, <2>1, <2>2 DEF Whole
<1>6. Books
  <2>1. SumFunctionOnSet([a \in Ledger!Opened |-> accounts[a].balance], Ledger!Opened) = 0
    BY <1>3, SumOfNothing
  <2>2. \A a \in Accounts :
          Ledger!FollowsFrom(accounts[a].balance, {l \in lines : l.account = a})
    <3>1. \A a : {l \in lines : l.account = a} = {}
      BY <1>1
    <3> QED BY <1>1, <1>4, <3>1
  <2> QED BY <1>1, <1>4, <2>1, <2>2 DEF Books, UpToDate, Ledger!Idle
<1>7. InCents(lines)
  BY <1>1, <1>3 DEF InCents
<1> QED BY <1>1, <1>2, <1>3, <1>5, <1>6, <1>7 DEF LedgerInv, Posting

(* A step of one handler that touches no table.                                        *)
LEMMA HandlerMoves ==
  ASSUME LedgerInv, NEW r \in Requests, NEW h \in Handler,
         posting' = [posting EXCEPT ![r] = h], UNCHANGED <<accounts, lines>>,
         Posting(h), h.stage # "done" => posting[r].stage # "done",
         shared' \in BOOLEAN, shared => shared',
         ~shared' => /\ UpToDate(h)
                     /\ \/ h.stage \in Ledger!Idle
                        \/ posting[r].stage \notin Ledger!Idle
                        \/ \A q \in Requests : posting[q].stage \in Ledger!Idle
  PROVE  LedgerInv'
<1>1. /\ posting' \in [Requests -> Handler] /\ posting'[r] = h
      /\ \A q \in Requests : q # r => posting'[q] = posting[q]
  BY LedgerTyped
<1>2. Ledger!TypeOK'
  BY <1>1 DEF LedgerInv, Ledger!TypeOK, Handler
<1>3. Ledger!Opened' = Ledger!Opened
  BY DEF Ledger!Opened
<1>4. \A a, b : Whole(a, b)' <=> Whole(a, b)
  BY DEF Whole, LinesOf
<1>5. \A g : (Posting(g)' <=> Posting(g)) /\ (UpToDate(g)' <=> UpToDate(g))
  BY <1>4 DEF Posting, HeldOK, UpToDate
<1>6. \A q \in Requests : Posting(posting[q])'
  <2> SUFFICES ASSUME NEW q \in Requests PROVE Posting(posting[q])'
    OBVIOUS
  <2>1. PICK g : g = posting'[q]
    OBVIOUS
  <2>2. Posting(g)
    BY <1>1, <2>1 DEF LedgerInv
  <2>3. Posting(g)'
    BY <1>5, <2>2
  <2> QED BY <2>1, <2>3 DEF Posting, HeldOK
<1>7. \A q \in Requests : posting'[q].stage # "done" => \A l \in lines : l.by # q
  BY <1>1 DEF LedgerInv
<1>8. \A a \in Accounts : /\ Whole(a, accounts[a].balance)'
                          /\ ~accounts'[a].open => accounts'[a].balance = 0
  BY <1>4 DEF LedgerInv, Whole, LinesOf
<1>9. ASSUME ~shared' PROVE Books'
  <2>1. Books
    BY <1>9 DEF LedgerInv
  <2>2. \A q \in Requests : UpToDate(posting[q])'
    BY <1>1, <1>9, <2>1 DEF Books, UpToDate
  <2>3. \A p, q \in Requests :
          posting'[p].stage \notin Ledger!Idle /\ posting'[q].stage \notin Ledger!Idle => p = q
    BY <1>1, <1>9, <2>1 DEF Books
  <2>4. [a \in Ledger!Opened |-> accounts[a].balance]' = [a \in Ledger!Opened |-> accounts[a].balance]
    BY <1>3
  <2> QED BY <1>3, <2>1, <2>2, <2>3, <2>4 DEF Books
<1> QED BY <1>2, <1>3, <1>6, <1>7, <1>8, <1>9 DEF LedgerInv

LEMMA LedgerEnds ==
  ASSUME LedgerInv, NEW r \in Requests, NEW s \in {"done", "failed"}, Ledger!Finish(r, s),
         UNCHANGED <<accounts, lines, shared>>, posting[r].stage # "done"
  PROVE  LedgerInv'
<1>1. PICK h : h = [Ledger!NoPosting EXCEPT !.stage = s]
  OBVIOUS
<1>2. h \in Handler /\ h.stage = s /\ s \in Ledger!Idle /\ h.stage # "posting"
  BY <1>1, NoPostingTyped DEF Ledger!Idle
<1>3. posting' = [posting EXCEPT ![r] = h]
  BY <1>1 DEF Ledger!Finish
<1> QED BY <1>2, <1>3, HandlerMoves, LedgerTyped DEF Posting, UpToDate

LEMMA LedgerBegins ==
  ASSUME LedgerInv, NEW r \in Requests, NEW h \in Handler, Ledger!Begin(r, h),
         Posting(h), UpToDate(h), UNCHANGED <<accounts, lines>>
  PROVE  LedgerInv'
<1>1. posting[r].stage = "new" /\ posting' = [posting EXCEPT ![r] = h]
  BY DEF Ledger!Begin
<1>2. shared' \in BOOLEAN /\ (shared => shared')
  BY LedgerTyped, Zenon DEF Ledger!Begin
<1>3. ~shared' => \A q \in Requests : posting[q].stage \in Ledger!Idle
  BY DEF Ledger!Begin
<1> QED BY <1>1, <1>2, <1>3, HandlerMoves

LEMMA LedgerOpenCheck ==
  ASSUME LedgerInv, NEW r \in Requests, NEW a \in Accounts, Ledger!OpenCheck(r, a)
  PROVE  LedgerInv'
<1>1. PICK h : h = [Ledger!NoPosting EXCEPT !.stage = "opening", !.entry = << >>,
                                            !.held[a].loaded = TRUE]
  OBVIOUS
<1>2. h \in Handler /\ h.stage = "opening"
  <2>1. PICK none : none = Ledger!NoPosting
    OBVIOUS
  <2>2. none \in Handler
    BY <2>1, NoPostingTyped
  <2>3. PICK held : held = [none.held EXCEPT ![a].loaded = TRUE]
    OBVIOUS
  <2>4. held \in [Accounts -> Ledger!Held]
    BY <2>2, <2>3 DEF Handler, Ledger!Held
  <2>5. h = [none EXCEPT !.stage = "opening", !.entry = << >>, !.held = held]
    BY <1>1, <2>1, <2>2, <2>3 DEF Handler
  <2> QED BY <2>2, <2>4, <2>5 DEF Handler
<1>3. Ledger!Begin(r, h) /\ UNCHANGED <<accounts, lines>>
  BY <1>1 DEF Ledger!OpenCheck
<1> QED BY <1>2, <1>3, LedgerBegins DEF Posting, UpToDate

LEMMA LedgerPostStart ==
  ASSUME LedgerInv, NEW r \in Requests, NEW entry \in Entries, Ledger!PostStart(r, entry)
  PROVE  LedgerInv'
<1>1. PICK h : h = [Ledger!NoPosting EXCEPT !.stage = "posting", !.entry = entry]
  OBVIOUS
<1>2. /\ h \in Handler /\ h.stage = "posting" /\ h.entry = entry /\ h.next = 1
      /\ \A a \in Accounts : ~h.held[a].loaded /\ ~h.held[a].dirty
  <2>1. PICK none : none = Ledger!NoPosting
    OBVIOUS
  <2>2. /\ none \in Handler /\ none.next = 1
        /\ \A a \in Accounts : ~none.held[a].loaded /\ ~none.held[a].dirty
    BY <2>1, NoPostingTyped DEF Ledger!NoPosting, Ledger!NotHeld
  <2>3. h = [none EXCEPT !.stage = "posting", !.entry = entry]
    BY <1>1, <2>1
  <2> QED BY <2>2, <2>3 DEF Handler
<1>3. Ledger!Begin(r, h) /\ UNCHANGED <<accounts, lines>> /\ Ledger!Balanced(entry)
  BY <1>1 DEF Ledger!PostStart
<1>4. \A a : Turns(entry, a, 1) = {} /\ Share(entry, a, 1) = 0
  <2>1. \A a : Turns(entry, a, 1) = {}
    BY EntryTyped DEF Turns
  <2> QED BY <2>1, SumOfNothing DEF Share
<1>5. Posting(h) /\ UpToDate(h)
  <2>1. \A a \in Accounts : HeldOK(h, a)
    BY <1>2, <1>4 DEF HeldOK
  <2>2. 1 \in 1..(Len(entry) + 1)
    BY EntryTyped
  <2> QED BY <1>2, <1>3, <2>1, <2>2 DEF Posting, UpToDate
<1> QED BY <1>2, <1>3, <1>5, LedgerBegins

LEMMA LedgerPostLine ==
  ASSUME LedgerInv, NEW r \in Requests, Ledger!PostLine(r)
  PROVE  LedgerInv'
<1>1. PICK h, entry, n, line, a :
        /\ h = posting[r] /\ entry = h.entry /\ n = h.next /\ line = entry[n] /\ a = line.account
  OBVIOUS
<1>2. PICK move, after :
        /\ move = Ledger!Moved(line)
        /\ after = [h.held[a] EXCEPT !.loaded = TRUE,
                                     !.balance = Ledger!Before(h.held[a], a) + move,
                                     !.dirty = h.held[a].dirty \/ move # 0,
                                     !.locked = h.held[a].dirty]
  OBVIOUS
<1>3. PICK g : g = [h EXCEPT !.next = n + 1, !.held = [Ledger!Flushed(h.held) EXCEPT ![a] = after]]
  OBVIOUS
<1>4. /\ h.stage = "posting" /\ n <= Len(entry) /\ accounts[a].open
      /\ posting' = [posting EXCEPT ![r].next = @ + 1,
                                    ![r].held = [Ledger!Flushed(@) EXCEPT ![a] = after]]
      /\ UNCHANGED <<accounts, lines, shared>>
  BY <1>1, <1>2 DEF Ledger!PostLine, Ledger!Current
<1>5. posting' = [posting EXCEPT ![r] = g]
  <2>1. posting \in [Requests -> Handler]
    BY LedgerTyped
  <2> QED BY <1>1, <1>3, <1>4, <2>1 DEF Handler
<1>6. /\ h \in Handler /\ entry \in Entries /\ Ledger!Balanced(entry) /\ n \in 1..(Len(entry) + 1)
      /\ \A b \in Accounts : HeldOK(h, b)
  BY <1>1, <1>4, LedgerTyped DEF LedgerInv, Posting
<1>7. /\ Len(entry) \in Nat /\ DOMAIN entry = 1..Len(entry) /\ n \in DOMAIN entry
      /\ line \in Ledger!LineIn /\ a \in Accounts /\ move \in Int
  <2>1. Len(entry) \in Nat /\ DOMAIN entry = 1..Len(entry) /\ n \in DOMAIN entry
    BY <1>4, <1>6, EntryTyped
  <2>2. line \in Ledger!LineIn
    BY <1>1, <1>6, <2>1, EntryTyped
  <2>3. move = line.debit - line.credit
    BY <1>2 DEF Ledger!Moved
  <2>4. move \in Int /\ line.account \in Accounts
    BY <2>2, <2>3 DEF Ledger!LineIn
  <2> QED BY <1>1, <2>1, <2>2, <2>4
<1>8. /\ h.held \in [Accounts -> Ledger!Held] /\ accounts[a].balance \in Int
      /\ Ledger!Before(h.held[a], a) \in Int
  BY <1>6, <1>7, LedgerTyped DEF Handler, Ledger!Account, Ledger!Before, Ledger!Held
<1>9. /\ after \in Ledger!Held /\ after.loaded
      /\ after.balance = Ledger!Before(h.held[a], a) + move
      /\ after.dirty <=> h.held[a].dirty \/ move # 0
  <2>1. PICK held, before : held = h.held[a] /\ before = Ledger!Before(h.held[a], a)
    OBVIOUS
  <2>2. held \in Ledger!Held /\ before + move \in Int
    BY <1>7, <1>8, <2>1
  <2> QED BY <1>2, <2>1, <2>2 DEF Ledger!Held
<1>10. PICK flushed : flushed = Ledger!Flushed(h.held)
  OBVIOUS
<1>11. /\ flushed \in [Accounts -> Ledger!Held]
       /\ \A b \in Accounts : /\ flushed[b].loaded = h.held[b].loaded
                              /\ flushed[b].balance = h.held[b].balance
                              /\ flushed[b].dirty = h.held[b].dirty
  BY <1>8, <1>10 DEF Ledger!Flushed, Ledger!Held
<1>12. /\ g \in Handler /\ g.stage = "posting" /\ g.entry = entry /\ g.next = n + 1
       /\ g.held[a] = after
       /\ \A b \in Accounts : b # a => g.held[b] = flushed[b]
  <2>1. n + 1 \in Nat
    BY <1>7
  <2>2. g = [h EXCEPT !.next = n + 1, !.held = [flushed EXCEPT ![a] = after]]
    BY <1>3, <1>10
  <2>3. PICK held : held = [flushed EXCEPT ![a] = after]
    OBVIOUS
  <2>4. held \in [Accounts -> Ledger!Held] /\ held[a] = after
        /\ \A b \in Accounts : b # a => held[b] = flushed[b]
    BY <1>7, <1>9, <1>11, <2>3
  <2>5. g = [h EXCEPT !.next = n + 1, !.held = held]
    BY <2>2, <2>3
  <2> QED BY <1>1, <1>4, <1>6, <2>1, <2>4, <2>5 DEF Handler
<1>13. \A b \in Accounts :
         /\ Turns(entry, b, n + 1) = IF a = b THEN Turns(entry, b, n) \cup {n}
                                     ELSE Turns(entry, b, n)
         /\ Share(entry, b, n + 1) = IF a = b THEN Share(entry, b, n) + move
                                     ELSE Share(entry, b, n)
         /\ Share(entry, b, n) \in Int
  <2> SUFFICES ASSUME NEW b \in Accounts
               PROVE  /\ Turns(entry, b, n + 1) = IF a = b THEN Turns(entry, b, n) \cup {n}
                                                   ELSE Turns(entry, b, n)
                      /\ Share(entry, b, n + 1) = IF a = b THEN Share(entry, b, n) + move
                                                   ELSE Share(entry, b, n)
                      /\ Share(entry, b, n) \in Int
    OBVIOUS
  <2>1. entry[n].account = a /\ Ledger!Moved(entry[n]) = move
    BY <1>1, <1>2
  <2>2. /\ Turns(entry, b, n + 1) = IF entry[n].account = b THEN Turns(entry, b, n) \cup {n}
                                     ELSE Turns(entry, b, n)
        /\ Share(entry, b, n + 1) = IF entry[n].account = b
                                     THEN Share(entry, b, n) + Ledger!Moved(entry[n])
                                     ELSE Share(entry, b, n)
    BY <1>6, <1>7, ShareGrows
  <2>3. Share(entry, b, n) \in Int
    BY <1>6, EntryTyped
  <2> QED BY <2>1, <2>2, <2>3
<1>14. HeldOK(g, a)
  <2>1. PICK held, share : held = h.held[a] /\ share = Share(entry, a, n)
    OBVIOUS
  <2>2. /\ held.dirty => held.loaded
        /\ ~held.dirty => share = 0
        /\ ~held.loaded => Turns(entry, a, n) = {}
        /\ held.loaded => \E base \in Int : Whole(a, base) /\ held.balance = base + share
    BY <1>1, <1>6, <1>7, <2>1 DEF HeldOK
  <2>3. share \in Int /\ Share(entry, a, n + 1) = share + move
    BY <1>7, <1>13, <2>1
  <2>4. \E base \in Int : Whole(a, base) /\ Ledger!Before(h.held[a], a) = base + share
    <3>1. CASE held.loaded
      BY <2>1, <2>2, <3>1 DEF Ledger!Before
    <3>2. CASE ~held.loaded
      <4>1. share = 0
        BY <2>2, <3>2
      <4>2. Ledger!Before(h.held[a], a) = accounts[a].balance
        BY <2>1, <3>2 DEF Ledger!Before
      <4> QED BY <1>7, <1>8, <4>1, <4>2 DEF LedgerInv
    <3> QED BY <3>1, <3>2
  <2>5. PICK base \in Int : Whole(a, base) /\ Ledger!Before(h.held[a], a) = base + share
    BY <2>4
  <2>6. after.balance = base + Share(entry, a, n + 1)
    BY <1>7, <1>9, <2>3, <2>5
  <2>7. ~after.dirty => Share(entry, a, n + 1) = 0
    BY <1>7, <1>9, <2>1, <2>2, <2>3
  <2> QED BY <1>4, <1>9, <1>12, <2>5, <2>6, <2>7 DEF HeldOK
<1>15. \A b \in Accounts : b # a =>
         /\ g.held[b].loaded = h.held[b].loaded /\ g.held[b].balance = h.held[b].balance
         /\ g.held[b].dirty = h.held[b].dirty
         /\ Turns(g.entry, b, g.next) = Turns(h.entry, b, h.next)
         /\ Share(g.entry, b, g.next) = Share(h.entry, b, h.next)
  <2> SUFFICES ASSUME NEW b \in Accounts, b # a
               PROVE  /\ g.held[b].loaded = h.held[b].loaded
                      /\ g.held[b].balance = h.held[b].balance
                      /\ g.held[b].dirty = h.held[b].dirty
                      /\ Turns(g.entry, b, g.next) = Turns(h.entry, b, h.next)
                      /\ Share(g.entry, b, g.next) = Share(h.entry, b, h.next)
    OBVIOUS
  <2>1. /\ g.held[b].loaded = h.held[b].loaded /\ g.held[b].balance = h.held[b].balance
        /\ g.held[b].dirty = h.held[b].dirty
    BY <1>11, <1>12
  <2>2. Turns(entry, b, n + 1) = Turns(entry, b, n) /\ Share(entry, b, n + 1) = Share(entry, b, n)
    BY <1>13
  <2> QED BY <1>1, <1>12, <2>1, <2>2
<1>16. \A b \in Accounts : b # a => HeldOK(g, b)
  <2> SUFFICES ASSUME NEW b \in Accounts, b # a PROVE HeldOK(g, b)
    OBVIOUS
  <2>1. HeldOK(h, b)
    BY <1>6
  <2> QED BY <1>15, <2>1 DEF HeldOK
<1>17. Posting(g)
  <2>1. n + 1 \in 1..(Len(entry) + 1)
    BY <1>7
  <2> QED BY <1>6, <1>12, <1>14, <1>16, <2>1 DEF Posting
<1>18. ~shared' => UpToDate(g)
  <2> SUFFICES ASSUME ~shared, NEW b \in Accounts, g.held[b].loaded
               PROVE  g.held[b].balance = accounts[b].balance + Share(g.entry, b, g.next)
    BY <1>4 DEF UpToDate
  <2>1. UpToDate(h)
    BY <1>1 DEF LedgerInv, Books
  <2>2. accounts[b].balance \in Int
    BY LedgerTyped DEF Ledger!Account
  <2>3. CASE b # a
    BY <1>4, <1>15, <2>1, <2>3 DEF UpToDate
  <2>4. CASE b = a
    <3>1. PICK held, share : held = h.held[a] /\ share = Share(entry, a, n)
      OBVIOUS
    <3>2. held.loaded => held.balance = accounts[a].balance + share
      BY <1>1, <1>4, <1>7, <2>1, <3>1 DEF UpToDate
    <3>3. ~held.loaded => share = 0
      BY <1>1, <1>6, <1>7, <3>1 DEF HeldOK
    <3>4. Ledger!Before(h.held[a], a) = accounts[a].balance + share
      BY <1>8, <3>1, <3>2, <3>3 DEF Ledger!Before
    <3>5. share \in Int /\ Share(entry, a, n + 1) = share + move
      BY <1>7, <1>13, <3>1
    <3>6. g.held[b].balance = accounts[a].balance + share + move
      BY <1>9, <1>12, <2>4, <3>4
    <3>7. Share(g.entry, b, g.next) = share + move
      BY <1>12, <2>4, <3>5
    <3>8. accounts[a].balance \in Int /\ move \in Int
      BY <1>7, <2>2, <2>4
    <3>9. accounts[a].balance + share + move = accounts[a].balance + (share + move)
      BY <3>5, <3>8
    <3> QED BY <2>4, <3>6, <3>7, <3>9
  <2> QED BY <2>3, <2>4
<1>19. posting[r].stage \notin Ledger!Idle /\ posting[r].stage # "done" /\ shared \in BOOLEAN
  BY <1>1, <1>4, LedgerTyped DEF Ledger!Idle
<1> QED BY <1>4, <1>5, <1>12, <1>17, <1>18, <1>19, HandlerMoves

(* What the other handlers hold stays a sum of whole entries.                          *)
LEMMA OthersHold ==
  ASSUME LedgerInv, NEW r \in Requests, NEW h \in Handler, h.stage \in {"done", "failed"},
         posting' = [posting EXCEPT ![r] = h],
         \A a \in Accounts : accounts[a].open => accounts'[a].open,
         \A a, b : Whole(a, b) => Whole(a, b)'
  PROVE  \A q \in Requests : Posting(posting[q])'
<1> SUFFICES ASSUME NEW q \in Requests PROVE Posting(posting[q])'
  OBVIOUS
<1>1. PICK g : g = posting'[q]
  OBVIOUS
<1>2. CASE q = r
  <2>1. g.stage # "posting"
    BY <1>1, <1>2, LedgerTyped
  <2> QED BY <1>1, <2>1 DEF Posting
<1>3. CASE q # r
  <2>1. g = posting[q]
    BY <1>1, <1>3, LedgerTyped
  <2>2. Posting(g)
    BY <2>1 DEF LedgerInv
  <2>3. \A a \in Accounts : HeldOK(g, a) => HeldOK(g, a)'
    BY DEF HeldOK
  <2>4. Posting(g)'
    BY <2>2, <2>3 DEF Posting
  <2> QED BY <1>1, <2>4 DEF Posting, HeldOK
<1> QED BY <1>2, <1>3

LEMMA LedgerOpens ==
  ASSUME LedgerInv, NEW r \in Requests, NEW a \in Accounts, posting[r].stage = "opening",
         ~accounts[a].open, accounts' = [accounts EXCEPT ![a].open = TRUE],
         Ledger!Finish(r, "done"), UNCHANGED <<lines, shared>>
  PROVE  LedgerInv'
<1>1. PICK h : h = [Ledger!NoPosting EXCEPT !.stage = "done"]
  OBVIOUS
<1>2. h \in Handler /\ h.stage = "done"
  BY <1>1, NoPostingTyped DEF Ledger!Idle
<1>3. posting' = [posting EXCEPT ![r] = h]
  BY <1>1 DEF Ledger!Finish
<1>4. /\ posting' \in [Requests -> Handler] /\ posting'[r] = h
      /\ \A q \in Requests : q # r => posting'[q] = posting[q]
  BY <1>2, <1>3, LedgerTyped
<1>5. /\ accounts' \in [Accounts -> Ledger!Account] /\ accounts'[a].open
      /\ \A b \in Accounts : accounts'[b].balance = accounts[b].balance
      /\ \A b \in Accounts : b # a => accounts'[b] = accounts[b]
  BY LedgerTyped DEF Ledger!Account
<1>6. Ledger!TypeOK'
  BY <1>4, <1>5 DEF LedgerInv, Ledger!TypeOK, Handler
<1>7. Ledger!Opened' = Ledger!Opened \cup {a} /\ a \notin Ledger!Opened
  BY <1>5 DEF Ledger!Opened
<1>8. IsFiniteSet(Ledger!Opened)'
  BY <1>7, FS_AddElement DEF LedgerInv
<1>9. \A b, c : Whole(b, c) <=> Whole(b, c)'
  BY DEF Whole, LinesOf
<1>10. \A b \in Accounts : Whole(b, accounts[b].balance)'
  <2> SUFFICES ASSUME NEW b \in Accounts PROVE Whole(b, accounts[b].balance)'
    OBVIOUS
  <2>1. PICK c : c = accounts'[b].balance
    OBVIOUS
  <2>2. Whole(b, c)'
    BY <1>5, <1>9, <2>1 DEF LedgerInv
  <2> QED BY <2>1, <2>2 DEF Whole, LinesOf
<1>11. \A b \in Accounts : ~accounts'[b].open => accounts'[b].balance = 0
  BY <1>5 DEF LedgerInv
<1>12. \A q \in Requests : posting'[q].stage # "done" => \A l \in lines' : l.by # q
  BY <1>2, <1>4 DEF LedgerInv
<1>13. \A q \in Requests : Posting(posting[q])'
  <2>1. \A b \in Accounts : accounts[b].open => accounts'[b].open
    BY <1>5
  <2> QED BY <1>2, <1>3, <1>9, <2>1, OthersHold
<1>14. ASSUME ~shared' PROVE Books'
  <2>1. Books
    BY <1>14 DEF LedgerInv
  <2>2. \A p, q \in Requests :
          posting'[p].stage \notin Ledger!Idle /\ posting'[q].stage \notin Ledger!Idle => p = q
    BY <1>2, <1>4, <2>1 DEF Books, Ledger!Idle
  <2>3. \A q \in Requests : UpToDate(posting[q])'
    BY <1>2, <1>4, <1>5, <2>1 DEF Books, UpToDate
  <2>4. \A b \in Accounts :
          Ledger!FollowsFrom(accounts'[b].balance, {l \in lines : l.account = b})
    BY <1>5, <2>1 DEF Books
  <2>5. PICK opened, f, g : /\ opened = Ledger!Opened
                            /\ f = [b \in opened |-> accounts[b].balance]
                            /\ g = [b \in opened \cup {a} |-> accounts'[b].balance]
    OBVIOUS
  <2>6. /\ opened \subseteq Accounts /\ IsFiniteSet(opened) /\ a \notin opened
        /\ 2 * SumFunctionOnSet(f, opened) \in (-Ledger!Doubt(lines))..Ledger!Doubt(lines)
    BY <1>7, <2>1, <2>5 DEF LedgerInv, Books, Ledger!Opened
  <2>7. /\ \A b \in opened \cup {a} : g[b] \in Int
        /\ \A b \in opened : g[b] = f[b]
        /\ g[a] = 0
    BY <1>5, <2>5, <2>6 DEF LedgerInv, Ledger!Account
  <2>8. SumFunctionOnSet(g, opened \cup {a}) = SumFunctionOnSet(g, opened) + g[a]
    BY <2>6, <2>7, SumPutsIn
  <2>9. SumFunctionOnSet(g, opened) = SumFunctionOnSet(f, opened)
    BY <2>6, <2>7, SumOfEqualTerms
  <2>10. SumFunctionOnSet(g, opened \cup {a}) = SumFunctionOnSet(f, opened)
    <3>1. SumFunctionOnSet(g, opened) \in Int
      BY <2>6, <2>7, SumIsInt
    <3> QED BY <2>7, <2>8, <2>9, <3>1
  <2>11. SumFunctionOnSet([b \in Ledger!Opened |-> accounts[b].balance], Ledger!Opened)'
           = SumFunctionOnSet(f, opened)
    BY <1>7, <2>5, <2>10
  <2>12. 2 * SumFunctionOnSet([b \in Ledger!Opened |-> accounts[b].balance], Ledger!Opened)'
           \in (-Ledger!Doubt(lines))..Ledger!Doubt(lines)
    BY <2>6, <2>11
  <2> QED BY <2>2, <2>3, <2>4, <2>12 DEF Books, Ledger!FollowsFrom, Ledger!Sum, Ledger!Doubt
<1>15. InCents(lines)'
  BY DEF LedgerInv, InCents
<1> QED BY <1>6, <1>8, <1>10, <1>11, <1>12, <1>13, <1>14, <1>15 DEF LedgerInv

LEMMA LedgerPostCommit ==
  ASSUME LedgerInv, NEW r \in Requests, Ledger!PostCommit(r)
  PROVE  LedgerInv'
<1>1. PICK h, entry, end, posted :
        /\ h = posting[r] /\ entry = h.entry /\ end = Len(entry) + 1 /\ posted = Ledger!Posted(r)
  OBVIOUS
<1>2. /\ h.stage = "posting" /\ h.next > Len(entry) /\ UNCHANGED shared
      /\ accounts' = [a \in Accounts |->
           IF h.held[a].dirty THEN [accounts[a] EXCEPT !.balance = Ledger!Rounded(h.held[a].balance)]
           ELSE accounts[a]]
      /\ lines' = lines \cup posted /\ Ledger!Finish(r, "done")
  BY <1>1 DEF Ledger!PostCommit
<1>3. /\ h \in Handler /\ entry \in Entries /\ Ledger!Balanced(entry) /\ h.next = end
      /\ \A a \in Accounts : HeldOK(h, a)
  <2>1. /\ h \in Handler /\ entry \in Entries /\ Ledger!Balanced(entry)
        /\ h.next \in 1..(Len(entry) + 1) /\ \A a \in Accounts : HeldOK(h, a)
    BY <1>1, <1>2, LedgerTyped DEF LedgerInv, Posting
  <2>2. Len(entry) \in Nat
    BY <2>1, EntryTyped
  <2> QED BY <1>1, <1>2, <2>1, <2>2
<1>4. /\ posted \subseteq Line /\ InCents(posted) /\ \A l \in posted : l.by = r
      /\ \A a : Ledger!Sum(OnAccount(posted, a)) - Share(entry, a, end)
                  \in (-Ledger!Doubt(OnAccount(posted, a)))..Ledger!Doubt(OnAccount(posted, a))
  <2>1. posted = LinesFrom(r, entry)
    BY <1>1 DEF Ledger!Posted, LinesFrom
  <2>2. ASSUME NEW a
        PROVE  /\ posted \subseteq Line /\ InCents(posted) /\ \A l \in posted : l.by = r
               /\ Ledger!Sum(OnAccount(posted, a)) - Share(entry, a, Len(entry) + 1)
                    \in (-Ledger!Doubt(OnAccount(posted, a)))..Ledger!Doubt(OnAccount(posted, a))
    BY <1>3, <2>1, PostedShare
  <2> QED BY <1>1, <2>2
<1>5. \A l \in lines : l.by # r
  BY <1>1, <1>2 DEF LedgerInv
<1>6. PICK f : f = [Ledger!NoPosting EXCEPT !.stage = "done"]
  OBVIOUS
<1>7. /\ f \in Handler /\ f.stage = "done" /\ posting' = [posting EXCEPT ![r] = f]
  BY <1>2, <1>6, NoPostingTyped DEF Ledger!Idle, Ledger!Finish
<1>8. /\ posting' \in [Requests -> Handler] /\ posting'[r] = f
      /\ \A q \in Requests : q # r => posting'[q] = posting[q]
  BY <1>7, LedgerTyped
<1>9. ASSUME NEW a \in Accounts
      PROVE  /\ accounts'[a] \in Ledger!Account /\ accounts'[a].open = accounts[a].open
             /\ accounts'[a].balance = IF h.held[a].dirty THEN Ledger!Rounded(h.held[a].balance)
                                       ELSE accounts[a].balance
  <2>1. PICK account, balance : account = accounts[a] /\ balance = Ledger!Rounded(h.held[a].balance)
    OBVIOUS
  <2>2. account \in Ledger!Account /\ balance \in Int
    <3>1. h.held[a].balance \in Int
      BY <1>3 DEF Handler, Ledger!Held
    <3> QED BY <2>1, <3>1, LedgerTyped, RoundedIsNear
  <2>3. accounts'[a] = IF h.held[a].dirty THEN [account EXCEPT !.balance = balance] ELSE account
    BY <1>2, <2>1
  <2> QED BY <2>1, <2>2, <2>3 DEF Ledger!Account
<1>10. Ledger!TypeOK'
  <2>1. accounts' \in [Accounts -> Ledger!Account]
    BY <1>2, <1>9
  <2> QED BY <1>2, <1>4, <1>8, <2>1 DEF LedgerInv, Ledger!TypeOK, Handler, Line
<1>11. InCents(lines)'
  BY <1>2, <1>4, FS_Union DEF LedgerInv, InCents
<1>12. Ledger!Opened' = Ledger!Opened
  BY <1>9 DEF Ledger!Opened
<1>13. ASSUME NEW a, NEW some \in SUBSET lines, NEW base \in Multiples(Cent), NEW new \in Int,
              Ledger!FollowsFrom(base, some),
              new - (base + Ledger!Sum(OnAccount(posted, a)))
                \in (-Ledger!Doubt(OnAccount(posted, a)))..Ledger!Doubt(OnAccount(posted, a))
       PROVE  Ledger!FollowsFrom(new, some \cup OnAccount(posted, a))
  <2>1. PICK more : more = OnAccount(posted, a)
    OBVIOUS
  <2>2. InCents(some) /\ InCents(more) /\ some \cap more = {}
    BY <1>4, <1>5, <2>1, LedgerTyped, LinesAmong DEF OnAccount
  <2>3. /\ Ledger!Sum(some \cup more) = Ledger!Sum(some) + Ledger!Sum(more)
        /\ Ledger!Doubt(some \cup more) = Ledger!Doubt(some) + Ledger!Doubt(more)
    BY <2>2, SumOfMoreLines
  <2>4. /\ Ledger!Sum(some) \in Int /\ Ledger!Doubt(some) \in Nat
        /\ Ledger!Sum(more) \in Int /\ Ledger!Doubt(more) \in Nat /\ base \in Int
    BY <2>2, SumOfLines, CentIsSome, MultiplesAdd
  <2>5. base - Ledger!Sum(some) \in (-Ledger!Doubt(some))..Ledger!Doubt(some)
    BY <1>13 DEF Ledger!FollowsFrom
  <2>6. new - (base + Ledger!Sum(more)) \in (-Ledger!Doubt(more))..Ledger!Doubt(more)
    BY <1>13, <2>1
  <2> QED BY <2>1, <2>3, <2>4, <2>5, <2>6 DEF Ledger!FollowsFrom
<1>a. ASSUME NEW a, NEW base \in Multiples(Cent)
      PROVE  /\ Share(entry, a, end) \in Int
             /\ Ledger!Rounded(base + Share(entry, a, end)) \in Multiples(Cent)
             /\ Ledger!Rounded(base + Share(entry, a, end))
                    - (base + Ledger!Sum(OnAccount(posted, a)))
                  \in (-Ledger!Doubt(OnAccount(posted, a)))..Ledger!Doubt(OnAccount(posted, a))
             /\ 2 * (Ledger!Rounded(base + Share(entry, a, end)) - (base + Share(entry, a, end)))
                  \in (-Ledger!Doubt(OnAccount(posted, a)))..Ledger!Doubt(OnAccount(posted, a))
  <2>1. PICK share, stored, doubt : /\ share = Share(entry, a, end)
                                    /\ stored = Ledger!Sum(OnAccount(posted, a))
                                    /\ doubt = Ledger!Doubt(OnAccount(posted, a))
    OBVIOUS
  <2>2. share \in Int /\ base \in Int
    BY <1>3, <2>1, EntryTyped, CentIsSome, MultiplesAdd
  <2>3. stored \in Multiples(Cent) /\ doubt \in Multiples(Cent) /\ doubt >= 0
    <3>1. InCents(OnAccount(posted, a))
      BY <1>4, LinesAmong DEF OnAccount
    <3> QED BY <2>1, <3>1, SumOfLines
  <2>4. stored - share \in (-doubt)..doubt
    BY <1>4, <2>1
  <2>5. /\ Ledger!Rounded(base + share) - (base + stored) \in (-doubt)..doubt
        /\ 2 * (Ledger!Rounded(base + share) - (base + share)) \in (-doubt)..doubt
    BY <2>2, <2>3, <2>4, CommitIsNear
  <2>6. Ledger!Rounded(base + share) \in Multiples(Cent)
    BY <2>2, RoundedIsNear
  <2> QED BY <2>1, <2>2, <2>5, <2>6
<1>14. ASSUME NEW a, NEW b, Whole(a, b)
       PROVE  Whole(a, b)' /\ Whole(a, Ledger!Rounded(b + Share(entry, a, end)))'
  <2>1. PICK kept \in SUBSET Requests : Ledger!FollowsFrom(b, LinesOf(a, kept))
    BY <1>14 DEF Whole
  <2>2. LinesOf(a, kept \ {r})' = LinesOf(a, kept)
    BY <1>2, <1>4, <1>5 DEF LinesOf
  <2>3. LinesOf(a, kept \cup {r})' = LinesOf(a, kept) \cup OnAccount(posted, a)
    BY <1>2, <1>4, <1>5 DEF LinesOf, OnAccount
  <2>4. LinesOf(a, kept) \in SUBSET lines /\ b \in Multiples(Cent)
    BY <1>14 DEF LinesOf, Whole
  <2>5. PICK new \in Multiples(Cent) : new = Ledger!Rounded(b + Share(entry, a, end))
    BY <1>a, <2>4
  <2>6. Ledger!FollowsFrom(new, LinesOf(a, kept) \cup OnAccount(posted, a))
    <3>1. new \in Int
      BY CentIsSome, MultiplesAdd
    <3>2. new - (b + Ledger!Sum(OnAccount(posted, a)))
            \in (-Ledger!Doubt(OnAccount(posted, a)))..Ledger!Doubt(OnAccount(posted, a))
      BY <1>a, <2>4, <2>5
    <3> QED BY <1>13, <2>1, <2>4, <3>1, <3>2
  <2>7. Ledger!FollowsFrom(b, LinesOf(a, kept \ {r})') /\ kept \ {r} \in SUBSET Requests
    BY <2>1, <2>2
  <2>8. Ledger!FollowsFrom(new, LinesOf(a, kept \cup {r})') /\ kept \cup {r} \in SUBSET Requests
    BY <2>3, <2>6
  <2>9. \A c : Ledger!FollowsFrom(c, LinesOf(a, kept \ {r})')
                 <=> Ledger!FollowsFrom(c, LinesOf(a, kept \ {r}))'
    BY DEF Ledger!FollowsFrom, Ledger!Sum, Ledger!Doubt
  <2>10. Whole(a, b)'
    BY <2>2, <2>4, <2>7 DEF Whole
  <2>11. Whole(a, new)'
    BY <2>5, <2>8 DEF Whole
  <2> QED BY <2>5, <2>10, <2>11 DEF Whole, LinesOf
<1>15. \A a \in Accounts : Whole(a, accounts[a].balance)'
  <2> SUFFICES ASSUME NEW a \in Accounts PROVE Whole(a, accounts[a].balance)'
    OBVIOUS
  <2>1. PICK b : b = accounts'[a].balance
    OBVIOUS
  <2>2. Whole(a, b)'
    <3>1. CASE h.held[a].dirty
      <4>1. PICK base \in Int : Whole(a, base) /\ h.held[a].balance = base + Share(entry, a, end)
        BY <1>1, <1>3, <3>1 DEF HeldOK
      <4>2. b = Ledger!Rounded(base + Share(entry, a, end))
        BY <1>9, <2>1, <3>1, <4>1
      <4> QED BY <1>14, <4>1, <4>2
    <3>2. CASE ~h.held[a].dirty
      <4>1. b = accounts[a].balance
        BY <1>9, <2>1, <3>2
      <4> QED BY <1>14, <4>1 DEF LedgerInv
    <3> QED BY <3>1, <3>2
  <2> QED BY <2>1, <2>2 DEF Whole, LinesOf
<1>16. \A a \in Accounts : ~accounts'[a].open => accounts'[a].balance = 0
  BY <1>3, <1>9 DEF LedgerInv, HeldOK
<1>17. \A q \in Requests : posting'[q].stage # "done" => \A l \in lines' : l.by # q
  BY <1>2, <1>4, <1>7, <1>8 DEF LedgerInv
<1>18. \A q \in Requests : Posting(posting[q])'
  <2>1. \A a \in Accounts : accounts[a].open => accounts'[a].open
    BY <1>9
  <2>2. \A a, b : Whole(a, b) => Whole(a, b)'
    BY <1>14
  <2> QED BY <1>7, <2>1, <2>2, OthersHold
<1>19. ASSUME ~shared' PROVE Books'
  <2>1. Books /\ UpToDate(h)
    BY <1>1, <1>2, <1>19 DEF LedgerInv, Books
  <2>2. \A q \in Requests : posting'[q].stage \in Ledger!Idle
    BY <1>1, <1>2, <1>7, <1>8, <2>1 DEF Books, Ledger!Idle
  <2>3. "posting" \notin Ledger!Idle
    BY DEF Ledger!Idle
  <2>4. ASSUME NEW a \in Accounts
        PROVE  /\ accounts[a].balance \in Multiples(Cent) /\ accounts[a].balance \in Int
               /\ Share(entry, a, end) \in Int /\ accounts'[a].balance \in Int
               /\ accounts'[a].balance - (accounts[a].balance + Ledger!Sum(OnAccount(posted, a)))
                    \in (-Ledger!Doubt(OnAccount(posted, a)))..Ledger!Doubt(OnAccount(posted, a))
               /\ 2 * (accounts'[a].balance - (accounts[a].balance + Share(entry, a, end)))
                    \in (-Ledger!Doubt(OnAccount(posted, a)))..Ledger!Doubt(OnAccount(posted, a))
    <3>1. PICK base, share : base = accounts[a].balance /\ share = Share(entry, a, end)
      OBVIOUS
    <3>2. base \in Multiples(Cent) /\ base \in Int /\ share \in Int
      BY <1>3, <3>1, EntryTyped, LedgerTyped DEF Ledger!Account, LedgerInv, Whole
    <3>3. accounts'[a].balance = Ledger!Rounded(base + share)
      <4>1. CASE h.held[a].dirty
        <5>1. h.held[a].loaded
          BY <1>3, <4>1 DEF HeldOK
        <5>2. h.held[a].balance = base + share
          BY <1>1, <1>2, <1>3, <2>1, <3>1, <5>1 DEF UpToDate
        <5> QED BY <1>9, <4>1, <5>2
      <4>2. CASE ~h.held[a].dirty
        <5>1. share = 0
          BY <1>1, <1>3, <3>1, <4>2 DEF HeldOK
        <5>2. Ledger!Rounded(base + share) = base
          BY <3>2, <5>1, RoundedIsNear
        <5> QED BY <1>9, <3>1, <4>2, <5>2
      <4> QED BY <4>1, <4>2
    <3>4. Ledger!Rounded(base + share) \in Int
      BY <3>2, RoundedIsNear
    <3> QED BY <1>a, <3>1, <3>2, <3>3, <3>4
  <2>5. \A a \in Accounts :
          Ledger!FollowsFrom(accounts'[a].balance, {l \in lines' : l.account = a})
    <3> SUFFICES ASSUME NEW a \in Accounts
                 PROVE  Ledger!FollowsFrom(accounts'[a].balance, {l \in lines' : l.account = a})
      OBVIOUS
    <3>1. PICK some : some = {l \in lines : l.account = a}
      OBVIOUS
    <3>2. {l \in lines' : l.account = a} = some \cup OnAccount(posted, a)
      BY <1>2, <3>1 DEF OnAccount
    <3>3. some \in SUBSET lines
      BY <3>1
    <3>4. Ledger!FollowsFrom(accounts[a].balance, some)
      BY <2>1, <3>1 DEF Books
    <3> QED BY <1>13, <2>4, <3>2, <3>3, <3>4
  <2>6. PICK opened, before, shares, exact, off, doubts, now :
          /\ opened = Ledger!Opened
          /\ before = [a \in opened |-> accounts[a].balance]
          /\ shares = [a \in opened |-> Share(entry, a, end)]
          /\ exact = [a \in opened |-> accounts[a].balance + Share(entry, a, end)]
          /\ off = [a \in opened |->
                      accounts'[a].balance - (accounts[a].balance + Share(entry, a, end))]
          /\ doubts = [a \in opened |-> Ledger!Doubt(OnAccount(posted, a))]
          /\ now = [a \in opened |-> accounts'[a].balance]
    OBVIOUS
  <2>7. opened \subseteq Accounts /\ IsFiniteSet(opened)
    BY <2>6 DEF LedgerInv, Ledger!Opened
  <2>8. ASSUME NEW a \in opened
        PROVE  /\ before[a] \in Int /\ shares[a] \in Int /\ exact[a] \in Int /\ off[a] \in Int
               /\ now[a] = exact[a] + off[a] /\ exact[a] = before[a] + shares[a]
               /\ doubts[a] \in Int /\ 2 * off[a] \in (-doubts[a])..doubts[a]
    <3>1. a \in Accounts
      BY <2>7
    <3>2. Ledger!Doubt(OnAccount(posted, a)) \in Nat
      <4>1. InCents(OnAccount(posted, a))
        BY <1>4, LinesAmong DEF OnAccount
      <4> QED BY <4>1, SumOfLines
    <3> QED BY <2>4, <2>6, <3>1, <3>2
  <2>9. /\ SumFunctionOnSet(now, opened)
             = SumFunctionOnSet(exact, opened) + SumFunctionOnSet(off, opened)
        /\ SumFunctionOnSet(exact, opened)
             = SumFunctionOnSet(before, opened) + SumFunctionOnSet(shares, opened)
        /\ SumFunctionOnSet(before, opened) \in Int /\ SumFunctionOnSet(off, opened) \in Int
    <3>1. SumFunctionOnSet(now, opened)
             = SumFunctionOnSet(exact, opened) + SumFunctionOnSet(off, opened)
      BY <2>7, <2>8, SumOfSums
    <3>2. SumFunctionOnSet(exact, opened)
             = SumFunctionOnSet(before, opened) + SumFunctionOnSet(shares, opened)
      BY <2>7, <2>8, SumOfSums
    <3>3. SumFunctionOnSet(before, opened) \in Int /\ SumFunctionOnSet(off, opened) \in Int
      BY <2>7, <2>8, SumIsInt
    <3> QED BY <3>1, <3>2, <3>3
  <2>a. \A i \in DOMAIN entry : entry[i].account \in opened
    <3> SUFFICES ASSUME NEW i \in DOMAIN entry PROVE entry[i].account \in opened
      OBVIOUS
    <3>1. PICK a : a = entry[i].account
      OBVIOUS
    <3>2. a \in Accounts
      BY <1>3, <3>1, EntryTyped DEF Ledger!LineIn
    <3>3. i \in Turns(entry, a, end)
      BY <1>1, <1>3, <3>1, EntryTyped DEF Turns
    <3>4. h.held[a].loaded
      BY <1>1, <1>3, <3>2, <3>3 DEF HeldOK
    <3>5. accounts[a].open
      BY <1>3, <3>2, <3>4 DEF HeldOK
    <3> QED BY <2>6, <3>1, <3>2, <3>5 DEF Ledger!Opened
  <2>b. \A l \in posted : l.account \in opened
    BY <1>1, <2>a DEF Ledger!Posted
  <2>10. SumFunctionOnSet(shares, opened) = 0
    <3>1. PICK names, group, moves : /\ names = DOMAIN entry /\ moves = Moves(entry)
                                     /\ group = [i \in names |-> entry[i].account]
      OBVIOUS
    <3>2. /\ IsFiniteSet(names) /\ names = 1..Len(entry) /\ Len(entry) \in Nat
          /\ \A i \in names : moves[i] \in Int /\ entry[i] \in Ledger!LineIn
      BY <1>3, <3>1, EntryTyped
    <3>3. \A i \in names : group[i] \in opened
      BY <2>a, <3>1
    <3>4. \A a : {i \in names : group[i] = a} = Turns(entry, a, end)
      BY <1>1, <3>1, <3>2 DEF Turns
    <3>5. SumsGroups(shares, moves, names, group, opened)
      BY <2>6, <3>1, <3>3, <3>4 DEF Share, SumsGroups
    <3>6. SumFunctionOnSet(shares, opened) = SumFunctionOnSet(moves, names)
      BY <2>7, <3>2, <3>5, SumByGroups
    <3>7. SumFunctionOnSet(moves, names) = 0
      BY <1>3, <3>1, BalancedMovesNothing
    <3> QED BY <3>6, <3>7
  <2>11. /\ SumFunctionOnSet(doubts, opened) = Ledger!Doubt(posted)
         /\ 2 * SumFunctionOnSet(off, opened) \in (-Ledger!Doubt(posted))..Ledger!Doubt(posted)
    <3>1. \A l \in posted : l.account \in opened
      BY <1>4, <2>b
    <3>2. SumFunctionOnSet(doubts, opened) = Ledger!Doubt(posted)
      BY <1>4, <2>6, <2>7, <3>1, DoubtByAccount
    <3>3. PICK twice : twice = [a \in opened |-> off[a] + off[a]]
      OBVIOUS
    <3>4. \A a \in opened : /\ twice[a] \in Int /\ off[a] \in Int /\ doubts[a] \in Int
                             /\ twice[a] = off[a] + off[a] /\ twice[a] \in (-doubts[a])..doubts[a]
      <4> SUFFICES ASSUME NEW a \in opened
                   PROVE  /\ twice[a] \in Int /\ off[a] \in Int /\ doubts[a] \in Int
                          /\ twice[a] = off[a] + off[a] /\ twice[a] \in (-doubts[a])..doubts[a]
        OBVIOUS
      <4>1. twice[a] = off[a] + off[a] /\ off[a] \in Int
        BY <2>8, <3>3
      <4>2. twice[a] = 2 * off[a]
        BY <4>1
      <4> QED BY <2>8, <4>1, <4>2
    <3>5. SumFunctionOnSet(twice, opened) = SumFunctionOnSet(off, opened) + SumFunctionOnSet(off, opened)
      BY <2>7, <3>4, SumOfSums
    <3>6. SumFunctionOnSet(twice, opened)
            \in (-SumFunctionOnSet(doubts, opened))..SumFunctionOnSet(doubts, opened)
      BY <2>7, <3>4, SumWithin
    <3>7. SumFunctionOnSet(twice, opened) = 2 * SumFunctionOnSet(off, opened)
      BY <2>9, <3>5
    <3> QED BY <3>2, <3>6, <3>7
  <2>12. Ledger!Doubt(lines') = Ledger!Doubt(lines) + Ledger!Doubt(posted)
         /\ Ledger!Doubt(lines) \in Nat /\ Ledger!Doubt(posted) \in Nat
    <3>1. lines \cap posted = {}
      BY <1>4, <1>5
    <3> QED BY <1>2, <1>4, <3>1, LedgerTyped, SumOfLines, SumOfMoreLines
  <2>13. 2 * SumFunctionOnSet(before, opened) \in (-Ledger!Doubt(lines))..Ledger!Doubt(lines)
    BY <2>1, <2>6 DEF Books
  <2>14. 2 * SumFunctionOnSet(now, opened) \in (-Ledger!Doubt(lines'))..Ledger!Doubt(lines')
    <3>1. PICK b, o, d, e : /\ b = SumFunctionOnSet(before, opened)
                            /\ o = SumFunctionOnSet(off, opened)
                            /\ d = Ledger!Doubt(lines) /\ e = Ledger!Doubt(posted)
      OBVIOUS
    <3>2. SumFunctionOnSet(now, opened) = b + o
      BY <2>9, <2>10, <3>1
    <3>3. /\ b \in Int /\ o \in Int /\ d \in Nat /\ e \in Nat
          /\ 2 * b \in (-d)..d /\ 2 * o \in (-e)..e
      BY <2>9, <2>11, <2>12, <2>13, <3>1
    <3>4. 2 * (b + o) \in (-(d + e))..(d + e)
      BY <3>3
    <3> QED BY <2>12, <3>1, <3>2, <3>4
  <2>15. 2 * SumFunctionOnSet([a \in Ledger!Opened |-> accounts[a].balance], Ledger!Opened)'
           \in (-Ledger!Doubt(lines'))..Ledger!Doubt(lines')
    BY <1>12, <2>6, <2>14
  <2> QED BY <2>2, <2>3, <2>5, <2>15
          DEF Books, UpToDate, Ledger!FollowsFrom, Ledger!Sum, Ledger!Doubt
<1> QED BY <1>10, <1>11, <1>12, <1>15, <1>16, <1>17, <1>18, <1>19 DEF LedgerInv

LEMMA LedgerStep ==
  ASSUME LedgerInv, \/ Ledger!Next
                    \/ UNCHANGED ledgerVars /\ shared' \in BOOLEAN /\ (shared => shared')
  PROVE  LedgerInv'
<1>1. ASSUME UNCHANGED ledgerVars, shared' \in BOOLEAN, shared => shared'
      PROVE  LedgerInv'
  <2>1. UNCHANGED <<accounts, lines, posting>>
    BY <1>1 DEF ledgerVars
  <2>2. Ledger!TypeOK'
    BY <1>1, <2>1 DEF LedgerInv, Ledger!TypeOK
  <2>3. Ledger!Opened' = Ledger!Opened
    BY <2>1 DEF Ledger!Opened
  <2>4. \A a, b : Whole(a, b)' <=> Whole(a, b)
    BY <2>1 DEF Whole, LinesOf
  <2>5. \A a \in Accounts : Whole(a, accounts[a].balance)'
    BY <2>1 DEF LedgerInv, Whole, LinesOf
  <2>6. \A r \in Requests : Posting(posting[r])'
    BY ZenonT(60), <2>1 DEF LedgerInv, Posting, HeldOK, Whole, LinesOf
  <2>7. Books => Books'
    BY <2>1, <2>3 DEF Books, UpToDate
  <2> QED BY <1>1, <2>1, <2>2, <2>3, <2>5, <2>6, <2>7 DEF LedgerInv
<1>2. ASSUME NEW r \in Requests, Ledger!OpenCommit(r) PROVE LedgerInv'
  <2>1. PICK a \in Accounts :
          /\ posting[r].stage = "opening" /\ UNCHANGED <<lines, shared>>
          /\ \/ Ledger!Finish(r, "failed") /\ UNCHANGED accounts
             \/ /\ ~accounts[a].open /\ accounts' = [accounts EXCEPT ![a].open = TRUE]
                /\ Ledger!Finish(r, "done")
    BY <1>2 DEF Ledger!OpenCommit
  <2>2. CASE Ledger!Finish(r, "failed") /\ UNCHANGED accounts
    BY <2>1, <2>2, LedgerEnds
  <2>3. CASE /\ ~accounts[a].open /\ accounts' = [accounts EXCEPT ![a].open = TRUE]
             /\ Ledger!Finish(r, "done")
    BY <2>1, <2>3, LedgerOpens
  <2> QED BY <2>1, <2>2, <2>3
<1>3. ASSUME NEW r \in Requests, Ledger!PostUnknownAccount(r) PROVE LedgerInv'
  BY <1>3, LedgerEnds DEF Ledger!PostUnknownAccount
<1>4. ASSUME NEW r \in Requests, Ledger!Fail(r) PROVE LedgerInv'
  BY <1>4, LedgerEnds DEF Ledger!Fail, Ledger!Idle
<1> QED BY <1>1, <1>2, <1>3, <1>4, LedgerOpenCheck, LedgerPostStart, LedgerPostLine,
           LedgerPostCommit DEF Ledger!Next

-----------------------------------------------------------------------------
(* The services together.  No service sees another's rows; what they have in common  *)
(* is only the history variable that says whether handlers have overlapped, and each   *)
(* of them only ever sets it.                                                           *)

BackOfficeInv == LedgerInv /\ TaxInv /\ PayrollInv

LEMMA SharedStaysSet ==
  ASSUME BackOfficeInv, Ledger!Next \/ TaxService!Next \/ Payroll!Next
  PROVE  shared' \in BOOLEAN /\ (shared => shared')
<1>1. shared \in BOOLEAN
  BY LedgerTyped DEF BackOfficeInv
<1>2. ASSUME NEW r, NEW h, Ledger!Begin(r, h) PROVE shared' \in BOOLEAN /\ (shared => shared')
  BY <1>1, <1>2, Zenon DEF Ledger!Begin
<1>3. ASSUME NEW r, NEW s, NEW rows, TaxService!Begin(r, s, rows)
      PROVE  shared' \in BOOLEAN /\ (shared => shared')
  BY <1>1, <1>3, Zenon DEF TaxService!Begin
<1>4. ASSUME NEW r, NEW task, Payroll!Begin(r, task)
      PROVE  shared' \in BOOLEAN /\ (shared => shared')
  BY <1>1, <1>4, Zenon DEF Payroll!Begin
<1>5. CASE Ledger!Next
  <2>1. ASSUME NEW r \in Requests, NEW a \in Accounts, Ledger!OpenCheck(r, a)
        PROVE  shared' \in BOOLEAN /\ (shared => shared')
    BY <1>2, <2>1 DEF Ledger!OpenCheck
  <2>2. ASSUME NEW r \in Requests, NEW entry \in Entries, Ledger!PostStart(r, entry)
        PROVE  shared' \in BOOLEAN /\ (shared => shared')
    BY <1>2, <2>2 DEF Ledger!PostStart
  <2>3. ASSUME NEW r \in Requests,
               \/ Ledger!OpenCommit(r) \/ Ledger!PostLine(r) \/ Ledger!PostUnknownAccount(r)
               \/ Ledger!PostCommit(r) \/ Ledger!Fail(r)
        PROVE  shared' = shared
    BY <2>3 DEF Ledger!OpenCommit, Ledger!PostLine, Ledger!PostUnknownAccount, Ledger!PostCommit,
                Ledger!Fail
  <2> QED BY <1>1, <1>5, <2>1, <2>2, <2>3 DEF Ledger!Next
<1>6. CASE TaxService!Next
  <2>1. ASSUME NEW r \in Requests, NEW j \in Jurisdictions, NEW basket \in Baskets,
               TaxService!CalculateStart(r, j, basket)
        PROVE  shared' \in BOOLEAN /\ (shared => shared')
    BY <1>3, <2>1 DEF TaxService!CalculateStart
  <2>2. ASSUME NEW r \in Requests, NEW j \in Jurisdictions, NEW first \in 1..Days,
               NEW last \in 1..Days, TaxService!RemitSelect(r, j, first, last)
        PROVE  shared' \in BOOLEAN /\ (shared => shared')
    BY <1>3, <2>2 DEF TaxService!RemitSelect
  <2>3. ASSUME NEW r \in Requests,
               \/ TaxService!CalculateCommit(r) \/ TaxService!RemitCommit(r) \/ TaxService!Fail(r)
        PROVE  shared' = shared
    BY <2>3 DEF TaxService!CalculateCommit, TaxService!RemitCommit, TaxService!Fail
  <2>4. TaxService!NewDay => shared' = shared
    BY DEF TaxService!NewDay
  <2> QED BY <1>1, <1>6, <2>1, <2>2, <2>3, <2>4 DEF TaxService!Next
<1>7. CASE Payroll!Next
  <2>1. ASSUME NEW r \in Requests, NEW d \in Departments, NEW spelling,
               Payroll!DepartmentCheck(r, d, spelling)
        PROVE  shared' \in BOOLEAN /\ (shared => shared')
    BY <1>4, <2>1 DEF Payroll!DepartmentCheck
  <2>2. ASSUME NEW r \in Requests, NEW e \in Employees, NEW spelling, NEW contract,
               NEW d, Payroll!HireCheck(r, e, spelling, contract, d)
        PROVE  shared' \in BOOLEAN /\ (shared => shared')
    BY <1>4, <2>2 DEF Payroll!HireCheck
  <2>3. ASSUME NEW r \in Requests, NEW period \in Periods, Payroll!RunStart(r, period)
        PROVE  shared' \in BOOLEAN /\ (shared => shared')
    BY <1>4, <2>3 DEF Payroll!RunStart
  <2>4. ASSUME NEW r \in Requests,
               Payroll!DepartmentCommit(r) \/ Payroll!HireCommit(r) \/ Payroll!RunCommit(r)
               \/ Payroll!Fail(r)
        PROVE  shared' = shared
    BY <2>4 DEF Payroll!DepartmentCommit, Payroll!HireCommit, Payroll!RunCommit, Payroll!Fail
  <2> QED BY <1>1, <1>7, <2>1, <2>2, <2>3, <2>4 DEF Payroll!Next
<1> QED BY <1>5, <1>6, <1>7

LEMMA BackOfficeStep == BackOfficeInv /\ [BackOfficeNext]_backOfficeVars => BackOfficeInv'
<1> SUFFICES ASSUME BackOfficeInv, [BackOfficeNext]_backOfficeVars PROVE BackOfficeInv'
  OBVIOUS
<1>1. LedgerInv /\ TaxInv /\ PayrollInv /\ shared \in BOOLEAN
  BY LedgerTyped DEF BackOfficeInv
<1>2. CASE /\ UNCHANGED <<ledgerVars, taxVars, payrollVars>> /\ shared' = shared
  BY <1>1, <1>2, LedgerStep, TaxStep, PayrollStep DEF BackOfficeInv
<1>3. CASE Ledger!Next /\ UNCHANGED <<taxVars, payrollVars>>
  <2>1. shared' \in BOOLEAN /\ (shared => shared')
    BY <1>3, SharedStaysSet
  <2> QED BY <1>1, <1>3, <2>1, LedgerStep, TaxStep, PayrollStep DEF BackOfficeInv
<1>4. CASE TaxService!Next /\ UNCHANGED <<ledgerVars, payrollVars>>
  <2>1. shared' \in BOOLEAN /\ (shared => shared')
    BY <1>4, SharedStaysSet
  <2> QED BY <1>1, <1>4, <2>1, LedgerStep, TaxStep, PayrollStep DEF BackOfficeInv
<1>5. CASE Payroll!Next /\ UNCHANGED <<ledgerVars, taxVars>>
  <2>1. shared' \in BOOLEAN /\ (shared => shared')
    BY <1>5, SharedStaysSet
  <2> QED BY <1>1, <1>5, <2>1, LedgerStep, TaxStep, PayrollStep DEF BackOfficeInv
<1>6. \/ UNCHANGED <<ledgerVars, taxVars, payrollVars>> /\ shared' = shared
      \/ Ledger!Next /\ UNCHANGED <<taxVars, payrollVars>>
      \/ TaxService!Next /\ UNCHANGED <<ledgerVars, payrollVars>>
      \/ Payroll!Next /\ UNCHANGED <<ledgerVars, taxVars>>
  BY DEF BackOfficeNext, backOfficeVars
<1> QED BY <1>2, <1>3, <1>4, <1>5, <1>6

LEMMA BackOfficeInvariant == BackOfficeSpec => []BackOfficeInv
<1>1. BackOfficeInit => BackOfficeInv
  BY LedgerInit, TaxInit, PayrollInit DEF BackOfficeInit, BackOfficeInv
<1> QED BY <1>1, BackOfficeStep, PTL DEF BackOfficeSpec

(* The payments service beside the others: what is proved of it alone holds here.      *)
THEOREM AuthorizationKept == BackOfficeSpec => [](WithinAuthorization /\ MoneyAccounted)
<1>1. BackOfficeInit => Init
  BY DEF BackOfficeInit
<1>2. [BackOfficeNext]_backOfficeVars => [Next]_vars
  BY DEF BackOfficeNext, backOfficeVars, paymentsVars, vars
<1>3. BackOfficeSpec => Spec
  BY <1>1, <1>2, PTL DEF BackOfficeSpec, Spec
<1> QED BY <1>3, NeverBeyondAuthorization, AccountedWithoutOverlap, PTL

(* However create_journal_entry overlaps itself and dies, a balance is the sum of      *)
(* whole entries; until two handlers overlap it is the sum of all of them, and the      *)
(* books balance: exactly for amounts in whole cents, and otherwise to a cent, or for    *)
(* the books to half a cent, for each line that was rounded.                             *)
THEOREM LedgerStaysSound == BackOfficeSpec => []LedgerIsSound
<1>1. ASSUME LedgerInv PROVE LedgerIsSound
  <2>1. Ledger!BalancesAreWholeEntries
    BY <1>1 DEF LedgerInv, Whole, LinesOf, Ledger!BalancesAreWholeEntries
  <2>2. Ledger!BooksBalance
    BY <1>1, LedgerSum DEF LedgerInv, Books, Ledger!BooksBalance, Ledger!AllBalances
  <2> QED BY <1>1, <2>1, <2>2 DEF LedgerIsSound, LedgerInv
<1> QED BY <1>1, BackOfficeInvariant, PTL DEF BackOfficeInv

(* However remit_tax overlaps itself and dies, an entry is marked exactly if it was     *)
(* reported; until two handlers overlap no tax is remitted twice.                        *)
THEOREM RemittancesStaySound == BackOfficeSpec => []RemittancesAreSound
<1>1. ASSUME TaxInv PROVE RemittancesAreSound
  <2>1. ASSUME ~shared PROVE TaxService!RemittedOnce
    <3>1. OneFiling
      BY <1>1, <2>1 DEF TaxInv
    <3>2. ASSUME NEW e \in collected PROVE TaxService!Cardinality(TaxService!Reporters(e)) <= 1
      <4>1. PICK reporters : reporters = TaxService!Reporters(e)
        OBVIOUS
      <4>2. reporters = {} \/ \E r : reporters = {r}
        BY <3>1, <3>2, <4>1 DEF OneFiling
      <4>3. Cardinality(reporters) \in {0, 1}
        BY <4>2, FS_EmptySet, FS_Singleton
      <4> QED BY <4>1, <4>3, TaxCardinality
    <3> QED BY <3>1, <3>2 DEF OneFiling, TaxService!RemittedOnce
  <2>2. shared => TaxService!RemittedOnce
    BY DEF TaxService!RemittedOnce
  <2> QED BY <1>1, <2>1, <2>2 DEF RemittancesAreSound, TaxInv
<1> QED BY <1>1, BackOfficeInvariant, PTL DEF BackOfficeInv

(* However run_payroll and create_employee overlap and die, every cent of a run is      *)
(* accounted for, and every stub is somebody's pay to the nearest cent.                  *)
THEOREM PayrollStaysExact == BackOfficeSpec => []PayrollAddsUp
<1>1. ASSUME PayrollInv PROVE PayrollAddsUp
  <2>1. Payroll!PayrollAddsUp
    BY <1>1 DEF PayrollInv, StubIsRight, Payroll!PayrollAddsUp
  <2> QED BY <1>1, <2>1 DEF PayrollAddsUp, PayrollInv
<1> QED BY <1>1, BackOfficeInvariant, PTL DEF BackOfficeInv

-----------------------------------------------------------------------------
(* Customers: what a handler knows of the rows stays so although rows change beside it, and    *)
(* what it saw of defaults and tags is still so while no other handler runs.                     *)

Service ==
    [stage : Customers!Stage, person : People \cup {Nobody}, row : Requests \cup {Nobody},
     kind : Customers!Kinds, default : BOOLEAN, seen : Customers!TicketStatus \cup {"none"},
     target : Customers!TicketStatus \cup {"none"}, clear : SUBSET Requests,
     given : SUBSET Customers!Tags, turned : SUBSET Customers!Tags]

Ticket == [owner : People \cup {Nobody}, status : Customers!TicketStatus, dated : BOOLEAN]

(* Customers are not removed, and a ticket stays with its owner.               *)
ServiceKnows(h) ==
    /\ h.stage \notin Customers!Idle => h.person \in People
    /\ h.stage \notin Customers!Idle \cup {"registering"} => h.person \in registered
    /\ h.stage \in {"storing", "writing", "patching"} => h.row \in Requests
    /\ h.stage = "writing" => tickets[h.row].owner # Nobody
    /\ h.stage = "patching" => h.target \in Customers!TicketStatus

OwnersKnown ==
    /\ \A c \in cards : c.owner \in registered
    /\ \A t \in Requests : tickets[t].owner # Nobody => tickets[t].owner \in registered
    /\ \A r \in Requests : serving[r].stage = "opened" => tickets[r].owner # Nobody

(* What a handler that runs alone has seen.                                    *)
AloneKnows(h) ==
    /\ h.stage = "storing" /\ h.default => h.clear = Customers!Defaults(h.person, h.kind)
    /\ h.stage = "tagging" =>
           h.turned = IF h.default THEN h.given \ tags[h.person]
                                   ELSE h.given \cap tags[h.person]

AloneIsAlone ==
    \A q, r \in Requests :
        alone[r] /\ Customers!InFlight(r) /\ Customers!InFlight(q) => q = r

CustomersInv ==
    /\ Customers!TypeOK /\ Customers!DocumentsFollowRows /\ Customers!EndedIsDated
    /\ OwnersKnown /\ AloneIsAlone
    /\ \A r \in Requests : ServiceKnows(serving[r])
    /\ \A r \in Requests : alone[r] => AloneKnows(serving[r])

LEMMA CustomerTypes ==
  Customers!TypeOK <=>
    /\ registered \subseteq People /\ tags \in [People -> SUBSET Customers!Tags]
    /\ preferences \in [People -> {"none", "default", "chosen"}]
    /\ cards \subseteq Customers!Card /\ tickets \in [Requests -> Ticket]
    /\ messages \subseteq Requests \X Requests /\ activity \subseteq Requests \X People
    /\ serving \in [Requests -> Service] /\ alone \in [Requests -> BOOLEAN]
BY DEF Customers!TypeOK, Ticket, Service

LEMMA NobodyServed ==
  /\ Nobody \notin People /\ Nobody \notin Requests
  /\ Customers!NoService \in Service /\ Customers!NoService.stage = "new"
  /\ Customers!NoTicket \in Ticket /\ Customers!NoTicket.owner = Nobody
  /\ Customers!NoTicket.status = "open"
BY BackOfficeAssumption DEF Customers!CustomersAssumption, Service, Customers!NoService,
   Customers!Stage, Customers!Idle, Customers!Kinds, Ticket, Customers!NoTicket,
   Customers!TicketStatus

LEMMA CustomersStart == Customers!Init => CustomersInv
<1> SUFFICES ASSUME Customers!Init PROVE CustomersInv
  OBVIOUS
<1>1. /\ registered \in SUBSET People /\ cards = {} /\ messages = {} /\ activity = {}
      /\ tags = [p \in People |-> {}]
      /\ preferences = [p \in People |-> IF p \in registered THEN "default" ELSE "none"]
      /\ tickets = [r \in Requests |-> Customers!NoTicket]
      /\ serving = [r \in Requests |-> Customers!NoService]
      /\ alone = [r \in Requests |-> TRUE]
  BY DEF Customers!Init
<1>2. /\ \A r \in Requests : serving[r] \in Service /\ serving[r].stage = "new"
      /\ \A t \in Requests : tickets[t] \in Ticket /\ tickets[t].owner = Nobody
                             /\ tickets[t].status = "open"
      /\ \A r \in Requests : ~Customers!InFlight(r)
  BY <1>1, NobodyServed DEF Customers!InFlight, Customers!Idle
<1>3. Customers!TypeOK
  BY <1>1, <1>2, CustomerTypes
<1>4. Customers!DocumentsFollowRows
  BY <1>1, <1>2 DEF Customers!DocumentsFollowRows
<1>5. Customers!EndedIsDated
  BY <1>2 DEF Customers!EndedIsDated, Customers!Ended
<1>6. OwnersKnown /\ AloneIsAlone
  BY <1>1, <1>2 DEF OwnersKnown, AloneIsAlone
<1>7. \A r \in Requests : ServiceKnows(serving[r]) /\ AloneKnows(serving[r])
  BY <1>2 DEF ServiceKnows, AloneKnows, Customers!Idle
<1> QED BY <1>3, <1>4, <1>5, <1>6, <1>7 DEF CustomersInv

(* The data on which nothing has been written.                                 *)
customerData == <<registered, tags, preferences, cards, tickets, messages, activity>>

LEMMA CustomerBegins ==
  ASSUME CustomersInv, NEW r \in Requests, NEW h \in Service, Customers!Begin(r, h),
         UNCHANGED customerData, ServiceKnows(h), AloneKnows(h),
         h.stage \in {"registering", "tagging", "preferring", "storing", "deleting", "opening",
                      "patching", "writing", "logging"}
  PROVE  CustomersInv'
<1>1. /\ serving[r].stage = "new" /\ serving' = [serving EXCEPT ![r] = h]
      /\ alone' = [q \in Requests |-> IF q = r THEN ~\E p \in Requests : Customers!InFlight(p)
                                      ELSE alone[q] /\ ~Customers!InFlight(q)]
  BY DEF Customers!Begin
<1>2. UNCHANGED <<registered, tags, preferences, cards, tickets, messages, activity>>
  BY DEF customerData
<1>t. /\ serving \in [Requests -> Service] /\ alone \in [Requests -> BOOLEAN]
  BY CustomerTypes DEF CustomersInv
<1>3. serving'[r] = h /\ \A q \in Requests : q # r => serving'[q] = serving[q]
  BY <1>1, <1>t
<1>4. Customers!TypeOK'
  <2>1. serving' \in [Requests -> Service]
    BY <1>1, <1>t
  <2>2. alone' \in [Requests -> BOOLEAN]
    BY <1>1
  <2> QED BY <1>2, <2>1, <2>2, CustomerTypes DEF CustomersInv, Customers!TypeOK, Service
<1>5. Customers!DocumentsFollowRows'
  <2>1. Customers!DocumentsFollowRows
    BY DEF CustomersInv
  <2>2. \A q \in Requests : \A stage \in {"registered", "failed", "opened", "logging"} :
            serving[q].stage = stage => serving'[q] = serving[q]
    BY <1>1, <1>3
  <2> QED BY <1>2, <2>1, <2>2 DEF Customers!DocumentsFollowRows
<1>6. Customers!EndedIsDated'
  BY <1>2 DEF CustomersInv, Customers!EndedIsDated
<1>7. OwnersKnown'
  BY <1>2, <1>3 DEF CustomersInv, OwnersKnown
<1>8. \A q \in Requests : ServiceKnows(serving[q])'
  BY <1>2, <1>3 DEF CustomersInv, ServiceKnows
<1>9. AloneIsAlone'
  <2> SUFFICES ASSUME NEW p \in Requests, NEW q \in Requests, alone'[q],
                      Customers!InFlight(q)', Customers!InFlight(p)', p # q
               PROVE  FALSE
    BY DEF AloneIsAlone
  <2>1. q # r => alone[q] /\ ~Customers!InFlight(q)
    BY <1>1
  <2>2. q # r => Customers!InFlight(q)
    BY <1>3 DEF Customers!InFlight
  <2>3. q = r /\ Customers!InFlight(p)
    BY <1>3, <2>1, <2>2 DEF Customers!InFlight
  <2>4. ~\E x \in Requests : Customers!InFlight(x)
    BY <1>1, <2>3
  <2> QED BY <2>3, <2>4
<1>10. \A q \in Requests : alone'[q] => AloneKnows(serving[q])'
  <2> SUFFICES ASSUME NEW q \in Requests, alone'[q] PROVE AloneKnows(serving[q])'
    OBVIOUS
  <2>2. CASE q = r
    <3>1. h = serving'[q]
      BY <1>3, <2>2
    <3> QED BY <1>2, <3>1 DEF AloneKnows, Customers!Defaults
  <2>3. CASE q # r
    <3>1. alone[q] /\ ~Customers!InFlight(q)
      BY <1>1, <2>3
    <3>2. serving'[q].stage \in Customers!Idle
      BY <1>3, <2>3, <3>1 DEF Customers!InFlight
    <3> QED BY <3>2 DEF AloneKnows, Customers!Idle
  <2> QED BY <2>2, <2>3
<1> QED BY <1>4, <1>5, <1>6, <1>7, <1>8, <1>9, <1>10 DEF CustomersInv

(* A handler goes on, ends or dies; nobody else moves.                         *)
MovesOn(r, stage) ==
    \/ stage \in {"registered", "opened", "logging"} /\ Customers!Advance(r, stage)
    \/ stage \in {"done", "failed"} /\ Customers!Finish(r, stage)

LEMMA CustomerMoves ==
  ASSUME CustomersInv, NEW r \in Requests, Customers!InFlight(r), NEW stage, MovesOn(r, stage)
  PROVE  /\ serving' \in [Requests -> Service] /\ alone' = alone
         /\ serving'[r].stage = stage
         /\ stage \notin {"done", "failed"} => serving'[r].person = serving[r].person
         /\ \A q \in Requests : q # r => serving'[q] = serving[q]
         /\ stage \in {"registered", "opened", "logging", "done", "failed"}
         /\ stage \in Customers!Idle <=> stage \in {"done", "failed"}
<1>t. serving \in [Requests -> Service]
  BY CustomerTypes DEF CustomersInv
<1>1. CASE stage \in {"registered", "opened", "logging"} /\ Customers!Advance(r, stage)
  <2>1. PICK old \in Service : old = serving[r]
    BY <1>t
  <2>2. PICK h : h = [old EXCEPT !.stage = stage]
    OBVIOUS
  <2>3. h \in Service /\ h.stage = stage /\ h.person = old.person
    BY <1>1, <2>2 DEF Service, Customers!Stage
  <2>4. serving' = [serving EXCEPT ![r] = h] /\ alone' = alone
    <3>1. serving' = [serving EXCEPT ![r] = [serving[r] EXCEPT !.stage = stage]]
      BY <1>1 DEF Customers!Advance
    <3> QED BY <1>1, <2>1, <2>2, <3>1 DEF Customers!Advance
  <2> QED BY <1>1, <1>t, <2>1, <2>3, <2>4 DEF Customers!Idle
<1>2. CASE stage \in {"done", "failed"} /\ Customers!Finish(r, stage)
  <2>1. PICK old \in Service : old = Customers!NoService
    BY NobodyServed
  <2>2. PICK h : h = [old EXCEPT !.stage = stage]
    OBVIOUS
  <2>3. h \in Service /\ h.stage = stage
    BY <1>2, <2>2 DEF Service, Customers!Stage, Customers!Idle
  <2>4. serving' = [serving EXCEPT ![r] = h] /\ alone' = alone
    BY <1>2, <2>1, <2>2 DEF Customers!Finish
  <2> QED BY <1>2, <1>t, <2>3, <2>4 DEF Customers!Idle
<1> QED BY <1>1, <1>2 DEF MovesOn

(* What a step must be like to keep the invariant.                             *)
LEMMA CustomerSteps ==
  ASSUME CustomersInv, NEW r \in Requests, Customers!InFlight(r), NEW stage, MovesOn(r, stage),
         registered' \subseteq People, registered \subseteq registered',
         tags' \in [People -> SUBSET Customers!Tags],
         preferences' \in [People -> {"none", "default", "chosen"}],
         cards' \subseteq Customers!Card, tickets' \in [Requests -> Ticket],
         messages' \subseteq Requests \X Requests, activity' \subseteq Requests \X People,
         serving[r].stage = "registering" /\ stage \notin {"done", "failed"} =>
             serving[r].person \in registered',
         \A t \in Requests : tickets[t].owner # Nobody => tickets'[t].owner # Nobody,
         stage = "opened" => tickets'[r].owner # Nobody,
         \A c \in cards' : c.owner \in registered',
         \A t \in Requests : tickets'[t].owner # Nobody => tickets'[t].owner \in registered',
         Customers!EndedIsDated',
         \A p \in People \ registered' : preferences'[p] = "none",
         \A m \in messages' : m \in messages \/ tickets'[m[1]].owner # Nobody,
         activity \subseteq activity', \A a \in activity' : a[2] \in registered',
         \A p \in registered' : preferences'[p] = "none" =>
             \/ stage = "failed"
             \/ stage = "registered" /\ p = serving[r].person
             \/ /\ p \in registered /\ preferences[p] = "none"
                /\ ~(serving[r].stage = "registered" /\ serving[r].person = p),
         \A t \in Requests : tickets'[t].owner # Nobody /\ <<t, t>> \notin messages' =>
             \/ t = r /\ stage \in {"opened", "failed"}
             \/ /\ tickets[t].owner # Nobody /\ <<t, t>> \notin messages
                /\ t = r => serving[r].stage # "opened",
         \A t \in Requests : (tickets'[t].owner # Nobody \/ \E c \in cards' : c.id = t) =>
             \/ t = r /\ stage \in {"opened", "logging", "failed"}
             \/ t = r /\ \E p \in People : <<r, p>> \in activity'
             \/ /\ tickets[t].owner # Nobody \/ \E c \in cards : c.id = t
                /\ t = r => serving[r].stage \notin {"opened", "logging"}
  PROVE  CustomersInv'
<1>t. /\ serving \in [Requests -> Service] /\ alone \in [Requests -> BOOLEAN]
      /\ serving[r].stage \notin Customers!Idle
      /\ messages \subseteq Requests \X Requests
  BY CustomerTypes DEF CustomersInv, Customers!InFlight
<1>1. /\ serving' \in [Requests -> Service] /\ alone' = alone
      /\ serving'[r].stage = stage
      /\ stage \notin {"done", "failed"} => serving'[r].person = serving[r].person
      /\ \A q \in Requests : q # r => serving'[q] = serving[q]
      /\ stage \in {"registered", "opened", "logging", "done", "failed"}
      /\ stage \in Customers!Idle <=> stage \in {"done", "failed"}
  BY CustomerMoves
<1>2. Customers!TypeOK'
  <2>1. alone' \in [Requests -> BOOLEAN]
    BY <1>t, <1>1
  <2> QED BY <1>1, <2>1 DEF Customers!TypeOK, Service, Ticket
<1>3. Customers!DocumentsFollowRows'
  <2>d. Customers!DocumentsFollowRows
    BY DEF CustomersInv
  <2>1. \A m \in messages' : tickets'[m[1]].owner # Nobody
    BY <1>t, <2>d DEF Customers!DocumentsFollowRows
  <2>2. ASSUME NEW p \in registered', preferences'[p] = "none"
        PROVE  \E q \in Requests : \/ serving'[q].stage = "registered" /\ serving'[q].person = p
                                   \/ serving'[q].stage = "failed"
    <3>1. CASE stage = "failed"
      BY <1>1, <3>1
    <3>2. CASE stage = "registered" /\ p = serving[r].person
      BY <1>1, <3>2
    <3>3. CASE /\ p \in registered /\ preferences[p] = "none"
               /\ ~(serving[r].stage = "registered" /\ serving[r].person = p)
      <4>1. PICK q \in Requests : \/ serving[q].stage = "registered" /\ serving[q].person = p
                                  \/ serving[q].stage = "failed"
        BY <2>d, <3>3 DEF Customers!DocumentsFollowRows
      <4>2. q # r
        BY <1>t, <3>3, <4>1 DEF Customers!Idle
      <4> QED BY <1>1, <4>1, <4>2
    <3> QED BY <2>2, <3>1, <3>2, <3>3
  <2>3. ASSUME NEW t \in Requests, tickets'[t].owner # Nobody, <<t, t>> \notin messages'
        PROVE  serving'[t].stage \in {"opened", "failed"}
    <3>1. CASE t = r /\ stage \in {"opened", "failed"}
      BY <1>1, <3>1
    <3>2. CASE /\ tickets[t].owner # Nobody /\ <<t, t>> \notin messages
               /\ t = r => serving[r].stage # "opened"
      <4>1. serving[t].stage \in {"opened", "failed"}
        BY <2>d, <3>2 DEF Customers!DocumentsFollowRows
      <4>2. t # r
        BY <1>t, <3>2, <4>1 DEF Customers!Idle
      <4> QED BY <1>1, <4>1, <4>2
    <3> QED BY <2>3, <3>1, <3>2
  <2>4. ASSUME NEW t \in Requests, tickets'[t].owner # Nobody \/ \E c \in cards' : c.id = t
        PROVE  \/ \E p \in People : <<t, p>> \in activity'
               \/ serving'[t].stage \in {"opened", "logging", "failed"}
    <3>1. CASE t = r /\ stage \in {"opened", "logging", "failed"}
      BY <1>1, <3>1
    <3>2. CASE t = r /\ \E p \in People : <<r, p>> \in activity'
      BY <3>2
    <3>3. CASE /\ tickets[t].owner # Nobody \/ \E c \in cards : c.id = t
               /\ t = r => serving[r].stage \notin {"opened", "logging"}
      <4>1. \/ \E p \in People : <<t, p>> \in activity
            \/ serving[t].stage \in {"opened", "logging", "failed"}
        BY <2>d, <3>3 DEF Customers!DocumentsFollowRows
      <4>2. CASE \E p \in People : <<t, p>> \in activity
        BY <4>2
      <4>3. CASE serving[t].stage \in {"opened", "logging", "failed"}
        <5>1. t # r
          BY <1>t, <3>3, <4>3 DEF Customers!Idle
        <5> QED BY <1>1, <4>3, <5>1
      <4> QED BY <4>1, <4>2, <4>3
    <3> QED BY <2>4, <3>1, <3>2, <3>3
  <2> QED BY <2>1, <2>2, <2>3, <2>4 DEF Customers!DocumentsFollowRows
<1>4. OwnersKnown'
  <2>1. \A q \in Requests : serving'[q].stage = "opened" => tickets'[q].owner # Nobody
    BY <1>1 DEF CustomersInv, OwnersKnown
  <2> QED BY <2>1 DEF OwnersKnown
<1>5. AloneIsAlone'
  <2>1. \A q \in Requests : Customers!InFlight(q)' => Customers!InFlight(q)
    BY <1>1 DEF Customers!InFlight
  <2> QED BY <1>1, <2>1 DEF CustomersInv, AloneIsAlone
<1>6. ASSUME NEW q \in Requests PROVE ServiceKnows(serving[q])'
  <2>1. ServiceKnows(serving[q])
    BY DEF CustomersInv
  <2>2. CASE q = r
    <3>1. stage \notin {"done", "failed"} => serving[r].person \in People
                                             /\ serving[r].person \in registered'
      BY <1>t, <2>1, <2>2 DEF ServiceKnows, Customers!Idle
    <3> QED BY <1>1, <2>2, <3>1 DEF ServiceKnows
  <2>3. CASE q # r
    BY <1>1, <2>1, <2>3 DEF ServiceKnows
  <2> QED BY <2>2, <2>3
<1>7. ASSUME NEW q \in Requests, alone'[q] PROVE AloneKnows(serving[q])'
  <2>1. CASE q = r
    BY <1>1, <2>1 DEF AloneKnows
  <2>2. CASE q # r
    <3>1. ~Customers!InFlight(q)
      BY <1>1, <1>7, <2>2 DEF CustomersInv, AloneIsAlone
    <3>2. serving'[q].stage \in Customers!Idle
      BY <1>1, <2>2, <3>1 DEF Customers!InFlight
    <3> QED BY <3>2 DEF AloneKnows, Customers!Idle
  <2> QED BY <2>1, <2>2
<1> QED BY <1>2, <1>3, <1>4, <1>5, <1>6, <1>7 DEF CustomersInv

(* What the invariant says of the rows and of the handler that moves.          *)
LEMMA CustomerFacts ==
  ASSUME CustomersInv, NEW r \in Requests, Customers!InFlight(r)
  PROVE  /\ registered \subseteq People /\ tags \in [People -> SUBSET Customers!Tags]
         /\ preferences \in [People -> {"none", "default", "chosen"}]
         /\ cards \subseteq Customers!Card /\ tickets \in [Requests -> Ticket]
         /\ messages \subseteq Requests \X Requests /\ activity \subseteq Requests \X People
         /\ serving[r] \in Service /\ serving[r].person \in People
         /\ serving[r].stage # "registering" => serving[r].person \in registered
         /\ \A c \in cards : c.owner \in registered
         /\ \A t \in Requests : tickets[t].owner # Nobody => tickets[t].owner \in registered
         /\ serving[r].stage = "opened" => tickets[r].owner # Nobody
         /\ \A p \in People \ registered : preferences[p] = "none"
         /\ \A a \in activity : a[2] \in registered
         /\ Customers!EndedIsDated
<1>1. ServiceKnows(serving[r]) /\ serving[r].stage \notin Customers!Idle
  BY DEF CustomersInv, Customers!InFlight
<1> QED BY <1>1, CustomerTypes DEF CustomersInv, OwnersKnown, ServiceKnows,
       Customers!DocumentsFollowRows

(* A handler that ends with an error, or that only logs itself.                *)
LEMMA CustomerRests ==
  ASSUME CustomersInv, NEW r \in Requests, Customers!InFlight(r), MovesOn(r, "failed"),
         UNCHANGED customerData
  PROVE  CustomersInv'
<1>t. /\ registered \subseteq People /\ tags \in [People -> SUBSET Customers!Tags]
      /\ preferences \in [People -> {"none", "default", "chosen"}]
      /\ cards \subseteq Customers!Card /\ tickets \in [Requests -> Ticket]
      /\ messages \subseteq Requests \X Requests /\ activity \subseteq Requests \X People
      /\ \A c \in cards : c.owner \in registered
      /\ \A t \in Requests : tickets[t].owner # Nobody => tickets[t].owner \in registered
      /\ \A p \in People \ registered : preferences[p] = "none"
      /\ \A a \in activity : a[2] \in registered
      /\ Customers!EndedIsDated
  BY CustomerFacts
<1>1. UNCHANGED <<registered, tags, preferences, cards, tickets, messages, activity>>
  BY DEF customerData
<1>2. Customers!EndedIsDated'
  BY <1>1, <1>t DEF Customers!EndedIsDated
<1>3. \A t \in Requests : tickets'[t].owner # Nobody /\ <<t, t>> \notin messages' =>
          \/ t = r /\ "failed" \in {"opened", "failed"}
          \/ /\ tickets[t].owner # Nobody /\ <<t, t>> \notin messages
             /\ t = r => serving[r].stage # "opened"
  BY <1>1
<1>4. \A t \in Requests : (tickets'[t].owner # Nobody \/ \E c \in cards' : c.id = t) =>
          \/ t = r /\ "failed" \in {"opened", "logging", "failed"}
          \/ t = r /\ \E p \in People : <<r, p>> \in activity'
          \/ /\ tickets[t].owner # Nobody \/ \E c \in cards : c.id = t
             /\ t = r => serving[r].stage \notin {"opened", "logging"}
  BY <1>1
<1>5. /\ registered' \subseteq People /\ registered \subseteq registered'
      /\ tags' \in [People -> SUBSET Customers!Tags]
      /\ preferences' \in [People -> {"none", "default", "chosen"}]
      /\ cards' \subseteq Customers!Card /\ tickets' \in [Requests -> Ticket]
      /\ messages' \subseteq Requests \X Requests /\ activity' \subseteq Requests \X People
      /\ \A t \in Requests : tickets[t].owner # Nobody => tickets'[t].owner # Nobody
      /\ \A c \in cards' : c.owner \in registered'
      /\ \A t \in Requests : tickets'[t].owner # Nobody => tickets'[t].owner \in registered'
      /\ \A p \in People \ registered' : preferences'[p] = "none"
      /\ \A m \in messages' : m \in messages \/ tickets'[m[1]].owner # Nobody
      /\ activity \subseteq activity' /\ \A a \in activity' : a[2] \in registered'
  BY <1>1, <1>t
<1> QED BY <1>2, <1>3, <1>4, <1>5, CustomerSteps

LEMMA RegistrationSteps ==
  ASSUME CustomersInv, NEW r \in Requests,
         Customers!RegisterCommit(r) \/ Customers!RegisterDocument(r)
             \/ Customers!ChosenDocument(r) \/ Customers!TagCommit(r)
  PROVE  CustomersInv'
<1>i. Customers!InFlight(r)
  BY DEF Customers!RegisterCommit, Customers!RegisterDocument, Customers!ChosenDocument,
     Customers!TagCommit, Customers!InFlight, Customers!Idle
<1>t. /\ registered \subseteq People /\ tags \in [People -> SUBSET Customers!Tags]
      /\ preferences \in [People -> {"none", "default", "chosen"}]
      /\ cards \subseteq Customers!Card /\ tickets \in [Requests -> Ticket]
      /\ messages \subseteq Requests \X Requests /\ activity \subseteq Requests \X People
      /\ serving[r] \in Service /\ serving[r].person \in People
      /\ serving[r].stage # "registering" => serving[r].person \in registered
      /\ \A c \in cards : c.owner \in registered
      /\ \A t \in Requests : tickets[t].owner # Nobody => tickets[t].owner \in registered
      /\ \A p \in People \ registered : preferences[p] = "none"
      /\ \A a \in activity : a[2] \in registered
      /\ Customers!EndedIsDated
  BY <1>i, CustomerFacts
<1>1. PICK p \in People : p = serving[r].person
  BY <1>t
<1>k. ASSUME NEW stage \in {"registered", "logging"}, Customers!Advance(r, stage),
             serving[r].stage \notin {"opened", "logging"},
             registered' \subseteq People, registered \subseteq registered', p \in registered',
             tags' \in [People -> SUBSET Customers!Tags],
             preferences' \in [People -> {"none", "default", "chosen"}],
             \A q \in People : q # p => preferences'[q] = preferences[q],
             stage = "registered" =>
                 p \notin registered /\ registered' = registered \cup {p}
                     /\ preferences' = preferences,
             stage = "logging" => registered' = registered /\
                 (preferences'[p] # "none"
                      \/ (serving[r].stage = "tagging" /\ preferences' = preferences)),
             UNCHANGED <<cards, tickets, messages, activity>>
      PROVE  CustomersInv'
  <2>1. MovesOn(r, stage)
    BY <1>k DEF MovesOn
  <2>2. Customers!EndedIsDated'
    BY <1>k, <1>t DEF Customers!EndedIsDated
  <2>3. \A q \in People \ registered' : preferences'[q] = "none"
    BY <1>k, <1>t
  <2>4. \A q \in registered' : preferences'[q] = "none" =>
             \/ stage = "failed"
             \/ stage = "registered" /\ q = serving[r].person
             \/ /\ q \in registered /\ preferences[q] = "none"
                /\ ~(serving[r].stage = "registered" /\ serving[r].person = q)
    <3>1. CASE stage = "registered"
      <4>1. serving[r].stage = "registering" \/ p \in registered
        BY <1>t, <1>1
      <4> QED BY <1>k, <1>t, <1>1, <3>1, <4>1
    <3>2. CASE stage = "logging"
      BY <1>k, <1>t, <1>1, <3>2
    <3> QED BY <1>k, <3>1, <3>2
  <2>5. \A t \in Requests : tickets'[t].owner # Nobody /\ <<t, t>> \notin messages' =>
             \/ t = r /\ stage \in {"opened", "failed"}
             \/ /\ tickets[t].owner # Nobody /\ <<t, t>> \notin messages
                /\ t = r => serving[r].stage # "opened"
    BY <1>k
  <2>6. \A t \in Requests : (tickets'[t].owner # Nobody \/ \E c \in cards' : c.id = t) =>
             \/ t = r /\ stage \in {"opened", "logging", "failed"}
             \/ t = r /\ \E q \in People : <<r, q>> \in activity'
             \/ /\ tickets[t].owner # Nobody \/ \E c \in cards : c.id = t
                /\ t = r => serving[r].stage \notin {"opened", "logging"}
    BY <1>k
  <2>7. /\ cards' \subseteq Customers!Card /\ tickets' \in [Requests -> Ticket]
        /\ messages' \subseteq Requests \X Requests /\ activity' \subseteq Requests \X People
        /\ \A t \in Requests : tickets[t].owner # Nobody => tickets'[t].owner # Nobody
        /\ \A c \in cards' : c.owner \in registered'
        /\ \A t \in Requests : tickets'[t].owner # Nobody => tickets'[t].owner \in registered'
        /\ \A m \in messages' : m \in messages \/ tickets'[m[1]].owner # Nobody
        /\ activity \subseteq activity' /\ \A a \in activity' : a[2] \in registered'
        /\ stage # "opened" /\ serving[r].person \in registered'
    BY <1>k, <1>t, <1>1
  <2> QED BY <1>i, <1>k, <2>1, <2>2, <2>3, <2>4, <2>5, <2>6, <2>7, CustomerSteps
<1>f. ASSUME Customers!Finish(r, "failed"), UNCHANGED customerData PROVE CustomersInv'
  BY <1>i, <1>f, CustomerRests DEF MovesOn
<1>2. CASE Customers!RegisterCommit(r)
  <2>1. /\ serving[r].stage = "registering" /\ registered' = registered \cup {p}
        /\ IF p \in registered THEN Customers!Finish(r, "failed")
                               ELSE Customers!Advance(r, "registered")
        /\ UNCHANGED <<tags, preferences, cards, tickets, messages, activity>>
    BY <1>1, <1>2 DEF Customers!RegisterCommit
  <2>2. CASE p \in registered
    BY <1>f, <2>1, <2>2 DEF customerData
  <2>3. CASE p \notin registered
    <3>1. registered' \subseteq People
      BY <1>t, <1>1, <2>1
    <3> QED BY <1>t, <1>k, <2>1, <2>3, <3>1
  <2> QED BY <2>2, <2>3
<1>3. CASE Customers!RegisterDocument(r)
  <2>1. /\ serving[r].stage = "registered"
        /\ IF preferences[p] = "none"
           THEN preferences' = [preferences EXCEPT ![p] = "default"]
                /\ Customers!Advance(r, "logging")
           ELSE UNCHANGED preferences /\ Customers!Finish(r, "failed")
        /\ UNCHANGED <<registered, tags, cards, tickets, messages, activity>>
    BY <1>1, <1>3 DEF Customers!RegisterDocument
  <2>2. CASE preferences[p] # "none"
    BY <1>f, <2>1, <2>2 DEF customerData
  <2>3. CASE preferences[p] = "none"
    <3>1. /\ preferences' = [preferences EXCEPT ![p] = "default"]
          /\ preferences' \in [People -> {"none", "default", "chosen"}]
      BY <1>t, <2>1, <2>3
    <3> QED BY <1>t, <1>1, <1>k, <2>1, <2>3, <3>1
  <2> QED BY <2>2, <2>3
<1>4. CASE Customers!ChosenDocument(r)
  <2>1. /\ serving[r].stage = "preferring" /\ Customers!Advance(r, "logging")
        /\ preferences' = [preferences EXCEPT ![p] = "chosen"]
        /\ UNCHANGED <<registered, tags, cards, tickets, messages, activity>>
    BY <1>1, <1>4 DEF Customers!ChosenDocument
  <2>2. preferences' \in [People -> {"none", "default", "chosen"}]
    BY <1>t, <2>1
  <2> QED BY <1>t, <1>1, <1>k, <2>1, <2>2
<1>5. CASE Customers!TagCommit(r)
  <2>1. PICK x : x = IF serving[r].default THEN tags[p] \cup serving[r].turned
                     ELSE tags[p] \ serving[r].turned
    OBVIOUS
  <2>2. /\ serving[r].stage = "tagging" /\ Customers!Advance(r, "logging")
        /\ tags' = [tags EXCEPT ![p] = x]
        /\ UNCHANGED <<registered, preferences, cards, tickets, messages, activity>>
    BY <1>1, <1>5, <2>1 DEF Customers!TagCommit
  <2>3. x \in SUBSET Customers!Tags
    <3>1. serving[r].turned \in SUBSET Customers!Tags /\ tags[p] \in SUBSET Customers!Tags
      BY <1>t DEF Service
    <3> QED BY <2>1, <3>1
  <2>4. tags' \in [People -> SUBSET Customers!Tags]
    BY <1>t, <2>2, <2>3
  <2> QED BY <1>t, <1>1, <1>k, <2>2, <2>4
<1> QED BY <1>2, <1>3, <1>4, <1>5

(* Clearing defaults changes nothing else.                                     *)
LEMMA ClearedFacts ==
  ASSUME cards \subseteq Customers!Card, NEW ids
  PROVE  /\ Customers!Cleared(cards, ids) \subseteq Customers!Card
         /\ \A c \in Customers!Cleared(cards, ids) : \E d \in cards :
                /\ d.id = c.id /\ d.owner = c.owner /\ d.kind = c.kind
                /\ c.default => d.default /\ d.id \notin ids
<1> SUFFICES ASSUME NEW c \in Customers!Cleared(cards, ids)
             PROVE  /\ c \in Customers!Card
                    /\ \E d \in cards : /\ d.id = c.id /\ d.owner = c.owner /\ d.kind = c.kind
                                        /\ c.default => d.default /\ d.id \notin ids
  OBVIOUS
<1>1. PICK d \in cards : c = IF d.id \in ids THEN [d EXCEPT !.default = FALSE] ELSE d
  BY DEF Customers!Cleared
<1>2. CASE d.id \in ids
  <2>1. c = [d EXCEPT !.default = FALSE] /\ d \in Customers!Card
    BY <1>1, <1>2
  <2>2. c \in Customers!Card /\ ~c.default /\ c.id = d.id /\ c.owner = d.owner /\ c.kind = d.kind
    BY <2>1 DEF Customers!Card
  <2> QED BY <2>2
<1>3. CASE d.id \notin ids
  BY <1>1, <1>3
<1> QED BY <1>2, <1>3

LEMMA CardSteps ==
  ASSUME CustomersInv, NEW r \in Requests,
         Customers!StoreCommit(r) \/ Customers!DeleteCommit(r)
  PROVE  CustomersInv'
<1>i. Customers!InFlight(r) /\ serving[r].stage \in {"storing", "deleting"}
  BY DEF Customers!StoreCommit, Customers!DeleteCommit, Customers!InFlight, Customers!Idle
<1>t. /\ registered \subseteq People /\ tags \in [People -> SUBSET Customers!Tags]
      /\ preferences \in [People -> {"none", "default", "chosen"}]
      /\ cards \subseteq Customers!Card /\ tickets \in [Requests -> Ticket]
      /\ messages \subseteq Requests \X Requests /\ activity \subseteq Requests \X People
      /\ serving[r] \in Service /\ serving[r].person \in People
      /\ serving[r].person \in registered
      /\ \A c \in cards : c.owner \in registered
      /\ \A t \in Requests : tickets[t].owner # Nobody => tickets[t].owner \in registered
      /\ \A p \in People \ registered : preferences[p] = "none"
      /\ \A a \in activity : a[2] \in registered
      /\ Customers!EndedIsDated
  BY <1>i, CustomerFacts
<1>k. ASSUME Customers!Advance(r, "logging"), cards' \subseteq Customers!Card,
             \A c \in cards' : c.owner \in registered,
             \A c \in cards' : c.id = r \/ \E d \in cards : d.id = c.id,
             UNCHANGED <<registered, tags, preferences, tickets, messages, activity>>
      PROVE  CustomersInv'
  <2>1. MovesOn(r, "logging")
    BY <1>k DEF MovesOn
  <2>2. Customers!EndedIsDated'
    BY <1>k, <1>t DEF Customers!EndedIsDated
  <2>3. \A p \in registered' : preferences'[p] = "none" =>
             \/ "logging" = "failed"
             \/ "logging" = "registered" /\ p = serving[r].person
             \/ /\ p \in registered /\ preferences[p] = "none"
                /\ ~(serving[r].stage = "registered" /\ serving[r].person = p)
    BY <1>k, <1>i
  <2>4. \A t \in Requests : tickets'[t].owner # Nobody /\ <<t, t>> \notin messages' =>
             \/ t = r /\ "logging" \in {"opened", "failed"}
             \/ /\ tickets[t].owner # Nobody /\ <<t, t>> \notin messages
                /\ t = r => serving[r].stage # "opened"
    BY <1>k, <1>i
  <2>5. \A t \in Requests : (tickets'[t].owner # Nobody \/ \E c \in cards' : c.id = t) =>
             \/ t = r /\ "logging" \in {"opened", "logging", "failed"}
             \/ t = r /\ \E p \in People : <<r, p>> \in activity'
             \/ /\ tickets[t].owner # Nobody \/ \E c \in cards : c.id = t
                /\ t = r => serving[r].stage \notin {"opened", "logging"}
    BY <1>k
  <2>6. /\ registered' \subseteq People /\ registered \subseteq registered'
        /\ tags' \in [People -> SUBSET Customers!Tags]
        /\ preferences' \in [People -> {"none", "default", "chosen"}]
        /\ tickets' \in [Requests -> Ticket]
        /\ messages' \subseteq Requests \X Requests /\ activity' \subseteq Requests \X People
        /\ \A t \in Requests : tickets[t].owner # Nobody => tickets'[t].owner # Nobody
        /\ \A c \in cards' : c.owner \in registered'
        /\ \A t \in Requests : tickets'[t].owner # Nobody => tickets'[t].owner \in registered'
        /\ \A p \in People \ registered' : preferences'[p] = "none"
        /\ \A m \in messages' : m \in messages \/ tickets'[m[1]].owner # Nobody
        /\ activity \subseteq activity' /\ \A a \in activity' : a[2] \in registered'
        /\ serving[r].person \in registered'
    BY <1>k, <1>t
  <2> QED BY <1>i, <1>k, <2>1, <2>2, <2>3, <2>4, <2>5, <2>6, CustomerSteps
<1>1. CASE Customers!StoreCommit(r)
  <2>1. PICK h \in Service : h = serving[r]
    BY <1>t
  <2>2. PICK row, updates : /\ row = [id |-> h.row, owner |-> h.person, kind |-> h.kind,
                                      default |-> h.default]
                            /\ updates = (h.row # r /\ (h.default \/ h.clear # {}))
    OBVIOUS
  <2>3. /\ h.stage = "storing"
        /\ IF updates /\ ~\E c \in cards : c.id = h.row
           THEN Customers!Finish(r, "failed") /\ UNCHANGED cards
           ELSE /\ cards' = IF h.row = r \/ updates
                            THEN {c \in Customers!Cleared(cards, h.clear) : c.id # h.row}
                                     \cup {row}
                            ELSE cards
                /\ Customers!Advance(r, "logging")
        /\ UNCHANGED <<registered, tags, preferences, tickets, messages, activity>>
    BY <1>1, <2>1, <2>2 DEF Customers!StoreCommit, Customers!people
  <2>4. h.row \in Requests
    BY <2>1, <2>3 DEF CustomersInv, ServiceKnows
  <2>5. row \in Customers!Card /\ row.id = h.row /\ row.owner = h.person
    BY <1>t, <2>1, <2>2, <2>4 DEF Customers!Card, Service
  <2>6. CASE updates /\ ~\E c \in cards : c.id = h.row
    BY <1>i, <2>3, <2>6, CustomerRests DEF MovesOn, customerData
  <2>7. CASE ~(updates /\ ~\E c \in cards : c.id = h.row)
    <3>1. Customers!Advance(r, "logging")
      BY <2>3, <2>7
    <3>2. CASE h.row = r \/ updates
      <4>1. cards' = {c \in Customers!Cleared(cards, h.clear) : c.id # h.row} \cup {row}
        BY <2>3, <2>7, <3>2
      <4>2. /\ Customers!Cleared(cards, h.clear) \subseteq Customers!Card
            /\ \A c \in Customers!Cleared(cards, h.clear) : \E d \in cards :
                   d.id = c.id /\ d.owner = c.owner
        BY <1>t, ClearedFacts
      <4>3. cards' \subseteq Customers!Card /\ \A c \in cards' : c.owner \in registered
        BY <1>t, <2>1, <2>5, <4>1, <4>2
      <4>4. \A c \in cards' : c.id = r \/ \E d \in cards : d.id = c.id
        BY <2>2, <2>5, <2>7, <3>2, <4>1, <4>2
      <4> QED BY <1>k, <2>3, <3>1, <4>3, <4>4
    <3>3. CASE ~(h.row = r \/ updates)
      <4>1. cards' = cards
        BY <2>3, <2>7, <3>3
      <4> QED BY <1>k, <1>t, <2>3, <3>1, <4>1
    <3> QED BY <3>2, <3>3
  <2> QED BY <2>6, <2>7
<1>2. CASE Customers!DeleteCommit(r)
  <2>1. /\ cards' \subseteq cards /\ Customers!Advance(r, "logging")
        /\ UNCHANGED <<registered, tags, preferences, tickets, messages, activity>>
    BY <1>2 DEF Customers!DeleteCommit, Customers!people
  <2> QED BY <1>k, <1>t, <2>1
<1> QED BY <1>1, <1>2

LEMMA TicketSteps ==
  ASSUME CustomersInv, NEW r \in Requests,
         Customers!OpenCommit(r) \/ Customers!OpenDocument(r)
             \/ Customers!MessageDocument(r) \/ Customers!PatchCommit(r)
  PROVE  CustomersInv'
<1>i. Customers!InFlight(r) /\ serving[r].stage \in {"opening", "opened", "writing", "patching"}
  BY DEF Customers!OpenCommit, Customers!OpenDocument, Customers!MessageDocument,
     Customers!PatchCommit, Customers!InFlight, Customers!Idle
<1>t. /\ registered \subseteq People /\ tags \in [People -> SUBSET Customers!Tags]
      /\ preferences \in [People -> {"none", "default", "chosen"}]
      /\ cards \subseteq Customers!Card /\ tickets \in [Requests -> Ticket]
      /\ messages \subseteq Requests \X Requests /\ activity \subseteq Requests \X People
      /\ serving[r] \in Service /\ serving[r].person \in People
      /\ serving[r].person \in registered
      /\ \A c \in cards : c.owner \in registered
      /\ \A t \in Requests : tickets[t].owner # Nobody => tickets[t].owner \in registered
      /\ serving[r].stage = "opened" => tickets[r].owner # Nobody
      /\ \A p \in People \ registered : preferences[p] = "none"
      /\ \A a \in activity : a[2] \in registered
      /\ Customers!EndedIsDated /\ Nobody \notin People
  BY <1>i, CustomerFacts, NobodyServed
<1>n. ServiceKnows(serving[r])
  BY DEF CustomersInv
<1>k. ASSUME NEW stage \in {"opened", "logging"}, Customers!Advance(r, stage),
             tickets' \in [Requests -> Ticket], messages' \subseteq Requests \X Requests,
             \A t \in Requests : t # r => (tickets'[t].owner # Nobody <=> tickets[t].owner # Nobody),
             \A t \in Requests : tickets[t].owner # Nobody => tickets'[t].owner # Nobody,
             \A t \in Requests : tickets'[t].owner # Nobody => tickets'[t].owner \in registered,
             stage = "opened" => tickets'[r].owner # Nobody,
             stage = "logging" => (tickets'[r].owner # Nobody <=> tickets[r].owner # Nobody)
                                  /\ (serving[r].stage = "opened" => <<r, r>> \in messages'),
             messages \subseteq messages',
             \A m \in messages' : m \in messages \/ tickets'[m[1]].owner # Nobody,
             Customers!EndedIsDated',
             UNCHANGED <<registered, tags, preferences, cards, activity>>
      PROVE  CustomersInv'
  <2>1. MovesOn(r, stage)
    BY <1>k DEF MovesOn
  <2>2. \A p \in registered' : preferences'[p] = "none" =>
             \/ stage = "failed"
             \/ stage = "registered" /\ p = serving[r].person
             \/ /\ p \in registered /\ preferences[p] = "none"
                /\ ~(serving[r].stage = "registered" /\ serving[r].person = p)
    BY <1>k, <1>i
  <2>3. \A t \in Requests : tickets'[t].owner # Nobody /\ <<t, t>> \notin messages' =>
             \/ t = r /\ stage \in {"opened", "failed"}
             \/ /\ tickets[t].owner # Nobody /\ <<t, t>> \notin messages
                /\ t = r => serving[r].stage # "opened"
    BY <1>k
  <2>4. \A t \in Requests : (tickets'[t].owner # Nobody \/ \E c \in cards' : c.id = t) =>
             \/ t = r /\ stage \in {"opened", "logging", "failed"}
             \/ t = r /\ \E p \in People : <<r, p>> \in activity'
             \/ /\ tickets[t].owner # Nobody \/ \E c \in cards : c.id = t
                /\ t = r => serving[r].stage \notin {"opened", "logging"}
    BY <1>k
  <2>5. /\ registered' \subseteq People /\ registered \subseteq registered'
        /\ tags' \in [People -> SUBSET Customers!Tags]
        /\ preferences' \in [People -> {"none", "default", "chosen"}]
        /\ cards' \subseteq Customers!Card /\ activity' \subseteq Requests \X People
        /\ \A c \in cards' : c.owner \in registered'
        /\ \A t \in Requests : tickets'[t].owner # Nobody => tickets'[t].owner \in registered'
        /\ \A p \in People \ registered' : preferences'[p] = "none"
        /\ activity \subseteq activity' /\ \A a \in activity' : a[2] \in registered'
        /\ serving[r].person \in registered'
    BY <1>k, <1>t
  <2> QED BY <1>i, <1>k, <2>1, <2>2, <2>3, <2>4, <2>5, CustomerSteps
<1>1. CASE Customers!OpenCommit(r)
  <2>1. PICK old \in Ticket : old = tickets[r]
    BY <1>t
  <2>2. PICK x : x = [old EXCEPT !.owner = serving[r].person]
    OBVIOUS
  <2>3. /\ x \in Ticket /\ x.owner = serving[r].person /\ x.status = old.status
        /\ x.dated = old.dated
    BY <1>t, <2>2 DEF Ticket
  <2>4. /\ tickets' = [tickets EXCEPT ![r] = x] /\ Customers!Advance(r, "opened")
        /\ UNCHANGED <<registered, tags, preferences, cards, messages, activity>>
    BY <1>1, <2>1, <2>2 DEF Customers!OpenCommit, Customers!people
  <2>5. tickets' \in [Requests -> Ticket] /\ tickets'[r] = x
        /\ \A t \in Requests : t # r => tickets'[t] = tickets[t]
    BY <1>t, <2>3, <2>4
  <2>6. Customers!EndedIsDated'
    BY <1>t, <2>1, <2>3, <2>5 DEF Customers!EndedIsDated
  <2> QED BY <1>t, <1>k, <2>3, <2>4, <2>5, <2>6
<1>2. CASE Customers!OpenDocument(r)
  <2>1. /\ serving[r].stage = "opened" /\ messages' = messages \cup {<<r, r>>}
        /\ Customers!Advance(r, "logging")
        /\ UNCHANGED <<registered, tags, preferences, cards, tickets, activity>>
    BY <1>2 DEF Customers!OpenDocument, Customers!people
  <2>2. Customers!EndedIsDated'
    BY <1>t, <2>1 DEF Customers!EndedIsDated
  <2> QED BY <1>t, <1>k, <2>1, <2>2
<1>3. CASE Customers!MessageDocument(r)
  <2>1. PICK t \in Requests : t = serving[r].row /\ tickets[t].owner # Nobody
    BY <1>n, <1>3 DEF ServiceKnows, Customers!MessageDocument
  <2>2. /\ serving[r].stage = "writing" /\ messages' = messages \cup {<<t, r>>}
        /\ Customers!Advance(r, "logging")
        /\ UNCHANGED <<registered, tags, preferences, cards, tickets, activity>>
    BY <1>3, <2>1 DEF Customers!MessageDocument, Customers!people
  <2>3. Customers!EndedIsDated'
    BY <1>t, <2>2 DEF Customers!EndedIsDated
  <2> QED BY <1>t, <1>k, <2>1, <2>2, <2>3
<1>4. CASE Customers!PatchCommit(r)
  <2>1. PICK t \in Requests, h \in Service : h = serving[r] /\ t = h.row
                                             /\ h.target \in Customers!TicketStatus
    BY <1>n, <1>t, <1>4 DEF ServiceKnows, Customers!PatchCommit
  <2>2. PICK old \in Ticket : old = tickets[t]
    BY <1>t
  <2>3. PICK status, dated : /\ status = IF h.target # h.seen THEN h.target ELSE old.status
                             /\ dated = (old.dated \/ Customers!Dated(h.target))
    OBVIOUS
  <2>4. /\ h.stage = "patching" /\ Customers!Advance(r, "logging")
        /\ tickets' = [tickets EXCEPT
              ![t].status = IF h.target # h.seen THEN h.target ELSE @,
              ![t].dated = @ \/ Customers!Dated(h.target)]
        /\ UNCHANGED <<registered, tags, preferences, cards, messages, activity>>
    BY <1>4, <2>1 DEF Customers!PatchCommit, Customers!people
  <2>5. PICK x : x = [old EXCEPT !.status = status, !.dated = dated]
    OBVIOUS
  <2>6. /\ x \in Ticket /\ x.owner = old.owner /\ x.status = status /\ x.dated = dated
    BY <2>1, <2>3, <2>5 DEF Ticket, Customers!Dated
  <2>7. tickets' \in [Requests -> Ticket] /\ tickets'[t] = x
        /\ \A q \in Requests : q # t => tickets'[q] = tickets[q]
    <3>1. PICK half : half = [old EXCEPT !.status = status]
      OBVIOUS
    <3>2. half.dated = old.dated /\ x = [half EXCEPT !.dated = dated]
      BY <2>5, <3>1 DEF Ticket
    <3>3. PICK mid : mid = [tickets EXCEPT ![t] = half]
      OBVIOUS
    <3>4. mid[t] = half /\ mid = [tickets EXCEPT ![t].status = IF h.target # h.seen THEN h.target ELSE @]
      BY <1>t, <2>2, <2>3, <3>1, <3>3
    <3>5. tickets' = [mid EXCEPT ![t].dated = @ \/ Customers!Dated(h.target)]
      BY <2>4, <3>4
    <3>6. tickets' = [mid EXCEPT ![t] = x]
      BY <2>3, <3>2, <3>4, <3>5
    <3> QED BY <1>t, <2>6, <3>3, <3>6
  <2>8. Customers!EndedIsDated'
    <3>1. x.status \in Customers!Ended => x.dated
      BY <1>t, <2>2, <2>3, <2>6 DEF Customers!EndedIsDated, Customers!Dated
    <3> QED BY <1>t, <2>7, <3>1 DEF Customers!EndedIsDated
  <2> QED BY ZenonT(60), <1>t, <1>k, <2>1, <2>2, <2>4, <2>6, <2>7, <2>8
<1> QED BY <1>1, <1>2, <1>3, <1>4

LEMMA CustomerEnds ==
  ASSUME CustomersInv, NEW r \in Requests, Customers!Log(r) \/ Customers!Fail(r)
  PROVE  CustomersInv'
<1>1. CASE Customers!Fail(r)
  BY <1>1, CustomerRests DEF Customers!Fail, Customers!people, customerData, MovesOn
<1>2. CASE Customers!Log(r)
  <2>i. Customers!InFlight(r) /\ serving[r].stage = "logging"
    BY <1>2 DEF Customers!Log, Customers!InFlight, Customers!Idle
  <2>t. /\ registered \subseteq People /\ tags \in [People -> SUBSET Customers!Tags]
        /\ preferences \in [People -> {"none", "default", "chosen"}]
        /\ cards \subseteq Customers!Card /\ tickets \in [Requests -> Ticket]
        /\ messages \subseteq Requests \X Requests /\ activity \subseteq Requests \X People
        /\ serving[r].person \in People /\ serving[r].person \in registered
        /\ \A c \in cards : c.owner \in registered
        /\ \A t \in Requests : tickets[t].owner # Nobody => tickets[t].owner \in registered
        /\ \A p \in People \ registered : preferences[p] = "none"
        /\ \A a \in activity : a[2] \in registered
        /\ Customers!EndedIsDated
    BY <2>i, CustomerFacts
  <2>1. PICK p \in People : p = serving[r].person
    BY <2>t
  <2>2. /\ activity' = activity \cup {<<r, p>>} /\ MovesOn(r, "done")
        /\ UNCHANGED <<registered, tags, preferences, cards, tickets, messages>>
    BY <1>2, <2>1 DEF Customers!Log, Customers!people, MovesOn
  <2>3. Customers!EndedIsDated'
    BY <2>2, <2>t DEF Customers!EndedIsDated
  <2>4. \A q \in registered' : preferences'[q] = "none" =>
             \/ "done" = "failed"
             \/ "done" = "registered" /\ q = serving[r].person
             \/ /\ q \in registered /\ preferences[q] = "none"
                /\ ~(serving[r].stage = "registered" /\ serving[r].person = q)
    BY <2>2, <2>i
  <2>5. \A t \in Requests : tickets'[t].owner # Nobody /\ <<t, t>> \notin messages' =>
             \/ t = r /\ "done" \in {"opened", "failed"}
             \/ /\ tickets[t].owner # Nobody /\ <<t, t>> \notin messages
                /\ t = r => serving[r].stage # "opened"
    BY <2>2, <2>i
  <2>6. \A t \in Requests : (tickets'[t].owner # Nobody \/ \E c \in cards' : c.id = t) =>
             \/ t = r /\ "done" \in {"opened", "logging", "failed"}
             \/ t = r /\ \E q \in People : <<r, q>> \in activity'
             \/ /\ tickets[t].owner # Nobody \/ \E c \in cards : c.id = t
                /\ t = r => serving[r].stage \notin {"opened", "logging"}
    BY <2>1, <2>2
  <2>7. /\ registered' \subseteq People /\ registered \subseteq registered'
        /\ tags' \in [People -> SUBSET Customers!Tags]
        /\ preferences' \in [People -> {"none", "default", "chosen"}]
        /\ cards' \subseteq Customers!Card /\ tickets' \in [Requests -> Ticket]
        /\ messages' \subseteq Requests \X Requests /\ activity' \subseteq Requests \X People
        /\ \A t \in Requests : tickets[t].owner # Nobody => tickets'[t].owner # Nobody
        /\ \A c \in cards' : c.owner \in registered'
        /\ \A t \in Requests : tickets'[t].owner # Nobody => tickets'[t].owner \in registered'
        /\ \A q \in People \ registered' : preferences'[q] = "none"
        /\ \A m \in messages' : m \in messages \/ tickets'[m[1]].owner # Nobody
        /\ activity \subseteq activity' /\ \A a \in activity' : a[2] \in registered'
    BY <2>1, <2>2, <2>t
  <2> QED BY <2>i, <2>2, <2>3, <2>4, <2>5, <2>6, <2>7, CustomerSteps
<1> QED BY <1>1, <1>2

(* Handlers that start: what they read is so as they read it.                  *)
LEMMA CustomerStarts ==
  ASSUME CustomersInv, NEW r \in Requests,
         \/ \E p \in People :
               \/ \E spelling \in {"lower", "other"} : Customers!RegisterCheck(r, p, spelling)
               \/ \E kind \in Customers!Kinds, default \in BOOLEAN :
                      Customers!CreateCard(r, p, kind, default)
               \/ \E given \in (SUBSET Customers!Tags) \ {{}}, on \in BOOLEAN :
                      Customers!TagCustomer(r, p, given, on)
               \/ Customers!Visit(r, p) \/ Customers!ChoosePreferences(r, p)
               \/ Customers!OpenTicket(r, p)
         \/ \E c \in cards : \/ Customers!DeleteCard(r, c)
                             \/ \E default \in BOOLEAN : Customers!UpdateAddress(r, c, default)
         \/ \E t \in Requests : \/ Customers!WriteMessage(r, t)
                                \/ \E status \in Customers!TicketStatus :
                                       Customers!PatchTicket(r, t, status)
  PROVE  CustomersInv'
<1>t. /\ registered \subseteq People /\ tags \in [People -> SUBSET Customers!Tags]
      /\ cards \subseteq Customers!Card /\ tickets \in [Requests -> Ticket]
      /\ \A c \in cards : c.owner \in registered
      /\ \A t \in Requests : tickets[t].owner # Nobody => tickets[t].owner \in registered
  BY CustomerTypes DEF CustomersInv, OwnersKnown
<1>d. \A p \in People, kind \in Customers!Kinds : Customers!Defaults(p, kind) \in SUBSET Requests
  BY <1>t DEF Customers!Defaults, Customers!Card
<1>0. PICK new \in Service : new = Customers!NoService /\ new.stage = "new"
  BY NobodyServed
<1>1. ASSUME NEW p \in People, NEW spelling \in {"lower", "other"},
             Customers!RegisterCheck(r, p, spelling)
      PROVE  CustomersInv'
  <2>1. PICK h : h = [new EXCEPT !.stage = "registering", !.person = p]
    OBVIOUS
  <2>2. h \in Service /\ h.stage = "registering" /\ h.person = p
    BY <2>1 DEF Service, Customers!Stage
  <2>3. Customers!Begin(r, h) /\ UNCHANGED customerData
    BY <1>0, <1>1, <2>1 DEF Customers!RegisterCheck, Customers!people, customerData
  <2>4. ServiceKnows(h) /\ AloneKnows(h)
    BY <2>2 DEF ServiceKnows, AloneKnows
  <2> QED BY <2>2, <2>3, <2>4, CustomerBegins
<1>2. ASSUME NEW p \in registered, NEW stage \in {"logging", "preferring", "opening"},
             Customers!Begin(r, [Customers!NoService EXCEPT !.stage = stage, !.person = p]),
             UNCHANGED customerData
      PROVE  CustomersInv'
  <2>1. PICK h : h = [new EXCEPT !.stage = stage, !.person = p]
    OBVIOUS
  <2>2. h \in Service /\ h.stage = stage /\ h.person = p
    BY <1>t, <2>1 DEF Service, Customers!Stage
  <2>3. Customers!Begin(r, h)
    BY <1>0, <1>2, <2>1
  <2>4. ServiceKnows(h) /\ AloneKnows(h)
    BY <1>t, <2>2 DEF ServiceKnows, AloneKnows
  <2> QED BY <1>2, <2>2, <2>3, <2>4, CustomerBegins
<1>3. ASSUME NEW p \in People, Customers!Visit(r, p) \/ Customers!ChoosePreferences(r, p)
                                   \/ Customers!OpenTicket(r, p)
      PROVE  CustomersInv'
  BY <1>2, <1>3 DEF Customers!Visit, Customers!ChoosePreferences, Customers!OpenTicket,
     Customers!people, customerData
<1>4. ASSUME NEW p \in People, NEW given \in (SUBSET Customers!Tags) \ {{}}, NEW on \in BOOLEAN,
             Customers!TagCustomer(r, p, given, on)
      PROVE  CustomersInv'
  <2>1. PICK turned \in SUBSET Customers!Tags :
            turned = IF on THEN given \ tags[p] ELSE given \cap tags[p]
    BY <1>t
  <2>2. PICK h : h = [new EXCEPT !.stage = "tagging", !.person = p, !.default = on,
                                 !.given = given, !.turned = turned]
    OBVIOUS
  <2>3. /\ h \in Service /\ h.stage = "tagging" /\ h.person = p /\ h.default = on
        /\ h.given = given /\ h.turned = turned
    BY <2>2 DEF Service, Customers!Stage
  <2>4. Customers!Begin(r, h) /\ UNCHANGED customerData /\ p \in registered
    BY <1>0, <1>4, <2>1, <2>2 DEF Customers!TagCustomer, Customers!people, customerData
  <2>5. ServiceKnows(h) /\ AloneKnows(h)
    BY <2>1, <2>3, <2>4 DEF ServiceKnows, AloneKnows
  <2> QED BY <2>3, <2>4, <2>5, CustomerBegins
<1>5. ASSUME NEW p \in registered, NEW row \in Requests, NEW kind \in Customers!Kinds,
             NEW default \in BOOLEAN, NEW clear \in SUBSET Requests,
             default => clear = Customers!Defaults(p, kind), NEW h,
             h = [new EXCEPT !.stage = "storing", !.person = p, !.row = row, !.kind = kind,
                             !.default = default, !.clear = clear],
             Customers!Begin(r, h), UNCHANGED customerData
      PROVE  CustomersInv'
  <2>1. /\ h \in Service /\ h.stage = "storing" /\ h.person = p /\ h.row = row
        /\ h.kind = kind /\ h.default = default /\ h.clear = clear
    BY <1>t, <1>5 DEF Service, Customers!Stage
  <2>2. ServiceKnows(h) /\ AloneKnows(h)
    BY <1>t, <1>5, <2>1 DEF ServiceKnows, AloneKnows
  <2> QED BY <1>5, <2>1, <2>2, CustomerBegins
<1>6. ASSUME NEW p \in People, NEW kind \in Customers!Kinds, NEW default \in BOOLEAN,
             Customers!CreateCard(r, p, kind, default)
      PROVE  CustomersInv'
  <2>1. PICK clear \in SUBSET Requests :
            clear = IF default THEN Customers!Defaults(p, kind) ELSE {}
    BY <1>d
  <2>2. PICK h : h = [new EXCEPT !.stage = "storing", !.person = p, !.row = r, !.kind = kind,
                                 !.default = default, !.clear = clear]
    OBVIOUS
  <2>3. Customers!Begin(r, h) /\ UNCHANGED customerData /\ p \in registered
    BY <1>0, <1>6, <2>1, <2>2 DEF Customers!CreateCard, Customers!people, customerData
  <2> QED BY <1>5, <2>1, <2>2, <2>3
<1>7. ASSUME NEW c \in cards, NEW default \in BOOLEAN, Customers!UpdateAddress(r, c, default)
      PROVE  CustomersInv'
  <2>1. PICK p \in registered, row \in Requests : p = c.owner /\ row = c.id
    BY <1>t DEF Customers!Card
  <2>2. PICK clear \in SUBSET Requests :
            clear = IF default THEN Customers!Defaults(p, "address")
                    ELSE IF c.default THEN {row} ELSE {}
    <3>1. Customers!Defaults(p, "address") \in SUBSET Requests
      BY <1>t, <1>d DEF Customers!Kinds
    <3> QED BY <3>1
  <2>3. PICK h : h = [new EXCEPT !.stage = "storing", !.person = p, !.row = row,
                                 !.default = default, !.clear = clear]
    OBVIOUS
  <2>4. Customers!Begin(r, h) /\ UNCHANGED customerData
    BY <1>0, <1>7, <2>1, <2>2, <2>3 DEF Customers!UpdateAddress, Customers!people, customerData
  <2>5. /\ h \in Service /\ h.stage = "storing" /\ h.person = p /\ h.row = row
        /\ h.kind = "address" /\ h.default = default /\ h.clear = clear
    <3>1. new.kind = "address"
      BY <1>0 DEF Customers!NoService
    <3> QED BY <1>t, <2>3, <3>1 DEF Service, Customers!Stage
  <2>6. ServiceKnows(h) /\ AloneKnows(h)
    BY <1>t, <2>2, <2>5 DEF ServiceKnows, AloneKnows
  <2> QED BY <2>4, <2>5, <2>6, CustomerBegins
<1>8. ASSUME NEW p \in registered, NEW row \in Requests, NEW stage \in {"deleting", "writing"},
             stage = "writing" => tickets[row].owner # Nobody, NEW h,
             h = [new EXCEPT !.stage = stage, !.person = p, !.row = row],
             Customers!Begin(r, h), UNCHANGED customerData
      PROVE  CustomersInv'
  <2>1. h \in Service /\ h.stage = stage /\ h.person = p /\ h.row = row
    BY <1>t, <1>8 DEF Service, Customers!Stage
  <2>2. ServiceKnows(h) /\ AloneKnows(h)
    BY <1>t, <1>8, <2>1 DEF ServiceKnows, AloneKnows
  <2> QED BY <1>8, <2>1, <2>2, CustomerBegins
<1>9. ASSUME NEW c \in cards, Customers!DeleteCard(r, c) PROVE CustomersInv'
  <2>1. PICK p \in registered, row \in Requests : p = c.owner /\ row = c.id
    BY <1>t DEF Customers!Card
  <2>2. PICK h : h = [new EXCEPT !.stage = "deleting", !.person = p, !.row = row]
    OBVIOUS
  <2>3. Customers!Begin(r, h) /\ UNCHANGED customerData
    BY <1>0, <1>9, <2>1, <2>2 DEF Customers!DeleteCard, Customers!people, customerData
  <2> QED BY <1>8, <2>2, <2>3
<1>10. ASSUME NEW t \in Requests, Customers!WriteMessage(r, t) PROVE CustomersInv'
  <2>1. PICK p \in registered : p = tickets[t].owner /\ p # Nobody
    BY <1>t, <1>10 DEF Customers!WriteMessage
  <2>2. PICK h : h = [new EXCEPT !.stage = "writing", !.person = p, !.row = t]
    OBVIOUS
  <2>3. Customers!Begin(r, h) /\ UNCHANGED customerData
    BY <1>0, <1>10, <2>1, <2>2 DEF Customers!WriteMessage, Customers!people, customerData
  <2> QED BY <1>8, <2>1, <2>2, <2>3
<1>11. ASSUME NEW t \in Requests, NEW status \in Customers!TicketStatus,
              Customers!PatchTicket(r, t, status)
       PROVE  CustomersInv'
  <2>1. PICK p \in registered, seen \in Customers!TicketStatus :
            p = tickets[t].owner /\ p # Nobody /\ seen = tickets[t].status
    BY <1>t, <1>11 DEF Customers!PatchTicket, Ticket
  <2>2. PICK h : h = [new EXCEPT !.stage = "patching", !.row = t, !.person = p,
                                 !.seen = seen, !.target = status]
    OBVIOUS
  <2>3. /\ h \in Service /\ h.stage = "patching" /\ h.person = p /\ h.row = t
        /\ h.target = status
    BY <1>t, <2>2 DEF Service, Customers!Stage
  <2>4. Customers!Begin(r, h) /\ UNCHANGED customerData
    BY <1>0, <1>11, <2>1, <2>2 DEF Customers!PatchTicket, Customers!people, customerData
  <2>5. ServiceKnows(h) /\ AloneKnows(h)
    BY <1>t, <2>3 DEF ServiceKnows, AloneKnows
  <2> QED BY <2>3, <2>4, <2>5, CustomerBegins
<1> QED BY <1>1, <1>3, <1>4, <1>6, <1>7, <1>9, <1>10, <1>11

LEMMA CustomersStep == CustomersInv /\ [Customers!Next]_Customers!vars => CustomersInv'
<1> SUFFICES ASSUME CustomersInv, [Customers!Next]_Customers!vars PROVE CustomersInv'
  OBVIOUS
<1>1. CASE UNCHANGED Customers!vars
  <2>1. UNCHANGED <<registered, tags, preferences, cards, tickets, messages, activity, serving,
                    alone>>
    BY <1>1 DEF Customers!vars
  <2>2. Customers!TypeOK' /\ Customers!DocumentsFollowRows' /\ Customers!EndedIsDated'
    BY <2>1 DEF CustomersInv, Customers!TypeOK, Customers!DocumentsFollowRows,
       Customers!EndedIsDated
  <2>3. OwnersKnown' /\ AloneIsAlone'
    BY <2>1 DEF CustomersInv, OwnersKnown, AloneIsAlone, Customers!InFlight
  <2>4. \A q \in Requests : ServiceKnows(serving[q])'
    BY <2>1 DEF CustomersInv, ServiceKnows
  <2>5. \A q \in Requests : alone'[q] => AloneKnows(serving[q])'
    BY <2>1 DEF CustomersInv, AloneKnows, Customers!Defaults
  <2> QED BY <2>2, <2>3, <2>4, <2>5 DEF CustomersInv
<1>2. CASE Customers!Next
  BY <1>2, RegistrationSteps, CardSteps, TicketSteps, CustomerEnds, CustomerStarts
     DEF Customers!Next
<1> QED BY <1>1, <1>2

(* A step is one of one request, and what it does not name it leaves alone.    *)
ServedBy(q) ==
    \/ \E h : Customers!Begin(q, h)
    \/ \E stage : Customers!Advance(q, stage)
    \/ \E final : Customers!Finish(q, final)

LEMMA OthersRest ==
  ASSUME CustomersInv, NEW q \in Requests, ServedBy(q), NEW r \in Requests, r # q
  PROVE  serving'[r] = serving[r]
<1>t. serving \in [Requests -> Service]
  BY CustomerTypes DEF CustomersInv
<1>1. \A h : Customers!Begin(q, h) => serving'[r] = serving[r]
  BY <1>t DEF Customers!Begin
<1>2. \A stage : Customers!Advance(q, stage) => serving'[r] = serving[r]
  BY <1>t DEF Customers!Advance
<1>3. \A final : Customers!Finish(q, final) => serving'[r] = serving[r]
  BY <1>t DEF Customers!Finish
<1> QED BY <1>1, <1>2, <1>3 DEF ServedBy

(* What a step does to a handler that stores or tags, and to preferences.      *)
LEMMA StepsOfOne ==
  ASSUME CustomersInv, Customers!Next, NEW r \in Requests, serving'[r].stage = "logging"
  PROVE  /\ serving[r].stage = "storing" => Customers!StoreCommit(r)
         /\ serving[r].stage = "tagging" => Customers!TagCommit(r)
<1> SUFFICES ASSUME serving[r].stage \in {"storing", "tagging"}
             PROVE  \/ serving[r].stage = "storing" /\ Customers!StoreCommit(r)
                    \/ serving[r].stage = "tagging" /\ Customers!TagCommit(r)
  OBVIOUS
<1>1. ASSUME NEW q \in Requests, ServedBy(q) PROVE q = r
  BY <1>1, OthersRest
<1>2. \A h : ~Customers!Begin(r, h)
  BY DEF Customers!Begin
<1>3. \A final \in {"done", "failed"} : ~Customers!Finish(r, final)
  <2> SUFFICES ASSUME NEW final \in {"done", "failed"}, Customers!Finish(r, final) PROVE FALSE
    OBVIOUS
  <2>1. MovesOn(r, final) /\ Customers!InFlight(r)
    BY DEF MovesOn, Customers!InFlight, Customers!Idle
  <2>2. serving'[r].stage = final
    BY <2>1, CustomerMoves
  <2> QED BY <2>2
<1>4. PICK q \in Requests :
        \/ \E p \in People :
               \/ \E spelling \in {"lower", "other"} : Customers!RegisterCheck(q, p, spelling)
               \/ \E kind \in Customers!Kinds, default \in BOOLEAN :
                      Customers!CreateCard(q, p, kind, default)
               \/ \E given \in (SUBSET Customers!Tags) \ {{}}, on \in BOOLEAN :
                      Customers!TagCustomer(q, p, given, on)
               \/ Customers!Visit(q, p) \/ Customers!ChoosePreferences(q, p)
               \/ Customers!OpenTicket(q, p)
        \/ \E c \in cards : \/ Customers!DeleteCard(q, c)
                            \/ \E default \in BOOLEAN : Customers!UpdateAddress(q, c, default)
        \/ \E t \in Requests : \/ Customers!WriteMessage(q, t)
                               \/ \E status \in Customers!TicketStatus :
                                      Customers!PatchTicket(q, t, status)
        \/ Customers!RegisterCommit(q) \/ Customers!RegisterDocument(q)
        \/ Customers!ChosenDocument(q) \/ Customers!TagCommit(q)
        \/ Customers!StoreCommit(q) \/ Customers!DeleteCommit(q)
        \/ Customers!OpenCommit(q) \/ Customers!OpenDocument(q)
        \/ Customers!MessageDocument(q) \/ Customers!PatchCommit(q)
        \/ Customers!Log(q) \/ Customers!Fail(q)
  BY DEF Customers!Next
<1>5. \/ \E h : Customers!Begin(q, h)
      \/ Customers!RegisterCommit(q) \/ Customers!RegisterDocument(q)
      \/ Customers!ChosenDocument(q) \/ Customers!TagCommit(q)
      \/ Customers!StoreCommit(q) \/ Customers!DeleteCommit(q)
      \/ Customers!OpenCommit(q) \/ Customers!OpenDocument(q)
      \/ Customers!MessageDocument(q) \/ Customers!PatchCommit(q)
      \/ Customers!Log(q) \/ Customers!Fail(q)
  BY <1>4, Zenon DEF Customers!RegisterCheck, Customers!CreateCard, Customers!TagCustomer,
     Customers!Visit, Customers!ChoosePreferences, Customers!OpenTicket, Customers!DeleteCard,
     Customers!UpdateAddress, Customers!WriteMessage, Customers!PatchTicket
<1>6. ServedBy(q)
  BY <1>5, Zenon DEF ServedBy, Customers!RegisterCommit, Customers!RegisterDocument,
     Customers!ChosenDocument, Customers!TagCommit, Customers!StoreCommit,
     Customers!DeleteCommit, Customers!OpenCommit, Customers!OpenDocument,
     Customers!MessageDocument, Customers!PatchCommit, Customers!Log, Customers!Fail
<1>7. q = r
  BY <1>1, <1>6
<1>8. ~Customers!Log(r) /\ ~Customers!Fail(r)
  BY <1>3 DEF Customers!Log, Customers!Fail
<1> QED BY <1>2, <1>5, <1>7, <1>8 DEF Customers!RegisterCommit, Customers!RegisterDocument,
     Customers!ChosenDocument, Customers!TagCommit, Customers!StoreCommit,
     Customers!DeleteCommit, Customers!OpenCommit, Customers!OpenDocument,
     Customers!MessageDocument, Customers!PatchCommit

LEMMA ChosenStays ==
  ASSUME CustomersInv, Customers!Next, NEW p \in People, preferences[p] = "chosen"
  PROVE  preferences'[p] = "chosen"
<1>t. preferences \in [People -> {"none", "default", "chosen"}]
  BY CustomerTypes DEF CustomersInv
<1>1. ASSUME NEW r \in Requests, Customers!RegisterDocument(r) PROVE preferences'[p] = "chosen"
  BY <1>t, <1>1 DEF Customers!RegisterDocument
<1>2. ASSUME NEW r \in Requests, Customers!ChosenDocument(r) PROVE preferences'[p] = "chosen"
  BY <1>t, <1>2 DEF Customers!ChosenDocument
<1>3. ASSUME UNCHANGED preferences PROVE preferences'[p] = "chosen"
  BY <1>3
<1> QED BY ZenonT(60), <1>1, <1>2, <1>3 DEF Customers!Next, Customers!RegisterCheck, Customers!CreateCard,
     Customers!TagCustomer, Customers!Visit, Customers!ChoosePreferences, Customers!OpenTicket,
     Customers!DeleteCard, Customers!UpdateAddress, Customers!WriteMessage,
     Customers!PatchTicket, Customers!RegisterCommit, Customers!TagCommit,
     Customers!StoreCommit, Customers!DeleteCommit, Customers!OpenCommit,
     Customers!OpenDocument, Customers!MessageDocument, Customers!PatchCommit, Customers!Log,
     Customers!Fail, Customers!people

LEMMA ChosenFacts ==
  ASSUME NEW some \in SUBSET Customers!Card, NEW p, NEW kind
  PROVE  \A x : x \in {c.id : c \in {d \in some : <<d.owner, d.kind, d.default>>
                                                      = <<p, kind, TRUE>>}}
                <=> \E d \in some : d.id = x /\ d.owner = p /\ d.kind = kind /\ d.default
<1>1. \A d \in some : d.default \in BOOLEAN
  BY DEF Customers!Card
<1>2. \A d \in some : <<d.owner, d.kind, d.default>> = <<p, kind, TRUE>>
                          <=> d.owner = p /\ d.kind = kind /\ d.default = TRUE
  OBVIOUS
<1>3. \A d \in some : d.default = TRUE <=> d.default
  BY <1>1
<1> QED BY <1>2, <1>3

(* A lone request that stores a row as the default leaves no other one.        *)
LEMMA DefaultWins ==
  ASSUME CustomersInv, CustomersInv', NEW r \in Requests, Customers!StoreCommit(r), alone[r],
         serving'[r].stage = "logging",
         NEW p \in People, NEW kind \in Customers!Kinds, NEW id \in Requests,
         serving[r].person = p, serving[r].kind = kind, serving[r].row = id
  PROVE  IF serving[r].default THEN Customers!Chosen(p, kind)' = {id}
         ELSE Customers!Chosen(p, kind)' \subseteq Customers!Chosen(p, kind)
<1>t. /\ cards \in SUBSET Customers!Card /\ cards' \in SUBSET Customers!Card
      /\ serving[r] \in Service
  BY CustomerTypes DEF CustomersInv, Customers!TypeOK
<1>1. PICK h \in Service : h = serving[r] /\ h.person = p /\ h.kind = kind /\ h.row = id
  BY <1>t
<1> DEFINE row == [id |-> id, owner |-> p, kind |-> kind, default |-> h.default]
<1>2. /\ h.stage = "storing"
      /\ \/ Customers!Finish(r, "failed")
         \/ /\ id = r \/ (id # r /\ (h.default \/ h.clear # {}))
            /\ cards' = {c \in Customers!Cleared(cards, h.clear) : c.id # id} \cup {row}
         \/ ~h.default /\ cards' = cards
  BY <1>1 DEF Customers!StoreCommit
<1>3. ~Customers!Finish(r, "failed")
  <2>1. ASSUME Customers!Finish(r, "failed") PROVE FALSE
    <3>1. MovesOn(r, "failed") /\ Customers!InFlight(r)
      BY <1>1, <1>2, <2>1 DEF MovesOn, Customers!InFlight, Customers!Idle
    <3> QED BY <3>1, CustomerMoves
  <2> QED BY <2>1
<1>4. \A x : x \in Customers!Chosen(p, kind)' <=>
          \E d \in cards' : d.id = x /\ d.owner = p /\ d.kind = kind /\ d.default
  <2>1. PICK new \in SUBSET Customers!Card : new = cards'
    BY <1>t
  <2> QED BY <2>1, ChosenFacts DEF Customers!Chosen
<1>5. \A x : x \in Customers!Chosen(p, kind) <=>
          \E d \in cards : d.id = x /\ d.owner = p /\ d.kind = kind /\ d.default
  <2>1. PICK old \in SUBSET Customers!Card : old = cards
    BY <1>t
  <2> QED BY <2>1, ChosenFacts DEF Customers!Chosen
<1>6. CASE ~h.default /\ cards' = cards
  BY <1>1, <1>4, <1>5, <1>6
<1>7. CASE cards' = {c \in Customers!Cleared(cards, h.clear) : c.id # id} \cup {row}
  <2>1. \A c \in Customers!Cleared(cards, h.clear) : \E d \in cards :
            /\ d.id = c.id /\ d.owner = c.owner /\ d.kind = c.kind
            /\ c.default => d.default /\ d.id \notin h.clear
    BY <1>t, ClearedFacts
  <2>2. /\ row \in cards' /\ row.id = id /\ row.owner = p /\ row.kind = kind
        /\ row.default = h.default
    BY <1>7
  <2>3. \A c \in cards' : c = row \/ c \in Customers!Cleared(cards, h.clear)
    BY <1>7
  <2> HIDE DEF row
  <2>4. CASE h.default
    <3>1. h.clear = Customers!Defaults(p, kind)
      BY <1>1, <1>2, <2>4 DEF CustomersInv, AloneKnows
    <3>2. ASSUME NEW d \in cards, d.owner = p, d.kind = kind, d.default
          PROVE  d.id \in h.clear
      BY <3>1, <3>2 DEF Customers!Defaults
    <3>3. \A x : x \in Customers!Chosen(p, kind)' => x = id
      BY <1>4, <2>1, <2>2, <2>3, <3>2
    <3>4. id \in Customers!Chosen(p, kind)'
      BY <1>4, <2>2, <2>4
    <3>5. Customers!Chosen(p, kind)' = {id}
      BY <3>3, <3>4
    <3> QED BY <1>1, <2>4, <3>5
  <2>5. CASE ~h.default
    <3>1. \A x : x \in Customers!Chosen(p, kind)'
                     => x \in Customers!Chosen(p, kind)
      BY <1>4, <1>5, <2>1, <2>2, <2>3, <2>5
    <3> QED BY <1>1, <2>5, <3>1
  <2> QED BY <2>4, <2>5
<1> QED BY <1>2, <1>3, <1>6, <1>7

(* A lone patch of the tags sets what it was given.                            *)
LEMMA TagsStick ==
  ASSUME CustomersInv, NEW r \in Requests, Customers!TagCommit(r), alone[r]
  PROVE  tags'[serving[r].person] =
             IF serving[r].default THEN tags[serving[r].person] \cup serving[r].given
             ELSE tags[serving[r].person] \ serving[r].given
<1>1. PICK h \in Service, p \in People : h = serving[r] /\ p = h.person
  <2>1. Customers!InFlight(r)
    BY DEF Customers!TagCommit, Customers!InFlight, Customers!Idle
  <2> QED BY <2>1, CustomerFacts
<1>2. h.turned = IF h.default THEN h.given \ tags[p] ELSE h.given \cap tags[p]
  BY <1>1 DEF CustomersInv, AloneKnows, Customers!TagCommit
<1>3. tags \in [People -> SUBSET Customers!Tags]
  BY CustomerTypes DEF CustomersInv
<1>4. tags'[p] = IF h.default THEN tags[p] \cup h.turned ELSE tags[p] \ h.turned
  BY <1>1, <1>3 DEF Customers!TagCommit
<1> QED BY <1>1, <1>2, <1>4

LEMMA CustomersAlone == [BackOfficeNext]_backOfficeVars => [Customers!Next]_Customers!vars
BY DEF BackOfficeNext, backOfficeVars, customersVars, Customers!vars

(* However requests to customer_service overlap and die, MongoDB follows PostgreSQL and ended  *)
(* tickets are dated; a lone request that makes an address or a payment method the default      *)
(* leaves that one only, a lone patch of the tags sets just those it was given, and preferences   *)
(* that a customer chose are never replaced (customers.py).                                        *)
THEOREM CustomersStaySound == BackOfficeSpec => CustomersAreSound
<1>1. BackOfficeInit => CustomersInv
  BY CustomersStart DEF BackOfficeInit
<1>2. CustomersInv /\ [BackOfficeNext]_backOfficeVars => CustomersInv'
  BY CustomersAlone, CustomersStep
<1>3. CustomersInv =>
          Customers!TypeOK /\ Customers!DocumentsFollowRows /\ Customers!EndedIsDated
  BY DEF CustomersInv
<1>4. CustomersInv /\ CustomersInv' /\ [BackOfficeNext]_backOfficeVars =>
          [\A r, row \in Requests, p \in People, kind \in Customers!Kinds :
              (/\ serving[r].stage = "storing" /\ serving'[r].stage = "logging" /\ alone[r]
               /\ serving[r].person = p /\ serving[r].kind = kind /\ serving[r].row = row) =>
                  IF serving[r].default THEN Customers!Chosen(p, kind)' = {row}
                  ELSE Customers!Chosen(p, kind)'
                           \subseteq Customers!Chosen(p, kind)]_Customers!vars
  <2> SUFFICES ASSUME CustomersInv, CustomersInv', Customers!Next, NEW r \in Requests,
                      NEW row \in Requests, NEW p \in People, NEW kind \in Customers!Kinds,
                      serving[r].stage = "storing", serving'[r].stage = "logging", alone[r],
                      serving[r].person = p, serving[r].kind = kind, serving[r].row = row
               PROVE  IF serving[r].default THEN Customers!Chosen(p, kind)' = {row}
                      ELSE Customers!Chosen(p, kind)' \subseteq Customers!Chosen(p, kind)
    BY CustomersAlone
  <2>1. Customers!StoreCommit(r)
    BY StepsOfOne
  <2> QED BY <2>1, DefaultWins
<1>5. CustomersInv /\ [BackOfficeNext]_backOfficeVars =>
          [/\ \A p \in People : preferences[p] = "chosen" => preferences'[p] = "chosen"
           /\ \A r \in Requests, p \in People :
                  (/\ serving[r].stage = "tagging" /\ serving'[r].stage = "logging" /\ alone[r]
                   /\ serving[r].person = p) =>
                      LET given == serving[r].given IN
                      tags'[p] = IF serving[r].default THEN tags[p] \cup given
                                 ELSE tags[p] \ given]_Customers!vars
  <2> SUFFICES ASSUME CustomersInv, Customers!Next
               PROVE  /\ \A p \in People : preferences[p] = "chosen" => preferences'[p] = "chosen"
                      /\ \A r \in Requests :
                            serving[r].stage = "tagging" /\ serving'[r].stage = "logging" /\ alone[r]
                            => tags'[serving[r].person] =
                                 IF serving[r].default
                                 THEN tags[serving[r].person] \cup serving[r].given
                                 ELSE tags[serving[r].person] \ serving[r].given
    BY CustomersAlone
  <2> QED BY ChosenStays, StepsOfOne, TagsStick
<1> QED BY <1>1, <1>2, <1>3, <1>4, <1>5, PTL
        DEF BackOfficeSpec, CustomersAreSound, Customers!LoneDefaultWins, Customers!ChoicesStick
=============================================================================
