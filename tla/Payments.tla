------------------------------ MODULE Payments -------------------------------
(***************************************************************************)
(* The payment service (payment_service): transactions that are            *)
(* authorized, captured and refunded.  A handler loads the row without a   *)
(* lock, decides on what it loaded, and its UPDATE writes the figures that  *)
(* it computed and the columns that it changed.                             *)
(***************************************************************************)
EXTENDS Integers

CONSTANTS
    Transactions,   \* identities of transactions
    Amounts,        \* amounts of money that requests name, in cents
    Requests,       \* HTTP requests; each is issued at most once
    NoTransaction   \* the transaction of a request that has none

ASSUME PaymentsAssumption ==
    /\ Amounts \subseteq Nat \ {0}
    /\ NoTransaction \notin Transactions

VARIABLES
    txn,        \* txn[t]: the transactions row
    req,        \* req[r]: how far the handler of request r has come
    taken,      \* history: taken[t] is the sum of the captures committed
    returned,   \* history: returned[t] is the sum of the refunds committed
    overlapped  \* history: whether a handler has started beside another one

vars == <<txn, req, taken, returned, overlapped>>

TransactionStatus == {"absent", "authorized", "captured", "partially_refunded", "refunded"}

Transaction == [status : TransactionStatus, authorized : Nat, captured : Nat, refunded : Nat]

NoRow == [status |-> "absent", authorized |-> 0, captured |-> 0, refunded |-> 0]

Idle == {"new", "done", "failed"}

(* What a handler keeps: the row it loaded and the amount it moves.           *)
Request == [stage : Idle \cup {"capturing", "refunding"},
            of : Transactions \cup {NoTransaction}, seen : Transaction, amount : Int]

NoRequest == [stage |-> "new", of |-> NoTransaction, seen |-> NoRow, amount |-> 0]

TypeOK ==
    /\ txn \in [Transactions -> Transaction]
    /\ req \in [Requests -> Request]
    /\ taken \in [Transactions -> Nat]
    /\ returned \in [Transactions -> Int]
    /\ overlapped \in BOOLEAN

Init ==
    /\ txn = [t \in Transactions |-> NoRow]
    /\ req = [r \in Requests |-> NoRequest]
    /\ taken = [t \in Transactions |-> 0]
    /\ returned = [t \in Transactions |-> 0]
    /\ overlapped = FALSE

-----------------------------------------------------------------------------
InFlight(r) == req[r].stage \notin Idle

(* authorize_payment: one insert.                                              *)
Authorize(t, amount) ==
    /\ txn[t].status = "absent"
    /\ txn' = [txn EXCEPT ![t] = [NoRow EXCEPT !.status = "authorized",
                                               !.authorized = amount]]
    /\ UNCHANGED <<req, taken, returned, overlapped>>

Load(r, t, stage, amount) ==
    /\ req[r].stage = "new"
    /\ txn[t].status # "absent"
    /\ req' = [req EXCEPT ![r] = [stage |-> stage, of |-> t, seen |-> txn[t],
                                  amount |-> amount]]
    /\ overlapped' = (overlapped \/ \E q \in Requests : InFlight(q))
    /\ UNCHANGED <<txn, taken, returned>>

(* A plausible slip: a capture is compared with the whole authorization. *)
CapturableAgain(row) == row.authorized

Capturable(row) == row.authorized - row.captured

(* capture_payment without an amount asks for the whole authorization.         *)
CaptureRead(r, t) ==
    \E amount \in Amounts \cup {txn[t].authorized} :
        /\ txn[t].status \in {"authorized", "partially_refunded"}
        /\ amount <= Capturable(txn[t])
        /\ Load(r, t, "capturing", amount)

Refundable(row) == row.captured - row.refunded

(* refund_payment without an amount asks for all that is left.                 *)
RefundRead(r, t) ==
    \E amount \in Amounts \cup {Refundable(txn[t])} :
        /\ txn[t].status \in {"captured", "partially_refunded"}
        /\ amount <= Refundable(txn[t])
        /\ Load(r, t, "refunding", amount)

Finish(r, final) == req' = [req EXCEPT ![r] = [NoRequest EXCEPT !.stage = final]]

CaptureCommit(r) ==
    LET h == req[r] IN
    /\ h.stage = "capturing"
    /\ txn' = [txn EXCEPT ![h.of].captured = h.seen.captured + h.amount,
                          ![h.of].status = "captured"]
    /\ taken' = [taken EXCEPT ![h.of] = @ + h.amount]
    /\ Finish(r, "done")
    /\ UNCHANGED <<returned, overlapped>>

(* A plausible slip: only a refund beyond the captured amount is a full one. *)
StatusRefundedStrict(row, refunded) ==
    IF refunded > row.captured THEN "refunded" ELSE "partially_refunded"

StatusRefunded(row, refunded) ==
    IF refunded >= row.captured THEN "refunded" ELSE "partially_refunded"

RefundCommit(r) ==
    LET h == req[r]
        refunded == h.seen.refunded + h.amount
        status == StatusRefunded(h.seen, refunded) IN
    /\ h.stage = "refunding"
    /\ txn' = [txn EXCEPT
                   ![h.of].refunded = IF h.amount # 0 THEN refunded ELSE @,
                   ![h.of].status = IF status # h.seen.status THEN status ELSE @]
    /\ returned' = [returned EXCEPT ![h.of] = @ + h.amount]
    /\ Finish(r, "done")
    /\ UNCHANGED <<taken, overlapped>>

(* The process dies or the database refuses: the transaction is rolled back.   *)
Fail(r) ==
    /\ InFlight(r)
    /\ Finish(r, "failed")
    /\ UNCHANGED <<txn, taken, returned, overlapped>>

Next ==
    \/ \E t \in Transactions, amount \in Amounts : Authorize(t, amount)
    \/ \E r \in Requests :
           \/ \E t \in Transactions : CaptureRead(r, t) \/ RefundRead(r, t)
           \/ CaptureCommit(r) \/ RefundCommit(r) \/ Fail(r)

Spec == Init /\ [][Next]_vars

-----------------------------------------------------------------------------
(* Properties. *)

(* However captures and refunds overlap, the row never shows more captured, or  *)
(* more refunded, than the customer authorized, and while it shows              *)
(* "authorized" no money has moved.                                             *)
WithinAuthorization ==
    \A t \in Transactions :
        /\ txn[t].captured <= txn[t].authorized
        /\ txn[t].refunded <= txn[t].authorized
        /\ txn[t].status = "authorized" => txn[t].captured = 0 /\ txn[t].refunded = 0

(* As long as no two handlers overlapped, the row accounts for every capture and *)
(* refund ever granted, nothing is returned that was not taken, and the status    *)
(* "refunded" says exactly that all of it was.                                    *)
MoneyAccounted ==
    ~overlapped =>
        \A t \in Transactions :
            /\ txn[t].captured = taken[t]
            /\ txn[t].refunded = returned[t]
            /\ returned[t] <= taken[t]
            /\ txn[t].status = "refunded" <=> taken[t] > 0 /\ returned[t] = taken[t]
=============================================================================
