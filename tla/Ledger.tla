------------------------------- MODULE Ledger --------------------------------
(***************************************************************************)
(* The accounting service (accounting_service): accounts with a balance    *)
(* that is kept in the row, and journal entries with their ledger lines.   *)
(* Posting an entry loads the accounts of its lines one after the other,    *)
(* adds to the balances in memory and commits.  No account row is locked    *)
(* while it is read; a balance that was changed is flushed, and its row     *)
(* locked, before the next account is looked up, and the UPDATE writes the  *)
(* balance that was computed.                                               *)
(*                                                                          *)
(* Amounts are in a unit of which a cent is a multiple: a request may name   *)
(* any decimal, the session computes with it as it is, and the columns keep  *)
(* whole cents.                                                              *)
(***************************************************************************)
EXTENDS Integers, Sequences, Functions

CONSTANTS
    Accounts,   \* account codes
    Entries,    \* bodies of POST /journal-entries: sequences of lines
    Requests,   \* HTTP requests; each is issued at most once
    Cent        \* how many units of the amounts make a cent

LineIn == [account : Accounts, debit : Nat, credit : Nat]

LedgerAssumption == Entries \subseteq Seq(LineIn) /\ Cent \in Nat \ {0}

VARIABLES
    accounts,   \* accounts[a]: the accounts row
    lines,      \* the ledger_lines rows, with the request that posted them and
                \* (history) whether it named amounts that are not whole cents
    posting,    \* posting[r]: how far the handler of request r has come
    shared      \* history: whether a handler has started beside another one

vars == <<accounts, lines, posting, shared>>

Account == [open : BOOLEAN, balance : Int]

Idle == {"new", "done", "failed"}

(* An account in the session of a request: the balance it holds in memory,   *)
(* whether the request has changed it, and whether it has flushed a change,   *)
(* which locks the row until the transaction ends.                            *)
Held == [loaded : BOOLEAN, balance : Int, dirty : BOOLEAN, locked : BOOLEAN]

NotHeld == [loaded |-> FALSE, balance |-> 0, dirty |-> FALSE, locked |-> FALSE]

NoPosting == [stage |-> "new", entry |-> << >>, next |-> 1,
              held |-> [a \in Accounts |-> NotHeld]]

TypeOK ==
    /\ accounts \in [Accounts -> Account]
    /\ lines \subseteq [by : Requests, index : Nat, account : Accounts,
                        debit : Nat, credit : Nat, rough : BOOLEAN]
    /\ posting \in [Requests -> [stage : Idle \cup {"opening", "posting"},
                                 entry : Entries \cup {<< >>}, next : Nat,
                                 held : [Accounts -> Held]]]
    /\ shared \in BOOLEAN

Init ==
    /\ accounts = [a \in Accounts |-> [open |-> FALSE, balance |-> 0]]
    /\ lines = {}
    /\ posting = [r \in Requests |-> NoPosting]
    /\ shared = FALSE

-----------------------------------------------------------------------------
Begin(r, h) ==
    /\ posting[r].stage = "new"
    /\ posting' = [posting EXCEPT ![r] = h]
    /\ shared' = (shared \/ \E q \in Requests : posting[q].stage \notin Idle)

Finish(r, final) == posting' = [posting EXCEPT ![r] = [NoPosting EXCEPT !.stage = final]]

(* create_account: 409 if the code exists, else an insert that the unique      *)
(* index refuses if the code was committed meanwhile.                          *)
OpenCheck(r, a) ==
    /\ ~accounts[a].open
    /\ Begin(r, [NoPosting EXCEPT !.stage = "opening",
                                  !.entry = << >>, !.held[a].loaded = TRUE])
    /\ UNCHANGED <<accounts, lines>>

OpenCommit(r) ==
    \E a \in Accounts :
        /\ posting[r].stage = "opening" /\ posting[r].held[a].loaded
        /\ IF accounts[a].open
           THEN Finish(r, "failed") /\ UNCHANGED accounts
           ELSE /\ accounts' = [accounts EXCEPT ![a].open = TRUE]
                /\ Finish(r, "done")
        /\ UNCHANGED <<lines, shared>>

Debits(entry) == SumFunction([i \in DOMAIN entry |-> entry[i].debit])

Credits(entry) == SumFunction([i \in DOMAIN entry |-> entry[i].credit])

(* create_journal_entry: 400 unless debits equal credits and are not zero.     *)
Balanced(entry) == Debits(entry) = Credits(entry) /\ Debits(entry) # 0

PostStart(r, entry) ==
    /\ Balanced(entry)
    /\ Begin(r, [NoPosting EXCEPT !.stage = "posting", !.entry = entry])
    /\ UNCHANGED <<accounts, lines>>

Current(r) == posting[r].entry[posting[r].next]

Moved(line) == line.debit - line.credit

(* What a column of two decimals keeps of an amount: the nearest cent, a half    *)
(* away from zero.                                                               *)
Rounded(n) ==
    LET Cents(m) == IF 2 * (m % Cent) >= Cent THEN m - (m % Cent) + Cent ELSE m - (m % Cent) IN
    IF n >= 0 THEN Cents(n) ELSE -Cents(-n)

Rough(line) == line.debit % Cent # 0 \/ line.credit % Cent # 0

(* A plausible slip: the balance is the stored one, whatever the session holds. *)
BeforeStored(held, a) == accounts[a].balance

Before(held, a) == IF held.loaded THEN held.balance ELSE accounts[a].balance

(* A flush waits for every row that another transaction has locked.            *)
CanFlush(r) ==
    \A a \in Accounts, q \in Requests \ {r} :
        posting[r].held[a].dirty => ~posting[q].held[a].locked

Flushed(held) == [a \in Accounts |-> [held[a] EXCEPT !.locked = held[a].dirty]]

(* One turn of the loop: the lookup flushes what has changed so far; the account *)
(* is as the session holds it, or as it is stored, and the line is added to its  *)
(* balance in memory.                                                            *)
PostLine(r) ==
    LET line == Current(r)
        held == posting[r].held[line.account]
        after == [held EXCEPT !.loaded = TRUE,
                              !.balance = Before(held, line.account) + Moved(line),
                              !.dirty = held.dirty \/ Moved(line) # 0,
                              !.locked = held.dirty] IN
    /\ posting[r].stage = "posting" /\ posting[r].next <= Len(posting[r].entry)
    /\ CanFlush(r)
    /\ accounts[line.account].open
    /\ posting' = [posting EXCEPT
          ![r].next = @ + 1,
          ![r].held = [Flushed(@) EXCEPT ![line.account] = after]]
    /\ UNCHANGED <<accounts, lines, shared>>

(* 404: the entry that was flushed is rolled back.                             *)
PostUnknownAccount(r) ==
    /\ posting[r].stage = "posting" /\ posting[r].next <= Len(posting[r].entry)
    /\ CanFlush(r)
    /\ ~accounts[Current(r).account].open
    /\ Finish(r, "done")
    /\ UNCHANGED <<accounts, lines, shared>>

Posted(r) ==
    LET entry == posting[r].entry IN
    {[by |-> r, index |-> i, account |-> entry[i].account,
      debit |-> Rounded(entry[i].debit), credit |-> Rounded(entry[i].credit),
      rough |-> Rough(entry[i])] : i \in DOMAIN entry}

PostCommit(r) ==
    /\ posting[r].stage = "posting" /\ posting[r].next > Len(posting[r].entry)
    /\ CanFlush(r)
    /\ accounts' = [a \in Accounts |->
          IF posting[r].held[a].dirty
          THEN [accounts[a] EXCEPT !.balance = Rounded(posting[r].held[a].balance)]
          ELSE accounts[a]]
    /\ lines' = lines \cup Posted(r)
    /\ Finish(r, "done")
    /\ UNCHANGED shared

(* The process dies, a statement fails, or PostgreSQL picks the transaction    *)
(* as the victim of a deadlock between flushes: everything is rolled back.     *)
Fail(r) ==
    /\ posting[r].stage \notin Idle
    /\ Finish(r, "failed")
    /\ UNCHANGED <<accounts, lines, shared>>

Next ==
    \E r \in Requests :
        \/ \E a \in Accounts : OpenCheck(r, a)
        \/ OpenCommit(r)
        \/ \E entry \in Entries : PostStart(r, entry)
        \/ PostLine(r) \/ PostUnknownAccount(r) \/ PostCommit(r)
        \/ Fail(r)

Spec == Init /\ [][Next]_vars

-----------------------------------------------------------------------------
(* Properties. *)

Sum(some) == SumFunctionOnSet([l \in some |-> l.debit - l.credit], some)

(* How far rounding may have moved some lines: a cent for each that named an       *)
(* amount which is not whole cents.                                                *)
Doubt(some) == SumFunctionOnSet([l \in some |-> IF l.rough THEN Cent ELSE 0], some)

(* A balance that follows from some lines: exactly, if all of them named whole     *)
(* cents.                                                                           *)
FollowsFrom(balance, some) == balance - Sum(some) \in (-Doubt(some))..Doubt(some)

(* However entries overlap and die, a balance is the sum of whole entries: a       *)
(* lost update drops an entry from an account, it never leaves half of one in.      *)
BalancesAreWholeEntries ==
    \A a \in Accounts : \E kept \in SUBSET Requests :
        FollowsFrom(accounts[a].balance, {l \in lines : l.account = a /\ l.by \in kept})

Opened == {a \in Accounts : accounts[a].open}

AllBalances == SumFunctionOnSet([a \in Opened |-> accounts[a].balance], Opened)

(* Until two handlers overlap, every balance is the sum of all the lines of its    *)
(* account and the balances of the accounts that exist are zero together: the       *)
(* books balance.  Entries that name amounts which are not whole cents are checked   *)
(* before they are rounded, so each line of that kind may put the books out by half  *)
(* a cent.                                                                           *)
BooksBalance ==
    ~shared =>
        /\ \A a \in Accounts : FollowsFrom(accounts[a].balance, {l \in lines : l.account = a})
        /\ 2 * AllBalances \in (-Doubt(lines))..Doubt(lines)
=============================================================================
