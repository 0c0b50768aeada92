--------------------------------- MODULE Tax ---------------------------------
(***************************************************************************)
(* The tax service (tax_service): the ledger of collected tax.  A checkout *)
(* has its tax calculated and recorded line by line in one transaction; a  *)
(* remittance selects the collected entries of a jurisdiction and a filing *)
(* period, and then marks the entries that it selected, whoever else may   *)
(* have selected them too.                                                 *)
(***************************************************************************)
EXTENDS Integers, Sequences, FiniteSets, Functions

CONSTANTS
    Rates,          \* the tax_rates rows; no endpoint changes them
    Jurisdictions,
    Baskets,        \* line items of POST /tax/calculate, sequences
    Days,           \* 1..Days are the days the run looks at
    Requests,       \* HTTP requests; each is issued at most once
    Nobody          \* the remittance of an entry that is not remitted

Rate == [jurisdiction : Jurisdictions, category : STRING, percent : Nat, from : Nat, to : Nat]

Item == [category : STRING, taxable : Nat]

TaxAssumption ==
    /\ \A rate \in Rates : rate \in Rate
    /\ Baskets \subseteq Seq(Item)
    /\ Days \in Nat \ {0}
    /\ Nobody \notin Requests

VARIABLES
    collected,  \* the tax_collected_ledger rows, named by request and line
    today,      \* the day, as created_at and the rate lookup see it
    filing,     \* filing[r]: how far the handler of request r has come
    reported,   \* history: reported[r], the entries a remittance reported
    shared      \* history: whether a handler has started beside another one

vars == <<collected, today, filing, reported, shared>>

Idle == {"new", "done", "failed"}

Entry == [by : Requests, index : Nat, jurisdiction : Jurisdictions, tax : Nat, day : Nat,
          remittance : Requests \cup {Nobody}]

NoFiling == [stage |-> "new", rows |-> {}]

TypeOK ==
    /\ collected \subseteq Entry
    /\ today \in 1..Days
    /\ filing \in [Requests -> [stage : Idle \cup {"recording", "remitting"},
                                rows : SUBSET Entry]]
    /\ reported \in [Requests -> SUBSET Entry]
    /\ shared \in BOOLEAN

Init ==
    /\ collected = {}
    /\ today = 1
    /\ filing = [r \in Requests |-> NoFiling]
    /\ reported = [r \in Requests |-> {}]
    /\ shared = FALSE

-----------------------------------------------------------------------------
Begin(r, stage, rows) ==
    /\ filing[r].stage = "new"
    /\ filing' = [filing EXCEPT ![r] = [stage |-> stage, rows |-> rows]]
    /\ shared' = (shared \/ \E q \in Requests : filing[q].stage \notin Idle)

Finish(r, final) == filing' = [filing EXCEPT ![r] = [NoFiling EXCEPT !.stage = final]]

(* find_active_rate: the rate in force for the category, or else the general    *)
(* one.  Two rates in force at once are an error, and so is none.               *)
InForce(j, category, day) ==
    {rate \in Rates : /\ rate.jurisdiction = j /\ rate.category = category
                      /\ rate.from <= day /\ day <= rate.to}

Applicable(j, category, day) ==
    IF InForce(j, category, day) # {} THEN InForce(j, category, day)
    ELSE InForce(j, "general", day)

(* Cents of tax on cents of goods, rounded half up; a rate is in ten-thousandths *)
(* of a percent.                                                                  *)
TaxAmount(taxable, percent) == (2 * taxable * percent + 1000000) \div 2000000

Recorded(r, j, basket) ==
    {[by |-> r, index |-> i, jurisdiction |-> j, day |-> today, remittance |-> Nobody,
      tax |-> LET rate == CHOOSE rate \in Applicable(j, basket[i].category, today) : TRUE
              IN TaxAmount(basket[i].taxable, rate.percent)] : i \in DOMAIN basket}

(* calculate_and_record_tax: every line needs its rate; created_at is the start  *)
(* of the transaction.                                                            *)
CalculateStart(r, j, basket) ==
    /\ \A i \in DOMAIN basket : Cardinality(Applicable(j, basket[i].category, today)) = 1
    /\ Begin(r, "recording", Recorded(r, j, basket))
    /\ UNCHANGED <<collected, today, reported>>

CalculateCommit(r) ==
    /\ filing[r].stage = "recording"
    /\ collected' = collected \cup filing[r].rows
    /\ Finish(r, "done")
    /\ UNCHANGED <<today, reported, shared>>

(* A plausible slip: remitted entries are selected again. *)
DueAgain(j, first, last) ==
    {e \in collected : e.jurisdiction = j /\ e.day \in first..last}

Due(j, first, last) ==
    {e \in collected : /\ e.jurisdiction = j /\ e.day \in first..last
                       /\ e.remittance = Nobody}

(* remit_tax: 404 if nothing is due.                                             *)
RemitSelect(r, j, first, last) ==
    /\ Due(j, first, last) # {}
    /\ Begin(r, "remitting", Due(j, first, last))
    /\ UNCHANGED <<collected, today, reported>>

Name(e) == <<e.by, e.index>>

Selected(r) == {Name(e) : e \in filing[r].rows}

(* The UPDATE names the selected rows and looks at nothing else.                  *)
Marked(r, e) == Name(e) \in Selected(r)

RemitCommit(r) ==
    /\ filing[r].stage = "remitting"
    /\ collected' = {IF Marked(r, e) THEN [e EXCEPT !.remittance = r] ELSE e : e \in collected}
    /\ reported' = [reported EXCEPT ![r] = filing[r].rows]
    /\ Finish(r, "done")
    /\ UNCHANGED <<today, shared>>

NewDay ==
    /\ today < Days
    /\ today' = today + 1
    /\ UNCHANGED <<collected, filing, reported, shared>>

(* The process dies or a statement fails: the transaction is rolled back.         *)
Fail(r) ==
    /\ filing[r].stage \notin Idle
    /\ Finish(r, "failed")
    /\ UNCHANGED <<collected, today, reported, shared>>

Next ==
    \/ \E r \in Requests :
           \/ \E j \in Jurisdictions, basket \in Baskets : CalculateStart(r, j, basket)
           \/ CalculateCommit(r)
           \/ \E j \in Jurisdictions, first, last \in 1..Days : RemitSelect(r, j, first, last)
           \/ RemitCommit(r)
           \/ Fail(r)
    \/ NewDay

Spec == Init /\ [][Next]_vars

-----------------------------------------------------------------------------
(* Properties. *)

Reporters(e) == {r \in Requests : \E d \in reported[r] : Name(d) = Name(e)}

(* However remittances and checkouts overlap and die, an entry is marked           *)
(* remitted exactly if some remittance reported it to the tax office, and the       *)
(* remittance it is marked with is one of those.                                    *)
RemittedIsReported ==
    \A e \in collected :
        /\ e.remittance # Nobody => e.remittance \in Reporters(e)
        /\ Reporters(e) # {} => e.remittance # Nobody

TotalTax(some) == SumFunctionOnSet([e \in some |-> e.tax], some)

(* Until two handlers overlap, no tax is remitted twice: what was reported is       *)
(* the sum of the entries that are marked.                                          *)
RemittedOnce ==
    ~shared =>
        /\ \A e \in collected : Cardinality(Reporters(e)) <= 1
        /\ \A r \in Requests :
               TotalTax(reported[r]) = TotalTax({e \in collected : e.remittance = r})
=============================================================================
