---------------------------- MODULE MCBackOffice -----------------------------
(* Instances of BackOffice for model checking: requests are interchangeable.  *)
EXTENDS BackOffice, Sequences, TLC

RequestSymmetry == Permutations(Requests)

Line(a, debit, credit) == [account |-> a, debit |-> debit, credit |-> credit]

(* Two accounts either way, entries that touch one account twice, entries that  *)
(* balance in half cents, an entry that does not balance.                        *)
MCEntries ==
    LET a == CHOOSE x \in Accounts : TRUE
        b == CHOOSE x \in Accounts : x # a
        c == CHOOSE x \in Accounts : x \notin {a, b} IN
    { <<Line(a, 6, 0), Line(b, 0, 6)>>,
      <<Line(b, 4, 0), Line(a, 0, 2), Line(a, 0, 2)>>,
      <<Line(a, 2, 0), Line(b, 0, 1), Line(c, 0, 1)>>,
      <<Line(b, 1, 0), Line(b, 1, 0), Line(a, 0, 2)>>,
      <<Line(a, 4, 0), Line(b, 0, 2)>> }

MCRates ==
    LET j == CHOOSE x \in Jurisdictions : TRUE IN
    { [jurisdiction |-> j, category |-> "general", percent |-> 82500, from |-> 1, to |-> 9],
      [jurisdiction |-> j, category |-> "food", percent |-> 10000, from |-> 2, to |-> 9] }

MCBaskets ==
    { <<[category |-> "general", taxable |-> 100]>>,
      <<[category |-> "food", taxable |-> 150], [category |-> "general", taxable |-> 200]>> }

MCContracts ==
    { [salary |-> 130013, hourly |-> -1], [salary |-> -1, hourly |-> 21],
      [salary |-> -1, hourly |-> -1] }
=============================================================================
