--------------------------- MODULE MCSnapshotReads ---------------------------
(***************************************************************************)
(* A fact table whose columns change names, and a table to divide by.      *)
(* A snapshot tagged day 3 is on the edge of the window of the first       *)
(* figure's date and one day outside that of the second's, one tagged day  *)
(* 4 the other way round.  Two formulas share a key: their predicates      *)
(* differ in case.  In the instance about renames one formula reads the    *)
(* column `amount', and no other shares its key.                           *)
(***************************************************************************)
EXTENDS SnapshotReads, TLC

CONSTANTS loans, rates, amount, usd, ratio, retail, RETAIL, ratioKey, retailKey

MCTables == {loans, rates}
MCAsOfs == {3, 4}
MCDates == {0, 7}
MCFields == 1..2
MCColumnNames == {amount, usd}
MCFirstSchema ==
    [t \in MCTables |-> [f \in MCFields |-> IF f = 1 THEN amount ELSE NoColumn]]
MCMaxSchemas == [t \in MCTables |-> IF t = loans THEN 3 ELSE 1]
MCQueries == {ratio, retail, RETAIL}
Term(t, c) == [table |-> t, column |-> c]
MCTerms ==
    [q \in MCQueries |->
        IF q = ratio THEN <<Term(loans, usd), Term(rates, amount)>>
        ELSE <<Term(loans, amount)>>]
MCKey == [q \in MCQueries |-> IF q = ratio THEN ratioKey ELSE retailKey]
MCOneQuery == {retail}
MCOneTerms == [q \in MCOneQuery |-> <<Term(loans, amount)>>]
MCOneKey == [q \in MCOneQuery |-> retailKey]
Symmetry == Permutations({retail, RETAIL})
=============================================================================
