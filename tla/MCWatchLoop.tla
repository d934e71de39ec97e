----------------------------- MODULE MCWatchLoop -----------------------------
(* Two tables, a query log of at most MaxLog statements of four kinds.       *)
EXTENDS WatchLoop

Names == {"Orders", "orders", "customers", "Amount", "amount", "AMOUNT", "region",
          "REGION", "vat", "fee", "*"}
MCLower == [n \in Names |->
    CASE n = "Orders" -> "orders"
      [] n \in {"Amount", "AMOUNT"} -> "amount"
      [] n = "REGION" -> "region"
      [] OTHER -> n]
MCTableOrder == <<"Orders", "customers">>
MCSchema == [t \in {"Orders", "customers"} |->
    IF t = "Orders" THEN [c \in {"Amount", "region"} |-> IF c = "Amount" THEN "number" ELSE "string"]
    ELSE [c \in {"region"} |-> "string"]]
MCDdl == [t \in {"Orders"} |->
    [columns |-> [c \in {"AMOUNT", "REGION"} |->
        [suffix |-> "none", type |-> IF c = "AMOUNT" THEN "number" ELSE "string"]],
     keys |-> {}]]

Ref(table, column) == [table |-> table, column |-> column]
Agg(fn, columns) == [fn |-> fn, star |-> FALSE, columns |-> columns]
Star == [fn |-> "COUNT", star |-> TRUE, columns |-> <<>>]
Select(shape, from, aggs, filter, fields, joins) ==
    [shape |-> shape, select |-> TRUE, from |-> from, aggs |-> aggs, filter |-> filter,
     fields |-> fields, joins |-> joins]
Total(filter) ==
    Select("total", <<"orders">>, <<Agg("SUM", <<Ref("orders", "amount")>>)>>, filter,
           {Ref("orders", "region")}, {})
\* The same sum twice, a count, a column that does not exist, and a join.
Joined ==
    Select("joined", <<"Orders", "customers">>,
           <<Agg("SUM", <<Ref("orders", "AMOUNT")>>), Star, Agg("SUM", <<Ref("Orders", "amount")>>),
             Agg("MAX", <<Ref("orders", "amount"), Ref("orders", "fee")>>),
             Agg("COUNT_DISTINCT", <<Ref("customers", "region")>>)>>,
           "none", {Ref("customers", "region")},
           {[introduced |-> "customers", left |-> Ref("customers", "region"),
             right |-> Ref("orders", "region")]})
MCParsed == [sql \in SQL |->
    CASE sql = "total_a" -> Total("a")
      [] sql = "total_b" -> Total("b")
      [] sql = "joined" -> Joined
      [] OTHER -> [Select(NotSQL, <<>>, <<>>, "none", {}, {}) EXCEPT !.select = FALSE]]

\* One definition that is grounded, one that is not; a cell that names a column.
MCDocuments ==
    {[words |-> <<"amount", "region">>, fn |-> "SUM", filter |-> "none",
      ambiguous |-> FALSE, approved |-> TRUE, pdf |-> FALSE],
     [words |-> <<"region", "amount">>, fn |-> "SUM", filter |-> "a",
      ambiguous |-> FALSE, approved |-> FALSE, pdf |-> FALSE],
     [words |-> <<"amount">>, fn |-> "AVG", filter |-> "none",
      ambiguous |-> FALSE, approved |-> TRUE, pdf |-> TRUE],
     [words |-> <<"vat", "amount">>, fn |-> "SUM", filter |-> "none",
      ambiguous |-> FALSE, approved |-> FALSE, pdf |-> TRUE]}
MCSheets == {[fn |-> "SUM", column |-> "amount"]}

MCLogarithms == <<69, 110, 139, 161>>
MCWeights == [source_authority |-> 30, usage_frequency |-> 25,
              cross_source_agreement |-> 20, recency |-> 15]
MCInitialLogs == {Away, <<"total_a", "torn">>}
MCUnwatched == {[answered |-> TRUE, cells |-> MCSheets], [answered |-> FALSE, cells |-> {}]}

\* Every answer holds items to keep, a primary key and a metric that does not parse
\* with a column that neither table has; one holds items to drop as well.
Item(part, columns) == [part |-> part, columns |-> columns, legible |-> TRUE]
MCKept ==
    {Item("entity", {"region"}), Item("metric", {"REGION"}), Item("key", {"vat"}),
     [Item("metric", {"vat"}) EXCEPT !.legible = FALSE]}
MCAnswers ==
    {[dataset |-> "model", items |-> MCKept],
     [dataset |-> "orders",
      items |-> MCKept \cup {Item("dimension", {"vat"}), Item("metric", {"amount", "vat"})}]}
==============================================================================
