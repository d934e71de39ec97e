------------------------- MODULE MCBootstrapPipeline -------------------------
(* Four metrics, two formulas on two tables, two or three editions.          *)
EXTENDS BootstrapPipeline

Figured(names) ==
    [metric |-> 0, dim |-> NoDim, total |-> NoTotal,
     rows |-> [i \in DOMAIN names |-> [label |-> names[i], value |-> 100]]]
Breakdown(dim, parts) ==
    [metric |-> 1, dim |-> dim, total |-> 100,
     rows |-> [i \in DOMAIN parts |-> [label |-> i, value |-> parts[i]]]]
Printed(tables, garbled, asOf) ==
    [tables |-> tables, footnotes |-> <<[metric |-> 1, date |-> 0, value |-> 90]>>,
     garbled |-> garbled, asOf |-> asOf]
Simple(names, asOf) == [Printed(<<Figured(names)>>, {}, asOf) EXCEPT !.footnotes = <<>>]

\* Editions that rename: 1, 2 before; 3, 4 or 1, 3 after, or the other way round.
Plain == {<<1, 2>>, <<3, 4>>, <<1, 3>>}
Dates == {<<1, 2>>, <<2, 1>>, <<1, 1>>}
Renaming == {<<Simple(a, d[1]), Simple(b, d[2])>> : a \in Plain, b \in Plain, d \in Dates}

\* Three editions of one metric, in any order of their dates.
Three == {[r \in 1..3 |-> Simple(<<1>>, d[r])] :
            d \in {p \in [1..3 -> 1..3] : {p[r] : r \in 1..3} = 1..3}}

\* Breakdowns: one that adds up, one that does not, reprinted, illegible, with a
\* total of zero, without a date.
Right == Breakdown("region", <<60, 40>>)
Wrong == Breakdown("product", <<60, 30>>)
Broken ==
    {Printed(tables, garbled, 1) :
        tables \in {<<Right>>, <<Wrong>>, <<Right, Wrong>>, <<Wrong, Right, Wrong>>,
                    <<Right, Figured(<<2>>), Right>>},
        garbled \in {{}, {100}, {40}}}
    \cup {Printed(<<[Right EXCEPT !.total = 0]>>, {}, 1), Printed(<<Right>>, {}, NoDate)}

MCDirectories == {<<>>} \cup Renaming \cup Three \cup {<<b>> : b \in Broken}
MCMentions == {{1, 3}}
MCTableOf == [f \in Formulas |-> IF f = "e1" THEN 1 ELSE 2]
MCGroupColumns == [f \in Formulas |-> {"region"}]
MCColumns == [f \in Formulas |-> IF f = "e1" THEN {"amount"} ELSE {"amount", "fee"}]
==============================================================================
