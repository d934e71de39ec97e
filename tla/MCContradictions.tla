-------------------------- MODULE MCContradictions --------------------------
(* Four names over four words: "wholesale credit exposure", "retail credit  *)
(* exposure", the bare "credit exposure" and "net credit exposure".         *)
EXTENDS Contradictions

MCWords == {"wholesale", "retail", "net", "credit", "exposure"}
Matching == INSTANCE NameMatching WITH
    Expansion <- [w \in MCWords |-> {}],
    Stopwords <- {"net"},
    NoiseWords <- {},
    WordLength <- [w \in MCWords |->
        CASE w = "wholesale" -> 9 [] w = "exposure" -> 8
          [] w \in {"retail", "credit"} -> 6 [] OTHER -> 3]

MCNames == {<<"wholesale", "credit", "exposure">>,
            <<"retail", "credit", "exposure">>,
            <<"credit", "exposure">>, <<"net", "credit", "exposure">>}
MCSame == {p \in MCNames \X MCNames : Matching!SameMetric(p[1], p[2])}
MCAlike == {p \in MCNames \X MCNames : Matching!Similar(p[1], p[2], 85)}
MCLength == [name \in MCNames |-> Matching!Characters(name)]
MCMappingLists == {<<>>,
    <<[name |-> <<"retail", "credit", "exposure">>, resolved |-> TRUE],
      [name |-> <<"net", "credit", "exposure">>, resolved |-> TRUE]>>}
=============================================================================
