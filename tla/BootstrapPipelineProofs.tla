----------------------- MODULE BootstrapPipelineProofs -----------------------
(***************************************************************************)
(* Proofs about the bootstrap pipeline, for every directory of reports,    *)
(* any number of editions and formulas, and whatever fingerprinting and    *)
(* the validation loops return.  RunInv says what each stage has done for  *)
(* the stages after it; the verdicts then never change, so that what is    *)
(* proposed, drifted and reported can be read off them.                    *)
(***************************************************************************)
EXTENDS BootstrapPipeline, DataLemmas

Printed == UNION {Range(directory) : directory \in Directories}
Extracted == {Extraction(report) : report \in Printed}
Stages == {"ingest", "fingerprint", "drift", "propose", "emit", "report"}

RunInv ==
    /\ stage \in Stages
    /\ reports \in Seq(Printed)
    /\ extractions \in Seq(Extracted)
    /\ verdicts \in Seq(UNION {Sheets(x.figures) : x \in Extracted})
    /\ Len(extractions) <= Len(reports)
    /\ Len(verdicts) <= Len(extractions)
    /\ \A i \in 1..Len(extractions) :
          extractions[i] = Extraction(reports[i]) /\ reports[i].asOf # NoDate
    /\ \A i \in 1..Len(verdicts) : verdicts[i] \in Sheets(extractions[i].figures)
    /\ stage # "ingest" => Len(extractions) = Len(reports)
    /\ stage \notin {"ingest", "fingerprint"} => Len(verdicts) = Len(extractions)

-----------------------------------------------------------------------------

\* After fingerprinting, nothing changes the evidence or the verdicts.
LEMMA LateSteps ==
    ASSUME [Next]_vars, stage \notin {"ingest", "fingerprint"}
    PROVE  UNCHANGED <<reports, mentioned, loose, extractions, verdicts>>
BY DEF Next, vars, Ingest, IngestFails, IngestEnds, Fingerprint, FingerprintFails,
       FingerprintEnds, Drift, Propose, EmitTable, EmitFails, EmitOpenMetadata, Report,
       ReportFails, Over, At, Raise, input

LEMMA RunStep == RunInv /\ [Next]_vars => RunInv'
<1> SUFFICES ASSUME RunInv, [Next]_vars PROVE RunInv'
  OBVIOUS
<1>0. Len(reports) \in Nat /\ Len(extractions) \in Nat /\ Len(verdicts) \in Nat
  BY LenProperties DEF RunInv
<1>1. CASE Ingest
  <2> DEFINE new == Extraction(reports[Len(extractions) + 1])
  <2>1. /\ Len(extractions) < Len(reports) /\ extractions' = Append(extractions, new)
        /\ stage = "ingest" /\ reports[Len(extractions) + 1].asOf # NoDate
        /\ UNCHANGED <<reports, stage, verdicts>>
    BY <1>1 DEF Ingest, At, input, Raises
  <2>2. new \in Extracted
    BY <1>0, <2>1, ElementOfSeq DEF RunInv, Extracted
  <2>3. /\ extractions' \in Seq(Extracted) /\ Len(extractions') = Len(extractions) + 1
        /\ \A i \in 1..Len(extractions) : extractions'[i] = extractions[i]
        /\ extractions'[Len(extractions) + 1] = new
    BY <2>1, <2>2, AppendProperties DEF RunInv
  <2> HIDE DEF new
  <2>4. \A i \in 1..Len(extractions') :
          extractions'[i] = Extraction(reports[i]) /\ reports[i].asOf # NoDate
    BY <1>0, <2>1, <2>3 DEF RunInv, new
  <2>5. ASSUME NEW i \in 1..Len(verdicts)
        PROVE  verdicts[i] \in Sheets(extractions'[i].figures)
    <3>1. i \in 1..Len(extractions)
      BY <1>0 DEF RunInv
    <3>2. extractions'[i] = extractions[i]
      BY <2>3, <3>1
    <3> QED
      BY <3>2 DEF RunInv
  <2>6. \A i \in 1..Len(verdicts') : verdicts'[i] \in Sheets(extractions'[i].figures)
    BY <2>1, <2>5
  <2>7. /\ Len(extractions') <= Len(reports') /\ Len(verdicts') <= Len(extractions')
        /\ reports' = reports
    BY <1>0, <2>1, <2>3 DEF RunInv
  <2>8. /\ stage' \in Stages /\ stage' = "ingest" /\ reports' \in Seq(Printed)
        /\ verdicts' \in Seq(UNION {Sheets(x.figures) : x \in Extracted})
    BY <2>1 DEF RunInv
  <2> QED
    BY <2>3, <2>4, <2>6, <2>7, <2>8 DEF RunInv
<1>2. CASE Fingerprint
  <2>1. PICK sheet \in Sheets(extractions[Len(verdicts) + 1].figures) :
           verdicts' = Append(verdicts, sheet)
    BY <1>2 DEF Fingerprint
  <2>2. /\ Len(verdicts) < Len(extractions) /\ stage = "fingerprint"
        /\ UNCHANGED <<reports, stage, extractions>>
    BY <1>2 DEF Fingerprint, At, input
  <2>3. extractions[Len(verdicts) + 1] \in Extracted
    BY <1>0, <2>2, ElementOfSeq DEF RunInv
  <2> DEFINE AllSheets == UNION {Sheets(x.figures) : x \in Extracted}
  <2>4. sheet \in AllSheets
    BY <2>1, <2>3
  <2> HIDE DEF AllSheets
  <2>5. verdicts \in Seq(AllSheets)
    BY DEF RunInv, AllSheets
  <2>6. /\ verdicts' \in Seq(AllSheets) /\ Len(verdicts') = Len(verdicts) + 1
        /\ \A i \in 1..Len(verdicts) : verdicts'[i] = verdicts[i]
        /\ verdicts'[Len(verdicts) + 1] = sheet
    BY <2>1, <2>4, <2>5, AppendProperties
  <2>7. \A i \in 1..Len(verdicts') : verdicts'[i] \in Sheets(extractions[i].figures)
    BY <1>0, <2>1, <2>6 DEF RunInv
  <2> QED
    BY <1>0, <2>2, <2>6, <2>7 DEF RunInv, AllSheets
<1>3. CASE IngestEnds \/ FingerprintEnds
  BY <1>3 DEF IngestEnds, FingerprintEnds, At, input, RunInv, Stages
<1>4. CASE IngestFails \/ FingerprintFails \/ EmitFails \/ ReportFails \/ Over \/ UNCHANGED vars
  BY <1>4 DEF IngestFails, FingerprintFails, EmitFails, ReportFails, Raise, Over, vars,
              input, RunInv
<1>5. CASE Drift \/ Propose \/ EmitTable \/ EmitOpenMetadata \/ Report
  <2>1. /\ stage \in {"drift", "propose", "emit", "report"}
        /\ stage' \in {"drift", "propose", "emit", "report"}
        /\ UNCHANGED <<reports, extractions, verdicts>>
    BY <1>5 DEF Drift, Propose, EmitTable, EmitOpenMetadata, Report, At, input
  <2> QED
    BY <2>1 DEF RunInv, Stages
<1> QED
  BY <1>1, <1>2, <1>3, <1>4, <1>5 DEF Next

LEMMA RunHolds == Spec => []RunInv
<1>1. Init => RunInv
  BY DirectoriesAssumption, EmptySeq DEF Init, RunInv, Printed, Stages
<1>2. RunInv /\ [Next]_vars => RunInv'
  BY RunStep
<1> QED
  BY <1>1, <1>2, PTL DEF Spec

\* A verdict has one of three bands.
LEMMA VerdictBands ==
    ASSUME RunInv, NEW r \in DOMAIN verdicts, NEW n \in DOMAIN verdicts[r]
    PROVE  verdicts[r][n].band \in Trusted \cup {"UNMAPPABLE"}
<1>1. r \in 1..Len(verdicts)
  BY LenProperties DEF RunInv
<1>2. verdicts[r] \in Sheets(extractions[r].figures)
  BY <1>1 DEF RunInv
<1>3. PICK m : verdicts[r][n] \in Contract!VerdictsOn(m)
  BY <1>2 DEF Sheets
<1> QED
  BY <1>3 DEF Contract!VerdictsOn, Bands, Trusted

-----------------------------------------------------------------------------

\* Once drift has run, the register is what diff_reports says of two editions.
DriftInv ==
    Diffed => \E recheck \in Rechecks(Older, Newer) :
                 findings = Findings(Older, Newer, recheck, mentioned)

LEMMA EditionsStay ==
    ASSUME UNCHANGED <<reports, verdicts>>
    PROVE  Older' = Older /\ Newer' = Newer
BY DEF Older, Newer, Edition

LEMMA DriftStep == RunInv /\ DriftInv /\ [Next]_vars => DriftInv'
<1> SUFFICES ASSUME RunInv, DriftInv, [Next]_vars, Diffed'
             PROVE  \E recheck \in Rechecks(Older, Newer)' :
                       findings' = Findings(Older', Newer', recheck, mentioned')
  BY DEF DriftInv
<1>1. stage' \in {"propose", "emit", "report"}
  BY DEF Diffed
<1>2. stage \notin {"ingest", "fingerprint"}
  BY <1>1 DEF Next, vars, Ingest, IngestFails, IngestEnds, Fingerprint, FingerprintFails,
              FingerprintEnds, Drift, Propose, EmitTable, EmitFails, EmitOpenMetadata,
              Report, ReportFails, Over, At, Raise
<1>3. /\ UNCHANGED <<reports, verdicts, mentioned, loose>>
      /\ Older' = Older /\ Newer' = Newer
      /\ Rechecks(Older, Newer)' = Rechecks(Older, Newer)
  BY <1>2, LateSteps, EditionsStay DEF Rechecks
<1>4. CASE Drift
  BY <1>3, <1>4 DEF Drift, Diffed
<1>5. CASE ~Drift
  <2>1. stage \in {"propose", "emit", "report"} /\ findings' = findings
    BY <1>1, <1>2, <1>5 DEF Next, vars, Ingest, IngestFails, IngestEnds, Fingerprint,
       FingerprintFails, FingerprintEnds, Propose, EmitTable, EmitFails, EmitOpenMetadata,
       Report, ReportFails, Over, At, Raise, RunInv, Stages
  <2>2. Diffed
    BY <1>3, <2>1 DEF Diffed
  <2> QED
    BY <1>3, <2>1, <2>2 DEF DriftInv
<1> QED
  BY <1>4, <1>5

LEMMA RedefinedFollows ==
    ASSUME DriftInv
    PROVE  RedefinedIsReal
<1> SUFFICES ASSUME Diffed
             PROVE  LET redefined == {f.names[1] : f \in {g \in findings : g.kind = "redefined"}}
                    IN  \A n \in Older.names \cap Newer.names :
                          LET before == Older.formula[n]
                              after == Newer.formula[n]
                          IN  /\ n \in redefined => before # NoFormula
                              /\ n \in redefined /\ ~loose => before # after
                              /\ NoFormula \notin {before, after} /\ before # after =>
                                    n \in redefined
  BY DEF RedefinedIsReal
<1>1. PICK recheck \in Rechecks(Older, Newer) :
         findings = Findings(Older, Newer, recheck, mentioned)
  BY DEF DriftInv
<1> DEFINE redefined == {f.names[1] : f \in {g \in findings : g.kind = "redefined"}}
<1>2. redefined = Redefined(Older, Newer, recheck)
  <2>1. \A names : /\ Finding("renamed", names, mentioned).kind = "renamed"
                   /\ Finding("redefined", names, mentioned).kind = "redefined"
                   /\ Finding("appeared", names, mentioned).kind = "appeared"
                   /\ Finding("disappeared", names, mentioned).kind = "disappeared"
                   /\ Finding("redefined", names, mentioned).names = names
    BY DEF Finding
  <2> DEFINE renames == Renames(Older, Newer)
             renamed == {Finding("renamed", p, mentioned) : p \in renames}
             came == Came(Older, Newer) \ {p[2] : p \in renames}
             gone == Gone(Older, Newer) \ {p[1] : p \in renames}
  <2>2. findings = renamed
           \cup {Finding("redefined", <<n>>, mentioned) : n \in Redefined(Older, Newer, recheck)}
           \cup {Finding("appeared", <<n>>, mentioned) : n \in came}
           \cup {Finding("disappeared", <<n>>, mentioned) : n \in gone}
    BY <1>1, Zenon DEF Findings
  <2> HIDE DEF renames, came, gone
  <2>3. \A f \in findings : f.kind = "redefined" =>
           \E n \in Redefined(Older, Newer, recheck) : f = Finding("redefined", <<n>>, mentioned)
    BY <2>1, <2>2
  <2>4. \A n \in Redefined(Older, Newer, recheck) :
           Finding("redefined", <<n>>, mentioned) \in findings
    BY <2>2
  <2>5. \A n \in Redefined(Older, Newer, recheck) : n \in redefined
    <3> SUFFICES ASSUME NEW n \in Redefined(Older, Newer, recheck) PROVE n \in redefined
      OBVIOUS
    <3> DEFINE f == Finding("redefined", <<n>>, mentioned)
    <3>1. f \in findings /\ f.kind = "redefined" /\ f.names[1] = n
      BY <2>1, <2>4
    <3> QED
      BY <3>1
  <2>6. \A n \in redefined : n \in Redefined(Older, Newer, recheck)
    <3> SUFFICES ASSUME NEW f \in findings, f.kind = "redefined"
                 PROVE  f.names[1] \in Redefined(Older, Newer, recheck)
      OBVIOUS
    <3>1. PICK n \in Redefined(Older, Newer, recheck) :
             f = Finding("redefined", <<n>>, mentioned)
      BY <2>3
    <3>2. f.names = <<n>>
      BY <2>1, <3>1
    <3> QED
      BY <3>2
  <2> QED
    BY <2>5, <2>6
<1> HIDE DEF redefined
<1> SUFFICES ASSUME NEW n \in Older.names \cap Newer.names
             PROVE  /\ n \in redefined => Older.formula[n] # NoFormula
                    /\ n \in redefined /\ ~loose => Older.formula[n] # Newer.formula[n]
                    /\ /\ NoFormula \notin {Older.formula[n], Newer.formula[n]}
                       /\ Older.formula[n] # Newer.formula[n]
                       => n \in redefined
  BY DEF redefined
<1>3. ASSUME ~loose, Older.formula[n] # NoFormula, Older.formula[n] = Newer.formula[n]
      PROVE  recheck[n] = "agrees"
  BY <1>3 DEF Rechecks, Rechecked
<1> QED
  BY <1>2, <1>3 DEF Redefined

\* A redefinition is never reported for a formula that was not known, nor, while the
\* engine's tolerance is within drift's, where the editions agree on the formula; a
\* change of formula always is (report_diff.py:98-132).
THEOREM RedefinedIsRealHolds == Spec => []RedefinedIsReal
<1>1. Init => DriftInv
  BY DEF Init, DriftInv, Diffed
<1>2. RunInv /\ DriftInv /\ [Next]_vars => DriftInv'
  BY DriftStep
<1>3. DriftInv => RedefinedIsReal
  BY RedefinedFollows
<1> QED
  BY <1>1, <1>2, <1>3, RunHolds, PTL DEF Spec

-----------------------------------------------------------------------------

\* From the emit node on, the semantic models hold each trusted metric with the
\* verdict of the latest edition that trusts it, and the names that drift found it to
\* have had.
ProposalsInv ==
    stage \in {"emit", "report"} =>
        \A n \in AcceptedMetrics(Trusted) : \E m \in EmittedMetrics :
            /\ m.name = n
            /\ m.formula = LatestVerdict(n, Trusted).best
            /\ m.band = LatestVerdict(n, Trusted).band
            /\ Synonyms(n) \subseteq m.synonyms

LEMMA LatestIs ==
    ASSUME RunInv, NEW bands, NEW n \in AcceptedMetrics(bands)
    PROVE  /\ Latest(n, bands) \in Accepting(n, bands)
           /\ \A r \in Accepting(n, bands) : r <= Latest(n, bands)
           /\ Accepting(n, bands) \subseteq Nat
<1>1. DOMAIN verdicts = 1..Len(verdicts) /\ Len(verdicts) \in Nat
  BY LenProperties DEF RunInv
<1>2. Accepting(n, bands) \in SUBSET (1..Len(verdicts)) /\ Accepting(n, bands) # {}
  BY <1>1 DEF Accepting, AcceptedMetrics
<1>3. IsFiniteSet(Accepting(n, bands))
  <2>1. IsFiniteSet(1..Len(verdicts))
    BY <1>1, FS_Interval
  <2> QED
    BY <1>2, <2>1, FS_Subset
<1> QED
  BY <1>1, <1>2, <1>3, MaxMinExist DEF Latest

\* Where the latest trusted verdict is not WEAK it is published, and is the latest
\* published one.
LEMMA PublishedIsTrusted ==
    ASSUME RunInv, NEW n \in AcceptedMetrics(Published)
    PROVE  /\ n \in AcceptedMetrics(Trusted)
           /\ LatestVerdict(n, Trusted).band # "WEAK" =>
                Latest(n, Published) = Latest(n, Trusted)
<1>1. Accepting(n, Published) \subseteq Accepting(n, Trusted)
  BY DEF Accepting, Published, Trusted
<1>2. n \in AcceptedMetrics(Trusted)
  BY <1>1 DEF AcceptedMetrics
<1>3. /\ Latest(n, Published) \in Accepting(n, Published)
      /\ \A r \in Accepting(n, Published) : r <= Latest(n, Published)
  BY LatestIs
<1>4. /\ Latest(n, Trusted) \in Accepting(n, Trusted)
      /\ \A r \in Accepting(n, Trusted) : r <= Latest(n, Trusted)
      /\ Accepting(n, Trusted) \subseteq Nat
  BY <1>2, LatestIs
<1>5. ASSUME LatestVerdict(n, Trusted).band # "WEAK"
      PROVE  Latest(n, Trusted) \in Accepting(n, Published)
  BY <1>4, <1>5 DEF LatestVerdict, Accepting, Published, Trusted
<1>6. ASSUME NEW a \in Nat, NEW b \in Nat, a <= b, b <= a PROVE a = b
  BY <1>6
<1> QED
  BY <1>1, <1>2, <1>3, <1>4, <1>5, <1>6

LEMMA ProposalsStep == RunInv /\ ProposalsInv /\ [Next]_vars => ProposalsInv'
<1> SUFFICES ASSUME RunInv, ProposalsInv, [Next]_vars PROVE ProposalsInv'
  OBVIOUS
<1>1. ASSUME UNCHANGED verdicts
      PROVE  /\ AcceptedMetrics(Trusted)' = AcceptedMetrics(Trusted)
             /\ \A n : LatestVerdict(n, Trusted)' = LatestVerdict(n, Trusted)
  BY <1>1 DEF AcceptedMetrics, Metrics, LatestVerdict, Latest, Accepting
<1>0. ASSUME UNCHANGED findings PROVE \A n : Synonyms(n)' = Synonyms(n)
  BY <1>0 DEF Synonyms
<1>2. CASE Propose
  <2> DEFINE metrics == {Proposed(n) : n \in AcceptedMetrics(Trusted)}
             tables == {TableOf[m.formula] : m \in metrics}
  <2>1. /\ proposals' = [t \in tables |-> {m \in metrics : TableOf[m.formula] = t}]
        /\ UNCHANGED verdicts /\ UNCHANGED findings
    BY <1>2 DEF Propose
  <2>2. ASSUME NEW m \in metrics PROVE m \in EmittedMetrics'
    <3>1. TableOf[m.formula] \in tables
      OBVIOUS
    <3> HIDE DEF metrics, tables
    <3>2. TableOf[m.formula] \in DOMAIN proposals' /\ m \in proposals'[TableOf[m.formula]]
      BY <2>1, <3>1
    <3> QED
      BY <3>2 DEF EmittedMetrics
  <2>3. \A n : /\ Proposed(n).name = n
               /\ Proposed(n).formula = LatestVerdict(n, Trusted).best
               /\ Proposed(n).band = LatestVerdict(n, Trusted).band
               /\ Synonyms(n) \subseteq Proposed(n).synonyms
    BY DEF Proposed
  <2> HIDE DEF tables
  <2> QED
    BY <1>0, <1>1, <2>1, <2>2, <2>3 DEF ProposalsInv
<1>3. CASE ~Propose
  <2>1. stage' \in {"emit", "report"} =>
           stage \in {"emit", "report"} /\ UNCHANGED <<verdicts, proposals, findings>>
    BY <1>3 DEF Next, vars, Ingest, IngestFails, IngestEnds, Fingerprint, FingerprintFails,
       FingerprintEnds, Drift, EmitTable, EmitFails, EmitOpenMetadata, Report, ReportFails,
       Over, At, Raise, products
  <2> QED
    BY <1>0, <1>1, <2>1 DEF ProposalsInv, EmittedMetrics
<1> QED
  BY <1>2, <1>3

LEMMA GlossaryStep ==
    RunInv /\ ProposalsInv /\ GlossaryAgreesUnlessWeak /\ [Next]_vars
        => GlossaryAgreesUnlessWeak'
<1> SUFFICES ASSUME RunInv, ProposalsInv, GlossaryAgreesUnlessWeak, [Next]_vars
             PROVE  GlossaryAgreesUnlessWeak'
  OBVIOUS
<1>1. CASE EmitOpenMetadata
  <2>1. /\ payloads'.terms = Terms /\ stage = "emit"
        /\ EmittedMetrics' = EmittedMetrics
    BY <1>1 DEF EmitOpenMetadata, At, EmittedMetrics
  <2>2. ASSUME NEW t \in Terms
        PROVE  \E m \in EmittedMetrics :
                  /\ m.name = t.name
                  /\ m.formula = t.formula \/ m.band = "WEAK"
    <3>1. PICK n \in AcceptedMetrics(Published) :
             t.name = n /\ t.formula = LatestVerdict(n, Published).best
      BY DEF Terms
    <3>2. /\ n \in AcceptedMetrics(Trusted)
          /\ LatestVerdict(n, Trusted).band # "WEAK" =>
                LatestVerdict(n, Published) = LatestVerdict(n, Trusted)
      BY PublishedIsTrusted DEF LatestVerdict
    <3> QED
      BY <2>1, <3>1, <3>2 DEF ProposalsInv
  <2> QED
    BY <2>1, <2>2 DEF GlossaryAgreesUnlessWeak
<1>2. CASE ~EmitOpenMetadata
  <2>1. stage' = "report" => stage = "report" /\ UNCHANGED <<payloads, proposals>>
    BY <1>2 DEF Next, vars, Ingest, IngestFails, IngestEnds, Fingerprint, FingerprintFails,
       FingerprintEnds, Drift, Propose, EmitTable, EmitFails, Report, ReportFails,
       Over, At, Raise, products
  <2> QED
    BY <2>1 DEF GlossaryAgreesUnlessWeak, EmittedMetrics
<1> QED
  BY <1>1, <1>2

\* The glossary and the semantic models never tell two formulas for one metric, unless
\* the model's comes from a WEAK verdict of a later edition; no term is without its
\* metric (pipeline.py:196-223; openmetadata.py:326-352).
THEOREM GlossaryAgreesHolds == Spec => []GlossaryAgreesUnlessWeak
<1>1. Init => ProposalsInv /\ GlossaryAgreesUnlessWeak
  BY DEF Init, ProposalsInv, GlossaryAgreesUnlessWeak
<1>2. RunInv /\ ProposalsInv /\ [Next]_vars => ProposalsInv'
  BY ProposalsStep
<1>3. RunInv /\ ProposalsInv /\ GlossaryAgreesUnlessWeak /\ [Next]_vars
        => GlossaryAgreesUnlessWeak'
  BY GlossaryStep
<1> QED
  BY <1>1, <1>2, <1>3, RunHolds, PTL DEF Spec

-----------------------------------------------------------------------------

\* What TypeOK says beyond RunInv; no table is validated before it is proposed.
TypesInv ==
    /\ reports \in Directories /\ mentioned \in Mentions /\ loose \in BOOLEAN
    /\ outcome \in {"running", "returned", "raised"}
    /\ \A f \in findings : f.kind \in {"renamed", "redefined", "appeared", "disappeared"}
    /\ \A t \in DOMAIN proposals :
          /\ t \in Nat
          /\ \A m \in proposals[t] :
                m.band \in Trusted /\ m.formula \in Formulas /\ TableOf[m.formula] = t
    /\ stage \in {"ingest", "fingerprint", "drift", "propose"} => validation = <<>>
    /\ DOMAIN validation \subseteq DOMAIN proposals

LEMMA VerdictTypes ==
    ASSUME RunInv, NEW r \in DOMAIN verdicts, NEW n \in DOMAIN verdicts[r]
    PROVE  verdicts[r][n] \in Contract!VerdictsOn(n)
<1>1. r \in 1..Len(verdicts)
  BY LenProperties DEF RunInv
<1>2. verdicts[r] \in Sheets(extractions[r].figures)
  BY <1>1 DEF RunInv
<1>3. /\ \E m : verdicts[r][n] \in Contract!VerdictsOn(m)
      /\ verdicts[r][n].metric = n
  BY <1>2 DEF Sheets
<1> QED
  BY <1>3 DEF Contract!VerdictsOn

\* What is proposed has the formula of a trusted verdict.
LEMMA ProposedTypes ==
    ASSUME RunInv, NEW n \in AcceptedMetrics(Trusted)
    PROVE  /\ Proposed(n).band \in Trusted
           /\ Proposed(n).formula \in Formulas
           /\ TableOf[Proposed(n).formula] \in Nat
<1>1. Latest(n, Trusted) \in Accepting(n, Trusted)
  BY LatestIs
<1> DEFINE verdict == LatestVerdict(n, Trusted)
<1>2. verdict.band \in Trusted /\ verdict \in Contract!VerdictsOn(n)
  BY <1>1, VerdictTypes DEF Accepting, LatestVerdict
<1> HIDE DEF verdict
<1>3. verdict.best \in Formulas
  BY <1>2 DEF Contract!VerdictsOn, Trusted
<1> QED
  BY <1>2, <1>3, FormulasAssumption DEF Proposed, verdict

LEMMA TypesStep == RunInv /\ TypesInv /\ [Next]_vars => TypesInv'
<1> SUFFICES ASSUME RunInv, TypesInv, [Next]_vars PROVE TypesInv'
  OBVIOUS
<1>1. CASE Propose
  <2> DEFINE metrics == {Proposed(n) : n \in AcceptedMetrics(Trusted)}
             tables == {TableOf[m.formula] : m \in metrics}
  <2>1. /\ proposals' = [t \in tables |-> {m \in metrics : TableOf[m.formula] = t}]
        /\ validation' = <<>> /\ stage' = "emit"
        /\ UNCHANGED <<reports, mentioned, loose, outcome, findings>>
    BY <1>1 DEF Propose, At, input, TypesInv
  <2>2. \A m \in metrics : /\ m.band \in Trusted /\ m.formula \in Formulas
                           /\ TableOf[m.formula] \in Nat
    BY ProposedTypes
  <2> HIDE DEF metrics
  <2>3. \A t \in DOMAIN proposals' :
           /\ t \in Nat
           /\ \A m \in proposals'[t] :
                 m.band \in Trusted /\ m.formula \in Formulas /\ TableOf[m.formula] = t
    BY <2>1, <2>2
  <2>4. DOMAIN validation' = {}
    BY <2>1
  <2> QED
    BY <2>1, <2>3, <2>4 DEF TypesInv
<1>2. CASE EmitTable
  <2>1. /\ Unemitted # {} /\ stage = "emit"
        /\ UNCHANGED <<reports, mentioned, loose, stage, outcome, findings, proposals>>
        /\ DOMAIN validation' = DOMAIN validation \cup {Min(Unemitted)}
    BY <1>2 DEF EmitTable, At, input
  <2>2. Unemitted \in SUBSET Nat
    BY DEF Unemitted, TypesInv
  <2>3. Min(Unemitted) \in Unemitted
    BY <2>1, <2>2, LeastNumber DEF Min
  <2> QED
    BY <2>1, <2>3 DEF TypesInv, Unemitted
<1>3. CASE Drift
  <2>1. /\ UNCHANGED <<reports, mentioned, loose, outcome, proposals, validation>>
        /\ stage = "drift"
        /\ findings' = findings \/ \E recheck : findings' = Findings(Older, Newer, recheck, mentioned)
    BY <1>3 DEF Drift, At, input, products
  <2>2. ASSUME NEW recheck, NEW f \in Findings(Older, Newer, recheck, mentioned)
        PROVE  f.kind \in {"renamed", "redefined", "appeared", "disappeared"}
    <3>1. \A kind, names : Finding(kind, names, mentioned).kind = kind
      BY DEF Finding
    <3> DEFINE kinds == {"renamed", "redefined", "appeared", "disappeared"}
    <3>2. \E kind \in kinds : \E names : f = Finding(kind, names, mentioned)
      BY DEF Findings
    <3> QED
      BY <3>1, <3>2
  <2> QED
    BY <2>1, <2>2 DEF TypesInv
<1>4. CASE Ingest \/ IngestEnds \/ Fingerprint \/ FingerprintEnds \/ EmitOpenMetadata \/ Report
  <2>1. /\ UNCHANGED <<reports, mentioned, loose, findings, proposals, validation>>
        /\ outcome' \in {"running", "returned"}
        /\ stage' \in {"ingest", "fingerprint", "drift", "propose"} =>
              stage \in {"ingest", "fingerprint", "drift", "propose"}
    BY <1>4 DEF Ingest, IngestEnds, Fingerprint, FingerprintEnds, EmitOpenMetadata, Report,
                At, input, products
  <2> QED
    BY <2>1 DEF TypesInv
<1>5. CASE IngestFails \/ FingerprintFails \/ EmitFails \/ ReportFails \/ Over \/ UNCHANGED vars
  BY <1>5 DEF IngestFails, FingerprintFails, EmitFails, ReportFails, Raise, Over, vars,
              input, products, TypesInv
<1> QED
  BY <1>1, <1>2, <1>3, <1>4, <1>5 DEF Next

\* The pipeline's state keeps its types: a verdict names its metric, a proposed metric
\* has a formula and stands under the table of that formula, and only what was proposed
\* is validated (pipeline.py:196-223, 250-300).
THEOREM TypeCorrect == Spec => []TypeOK
<1>1. Init => TypesInv
  BY DEF Init, TypesInv
<1>2. RunInv /\ TypesInv /\ [Next]_vars => TypesInv'
  BY TypesStep
<1>3. RunInv /\ TypesInv => TypeOK
  BY VerdictTypes DEF RunInv, TypesInv, TypeOK, Stages
<1> QED
  BY <1>1, <1>2, <1>3, RunHolds, PTL DEF Spec

-----------------------------------------------------------------------------

\* What the conflict report says is read off the verdicts.
ReportedInv ==
    outcome = "returned" =>
        /\ stage = "report"
        /\ conflictReport.accepted = Judged(Trusted)
        /\ conflictReport.unmappable = Judged({"UNMAPPABLE"})

LEMMA ReportedStep == ReportedInv /\ [Next]_vars => ReportedInv'
<1> SUFFICES ASSUME ReportedInv, [Next]_vars, outcome' = "returned"
             PROVE  /\ stage' = "report"
                    /\ conflictReport'.accepted = Judged(Trusted)'
                    /\ conflictReport'.unmappable = Judged({"UNMAPPABLE"})'
  BY DEF ReportedInv
<1>1. CASE Report
  BY <1>1 DEF Report, At, Judged
<1>2. CASE ~Report
  <2>1. UNCHANGED vars /\ outcome = "returned"
    BY <1>2 DEF Next, vars, Ingest, IngestFails, IngestEnds, Fingerprint, FingerprintFails,
       FingerprintEnds, Drift, Propose, EmitTable, EmitFails, EmitOpenMetadata,
       ReportFails, Over, At, Raise
  <2> QED
    BY <2>1 DEF ReportedInv, vars, Judged
<1> QED
  BY <1>1, <1>2

LEMMA ReportedFollows == RunInv /\ ReportedInv => EveryMetricReported
<1> SUFFICES ASSUME RunInv, ReportedInv, outcome = "returned"
             PROVE  /\ Judged(Trusted) \cup Judged({"UNMAPPABLE"}) =
                         UNION {{r} \X MetricNames(Figures(reports[r])) : r \in DOMAIN reports}
                    /\ Judged(Trusted) \cap Judged({"UNMAPPABLE"}) = {}
  BY DEF EveryMetricReported, ReportedInv
<1>1. stage = "report" /\ Len(verdicts) = Len(reports) /\ Len(extractions) = Len(reports)
  BY DEF ReportedInv, RunInv
<1>2. DOMAIN verdicts = 1..Len(reports) /\ DOMAIN reports = 1..Len(reports)
  BY <1>1, LenProperties DEF RunInv
<1>3. ASSUME NEW r \in DOMAIN verdicts
      PROVE  DOMAIN verdicts[r] = MetricNames(Figures(reports[r]))
  <2>1. extractions[r] = Extraction(reports[r]) /\ verdicts[r] \in Sheets(extractions[r].figures)
    BY <1>1, <1>2 DEF RunInv
  <2>2. extractions[r].figures = Figures(reports[r])
    BY <2>1 DEF Extraction
  <2> QED
    BY <2>1, <2>2 DEF Sheets
<1>4. \A r \in DOMAIN verdicts : \A n \in DOMAIN verdicts[r] :
         verdicts[r][n].band \in Trusted \cup {"UNMAPPABLE"}
  BY VerdictBands
<1>5. "UNMAPPABLE" \notin Trusted
  BY DEF Trusted
<1>6. \A bands, p : p \in Judged(bands) <=>
         \E r \in DOMAIN verdicts : \E n \in DOMAIN verdicts[r] :
            p = <<r, n>> /\ verdicts[r][n].band \in bands
  BY DEF Judged
<1>7. Judged(Trusted) \cap Judged({"UNMAPPABLE"}) = {}
  BY <1>5, <1>6
<1>8. \A p : p \in Judged(Trusted) \cup Judged({"UNMAPPABLE"}) <=>
         \E r \in DOMAIN verdicts : \E n \in DOMAIN verdicts[r] : p = <<r, n>>
  BY <1>4, <1>6
<1>9. \A p : p \in UNION {{r} \X MetricNames(Figures(reports[r])) : r \in DOMAIN reports} <=>
         \E r \in DOMAIN verdicts : \E n \in DOMAIN verdicts[r] : p = <<r, n>>
  BY <1>2, <1>3
<1> QED
  BY <1>7, <1>8, <1>9

\* A run that returns lists every metric of every edition exactly once, as mapped or
\* as unmappable, however many editions, tables and footnotes there are
\* (pipeline.py:64-71, 355-368).
THEOREM EveryMetricReportedHolds == Spec => []EveryMetricReported
<1>1. Init => ReportedInv
  BY DEF Init, ReportedInv
<1>2. ReportedInv /\ [Next]_vars => ReportedInv'
  BY ReportedStep
<1>3. RunInv /\ ReportedInv => EveryMetricReported
  BY ReportedFollows
<1> QED
  BY <1>1, <1>2, <1>3, RunHolds, PTL DEF Spec

-----------------------------------------------------------------------------
(* The pairing of vanished names with new ones.                            *)

\* Names are numbers, and finitely many.
Numbered(edition) == IsFiniteSet(edition.names) /\ edition.names \subseteq Nat

\* What the greedy pairing has reached when it is through with these names: nobody is
\* paired twice, only equal known formulas are, and no such pair is left.
Matching(old, new, taken, names) ==
    /\ taken \in SUBSET (names \X Came(old, new))
    /\ \A p, q \in taken : p[1] = q[1] \/ p[2] = q[2] => p = q
    /\ \A p \in taken : /\ old.formula[p[1]] # NoFormula
                        /\ new.formula[p[2]] = old.formula[p[1]]
    /\ \A n \in names, c \in Came(old, new) :
          \/ \E p \in taken : p[1] = n \/ p[2] = c
          \/ old.formula[n] = NoFormula
          \/ new.formula[c] # old.formula[n]

LEMMA TwinIs ==
    ASSUME NEW old, NEW new, Numbered(new), NEW name, NEW taken,
           Twins(old, new, name, taken) # {}
    PROVE  LET twin == Min(Twins(old, new, name, taken))
           IN  /\ twin \in Came(old, new) /\ twin \notin {p[2] : p \in taken}
               /\ new.formula[twin] = old.formula[name]
<1> DEFINE T == Twins(old, new, name, taken)
<1>1. T \subseteq new.names
  BY DEF Twins, Came
<1>2. IsFiniteSet(T) /\ T \subseteq Int
  BY <1>1, FS_Subset DEF Numbered
<1>3. T # {}
  OBVIOUS
<1> HIDE DEF T
<1>4. Min(T) \in T
  BY <1>2, <1>3, MaxMinExist
<1> QED
  BY <1>4 DEF T, Twins

LEMMA PairedMatches ==
    ASSUME NEW old, NEW new, Numbered(new), NEW names, NEW name \in names, NEW taken,
           Matching(old, new, taken, names \ {name})
    PROVE  Matching(old, new, Paired(old, new, name, taken), names)
<1> DEFINE T == Twins(old, new, name, taken)
<1>1. CASE old.formula[name] = NoFormula \/ T = {}
  <2>1. Paired(old, new, name, taken) = taken
    BY <1>1 DEF Paired
  <2>2. ASSUME NEW c \in Came(old, new)
        PROVE  \/ \E p \in taken : p[1] = name \/ p[2] = c
               \/ old.formula[name] = NoFormula
               \/ new.formula[c] # old.formula[name]
    <3>1. CASE old.formula[name] = NoFormula
      BY <3>1
    <3>2. CASE T = {}
      BY <3>2 DEF Twins
    <3> QED
      BY <1>1, <3>1, <3>2
  <2> QED
    BY <2>1, <2>2 DEF Matching
<1>2. CASE old.formula[name] # NoFormula /\ T # {}
  <2> DEFINE twin == Min(T)
             pair == <<name, twin>>
  <2>1. Paired(old, new, name, taken) = taken \cup {pair}
    BY <1>2 DEF Paired
  <2>2. /\ twin \in Came(old, new) /\ twin \notin {p[2] : p \in taken}
        /\ new.formula[twin] = old.formula[name]
    BY <1>2, TwinIs
  <2> HIDE DEF twin
  <2>3. pair \in names \X Came(old, new) /\ pair[1] = name /\ pair[2] = twin
    BY <2>2
  <2>4. \A p \in taken : p[1] # name /\ p[2] # twin
    BY <2>2 DEF Matching
  <2> HIDE DEF pair
  <2>5. taken \cup {pair} \in SUBSET (names \X Came(old, new))
    BY <2>3 DEF Matching
  <2>6. \A p, q \in taken \cup {pair} : p[1] = q[1] \/ p[2] = q[2] => p = q
    BY <2>3, <2>4 DEF Matching
  <2>7. \A p \in taken \cup {pair} : /\ old.formula[p[1]] # NoFormula
                                     /\ new.formula[p[2]] = old.formula[p[1]]
    BY <1>2, <2>2, <2>3 DEF Matching
  <2>8. ASSUME NEW n \in names, NEW c \in Came(old, new)
        PROVE  \/ \E p \in taken \cup {pair} : p[1] = n \/ p[2] = c
               \/ old.formula[n] = NoFormula
               \/ new.formula[c] # old.formula[n]
    BY <2>3 DEF Matching
  <2> QED
    BY <2>1, <2>5, <2>6, <2>7, <2>8 DEF Matching
<1> QED
  BY <1>1, <1>2

\* The fold of Renames reaches it.
LEMMA RenamesMatch ==
    ASSUME NEW old, NEW new, Numbered(old), Numbered(new)
    PROVE  Matching(old, new, Renames(old, new), Gone(old, new))
<1> DEFINE S == Gone(old, new)
           V == SUBSET (S \X Came(old, new))
           Equation(f) == [s \in SUBSET S |->
               IF s = {} THEN {} ELSE Paired(old, new, Max(s), f[s \ {Max(s)}])]
           iter == CHOOSE f : f = Equation(f)
           pick == [s \in SUBSET S |-> Max(s)]
           step == [name \in S |-> [taken \in V |-> Paired(old, new, name, taken)]]
           Good == {g \in (SUBSET S) \X V : Matching(old, new, g[2], g[1])}
<1>1. IsFiniteSet(S) /\ S \subseteq Int
  <2>1. S \subseteq old.names
    BY DEF Gone
  <2> HIDE DEF S
  <2> QED
    BY <2>1, FS_Subset DEF Numbered
<1>2. \A s \in SUBSET S : s # {} => Max(s) \in s
  <2> SUFFICES ASSUME NEW s \in SUBSET S, s # {} PROVE Max(s) \in s
    OBVIOUS
  <2> HIDE DEF S
  <2>1. IsFiniteSet(s) /\ s \subseteq Int
    BY <1>1, FS_Subset
  <2> QED
    BY <2>1, MaxMinExist
<1>3. Picks(pick, S)
  BY <1>2 DEF Picks
<1>4. ASSUME NEW name \in S, NEW taken \in V PROVE Paired(old, new, name, taken) \in V
  <2>1. CASE old.formula[name] = NoFormula \/ Twins(old, new, name, taken) = {}
    BY <2>1 DEF Paired
  <2>2. CASE old.formula[name] # NoFormula /\ Twins(old, new, name, taken) # {}
    <3> DEFINE twin == Min(Twins(old, new, name, taken))
    <3>1. Paired(old, new, name, taken) = taken \cup {<<name, twin>>}
      BY <2>2 DEF Paired
    <3>2. twin \in Came(old, new)
      BY <2>2, TwinIs
    <3> HIDE DEF twin, S
    <3> QED
      BY <3>1, <3>2
  <2> QED
    BY <2>1, <2>2
<1>5. step \in Steps(S, V)
  <2> HIDE DEF S, V
  <2> QED
    BY <1>4 DEF Steps
<1>6. {} \in V
  OBVIOUS
<1>7. PICK f : Folds(f, S, V, {}, step, pick)
  <2> HIDE DEF S, V, step, pick
  <2>1. ASSUME NEW base \in V PROVE \E f : Folds(f, S, V, base, step, pick)
    BY <1>1, <1>3, <1>5, RecursionOnSubsets
  <2> QED
    BY <1>6, <2>1
<1>8. /\ f \in [SUBSET S -> V] /\ f[{}] = {}
      /\ \A s \in SUBSET S : s # {} => f[s] = step[pick[s]][f[s \ {pick[s]}]]
  <2> HIDE DEF S, V, step, pick
  <2> QED
    BY <1>7 DEF Folds
<1>9. ASSUME NEW s \in SUBSET S, s # {}
      PROVE  f[s] = Paired(old, new, Max(s), f[s \ {Max(s)}])
  <2>1. pick[s] = Max(s) /\ Max(s) \in S
    BY <1>2, <1>9
  <2> HIDE DEF S, V, pick
  <2>2. f[s \ {Max(s)}] \in V
    BY <1>8
  <2> QED
    BY <1>8, <1>9, <2>1, <2>2
<1>10. f = Equation(f)
  <2> HIDE DEF S, V, step, pick
  <2> QED
    BY <1>8, <1>9
<1>11. iter = Equation(iter)
  <2> HIDE DEF Equation
  <2> QED
    BY <1>10
<1>12. /\ iter[{}] = {}
       /\ \A s \in SUBSET S : s # {} => iter[s] = Paired(old, new, Max(s), iter[s \ {Max(s)}])
  <2> HIDE DEF iter, S
  <2> QED
    BY <1>11
<1>13. Unfolds(iter, S, V, {}, step, pick)
  <2>1. ASSUME NEW s \in SUBSET S, s # {}, iter[s \ {pick[s]}] \in V
        PROVE  iter[s] = step[pick[s]][iter[s \ {pick[s]}]]
    <3>1. pick[s] \in S /\ pick[s] = Max(s)
      BY <1>2, <2>1
    <3> HIDE DEF iter, pick, S, V
    <3> QED
      BY <1>12, <2>1, <3>1
  <2> HIDE DEF iter, step, pick, S, V
  <2> QED
    BY <1>12, <2>1 DEF Unfolds
<1>14. \A s \in SUBSET S : iter[s] = f[s]
  <2> HIDE DEF iter, step, pick, S, V
  <2>0. IsFiniteSet(S)
    BY <1>1
  <2>1. ASSUME NEW base, Folds(f, S, V, base, step, pick), Unfolds(iter, S, V, base, step, pick)
        PROVE  \A s \in SUBSET S : iter[s] = f[s]
    BY <2>0, <1>3, <2>1, FoldsAgree
  <2> QED
    BY <1>7, <1>13, <2>1
<1>15. <<{}, {}>> \in Good
  BY DEF Matching
<1>16. Preserves(Good, S, V, step, pick)
  <2>1. ASSUME NEW s \in SUBSET S, NEW v \in V, s # {}, <<s \ {pick[s]}, v>> \in Good
        PROVE  <<s, step[pick[s]][v]>> \in Good
    <3>1. pick[s] \in s /\ pick[s] \in S
      BY <1>2, <2>1
    <3>2. Matching(old, new, v, s \ {pick[s]})
      BY <2>1
    <3>3. step[pick[s]][v] = Paired(old, new, pick[s], v)
      BY <3>1
    <3>4. Paired(old, new, pick[s], v) \in V
      BY <1>4, <3>1
    <3> HIDE DEF pick, step, S, V
    <3>5. Matching(old, new, Paired(old, new, pick[s], v), s)
      BY <3>1, <3>2, PairedMatches
    <3> QED
      BY <3>3, <3>4, <3>5
  <2> HIDE DEF Good, step, pick, S, V
  <2> QED
    BY <2>1 DEF Preserves
<1>17. <<S, f[S]>> \in Good
  <2> HIDE DEF Good, step, pick, S, V
  <2>1. ASSUME NEW base, Folds(f, S, V, base, step, pick), <<{}, base>> \in Good
        PROVE  <<S, f[S]>> \in Good
    BY <1>1, <1>3, <1>16, <2>1, FoldsPreserve
  <2> QED
    BY <1>7, <1>15, <2>1
<1>18. Renames(old, new) = iter[S]
  BY DEF Renames, MapThenFoldSet
<1> QED
  BY <1>14, <1>17, <1>18

\* What diff_reports finds, by the matching it starts from.
LEMMA FindingsAre ==
    ASSUME NEW old, NEW new, NEW recheck, NEW documents
    PROVE  LET renames == Renames(old, new)
               found == Findings(old, new, recheck, documents)
           IN  /\ \A f \in found : \/ f.kind = "redefined"
                                   \/ \E p \in renames : f = Finding("renamed", p, documents)
                                   \/ \E n \in Came(old, new) \ {p[2] : p \in renames} :
                                         f = Finding("appeared", <<n>>, documents)
                                   \/ \E n \in Gone(old, new) \ {p[1] : p \in renames} :
                                         f = Finding("disappeared", <<n>>, documents)
               /\ \A p \in renames : Finding("renamed", p, documents) \in found
               /\ \A n \in Came(old, new) \ {p[2] : p \in renames} :
                     Finding("appeared", <<n>>, documents) \in found
               /\ \A n \in Gone(old, new) \ {p[1] : p \in renames} :
                     Finding("disappeared", <<n>>, documents) \in found
               /\ \A f \in found : f.kind = "redefined" =>
                     \E n \in Redefined(old, new, recheck) :
                        f = Finding("redefined", <<n>>, documents)
               /\ \A f \in found : f.kind = "renamed" =>
                     \E p \in renames : f = Finding("renamed", p, documents)
<1>1. \A names : /\ Finding("renamed", names, documents).kind = "renamed"
                 /\ Finding("redefined", names, documents).kind = "redefined"
                 /\ Finding("appeared", names, documents).kind = "appeared"
                 /\ Finding("disappeared", names, documents).kind = "disappeared"
  BY DEF Finding
<1> DEFINE renames == Renames(old, new)
           renamed == {Finding("renamed", p, documents) : p \in renames}
           redefined == {Finding("redefined", <<n>>, documents) : n \in Redefined(old, new, recheck)}
           came == Came(old, new) \ {p[2] : p \in renames}
           gone == Gone(old, new) \ {p[1] : p \in renames}
<1>2. Findings(old, new, recheck, documents) = renamed \cup redefined
         \cup {Finding("appeared", <<n>>, documents) : n \in came}
         \cup {Finding("disappeared", <<n>>, documents) : n \in gone}
  BY Zenon DEF Findings
<1> HIDE DEF renames, came, gone
<1>3. \A f \in Findings(old, new, recheck, documents) :
         \/ f.kind = "redefined"
         \/ \E p \in renames : f = Finding("renamed", p, documents)
         \/ \E n \in came : f = Finding("appeared", <<n>>, documents)
         \/ \E n \in gone : f = Finding("disappeared", <<n>>, documents)
  BY <1>1, <1>2
<1>4. /\ \A p \in renames : Finding("renamed", p, documents) \in Findings(old, new, recheck, documents)
      /\ \A n \in came : Finding("appeared", <<n>>, documents) \in Findings(old, new, recheck, documents)
      /\ \A n \in gone : Finding("disappeared", <<n>>, documents) \in Findings(old, new, recheck, documents)
  BY <1>2
<1>5. \A f \in Findings(old, new, recheck, documents) : f.kind = "redefined" =>
         \E n \in Redefined(old, new, recheck) : f = Finding("redefined", <<n>>, documents)
  BY <1>1, <1>2
<1>6. \A f \in Findings(old, new, recheck, documents) : f.kind = "renamed" =>
         \E p \in renames : f = Finding("renamed", p, documents)
  BY <1>1, <1>2
<1> QED
  BY <1>3, <1>4, <1>5, <1>6 DEF renames, came, gone

\* The findings of names that vanished or came.
Moved(found) == {f \in found : f.kind # "redefined"}

\* The findings in which n leaves, and those in which it enters.
Leaving(moved, n) == {f \in moved : /\ f.kind \in {"renamed", "disappeared"}
                                    /\ f.names[1] = n}
Entering(moved, n) == {f \in moved : \/ f.kind = "renamed" /\ f.names[2] = n
                                     \/ f.kind = "appeared" /\ f.names[1] = n}

\* A matching gives a register in which each name is moved once.
LEMMA RegisterPartitions ==
    ASSUME NEW old, NEW new, Numbered(old), Numbered(new), NEW recheck, NEW documents,
           NEW moved, moved = Moved(Findings(old, new, recheck, documents)), NEW n
    PROVE  /\ Cardinality(Leaving(moved, n)) = IF n \in Gone(old, new) THEN 1 ELSE 0
           /\ Cardinality(Entering(moved, n)) = IF n \in Came(old, new) THEN 1 ELSE 0
<1> DEFINE renames == Renames(old, new)
           Renamed(p) == Finding("renamed", p, documents)
           Appeared(c) == Finding("appeared", <<c>>, documents)
           Disappeared(g) == Finding("disappeared", <<g>>, documents)
           came == Came(old, new) \ {p[2] : p \in renames}
           gone == Gone(old, new) \ {p[1] : p \in renames}
           left == Leaving(moved, n)
           right == Entering(moved, n)
<1>1. /\ \A p : Renamed(p).kind = "renamed" /\ Renamed(p).names = p
      /\ \A c : Appeared(c).kind = "appeared" /\ Appeared(c).names[1] = c
      /\ \A g : Disappeared(g).kind = "disappeared" /\ Disappeared(g).names[1] = g
  BY DEF Finding
<1>2. Matching(old, new, renames, Gone(old, new))
  BY RenamesMatch
<1>3. /\ \A p \in renames : p[1] \in Gone(old, new) /\ p[2] \in Came(old, new)
      /\ \A p, q \in renames : p[1] = q[1] \/ p[2] = q[2] => p = q
  BY <1>2 DEF Matching
<1>4. \A f \in moved : \/ \E p \in renames : f = Renamed(p)
                       \/ \E c \in came : f = Appeared(c)
                       \/ \E g \in gone : f = Disappeared(g)
  BY FindingsAre DEF Moved
<1>5. /\ \A p \in renames : Renamed(p) \in moved
      /\ \A c \in came : Appeared(c) \in moved
      /\ \A g \in gone : Disappeared(g) \in moved
  BY <1>1, FindingsAre DEF Moved
<1>6. came \subseteq Came(old, new) /\ gone \subseteq Gone(old, new)
  OBVIOUS
<1>7. /\ \A p \in renames : p[2] \notin came /\ p[1] \notin gone
      /\ n \in Gone(old, new) /\ n \notin gone => \E p \in renames : p[1] = n
      /\ n \in Came(old, new) /\ n \notin came => \E p \in renames : p[2] = n
  OBVIOUS
<1> HIDE DEF renames, came, gone, Renamed, Appeared, Disappeared
<1>8. \A f \in left : \/ \E p \in renames : f = Renamed(p) /\ p[1] = n
                      \/ n \in gone /\ f = Disappeared(n)
  BY <1>1, <1>4 DEF Leaving
<1>9. \A f \in right : \/ \E p \in renames : f = Renamed(p) /\ p[2] = n
                       \/ n \in came /\ f = Appeared(n)
  BY <1>1, <1>4 DEF Entering
<1>10. /\ \A p \in renames : p[1] = n => Renamed(p) \in left
       /\ \A p \in renames : p[2] = n => Renamed(p) \in right
       /\ n \in gone => Disappeared(n) \in left
       /\ n \in came => Appeared(n) \in right
  BY <1>1, <1>5 DEF Leaving, Entering
<1> HIDE DEF left, right
<1>11. ASSUME n \in Gone(old, new) PROVE \E f : left = {f}
  <2>1. CASE n \in gone
    <3>1. left = {Disappeared(n)}
      BY <1>7, <1>8, <1>10, <2>1
    <3> QED
      BY <3>1
  <2>2. CASE n \notin gone
    <3>1. PICK p \in renames : p[1] = n
      BY <1>7, <1>11, <2>2
    <3>2. left = {Renamed(p)}
      BY <1>3, <1>8, <1>10, <2>2, <3>1
    <3> QED
      BY <3>2
  <2> QED
    BY <2>1, <2>2
<1>12. ASSUME n \in Came(old, new) PROVE \E f : right = {f}
  <2>1. CASE n \in came
    <3>1. right = {Appeared(n)}
      BY <1>7, <1>9, <1>10, <2>1
    <3> QED
      BY <3>1
  <2>2. CASE n \notin came
    <3>1. PICK p \in renames : p[2] = n
      BY <1>7, <1>12, <2>2
    <3>2. right = {Renamed(p)}
      BY <1>3, <1>9, <1>10, <2>2, <3>1
    <3> QED
      BY <3>2
  <2> QED
    BY <2>1, <2>2
<1>13. /\ n \notin Gone(old, new) => left = {}
       /\ n \notin Came(old, new) => right = {}
  BY <1>3, <1>6, <1>8, <1>9
<1> QED
  BY <1>11, <1>12, <1>13, FS_Singleton, FS_EmptySet DEF left, right

LEMMA NoPairLeft ==
    ASSUME NEW old, NEW new, Numbered(old), Numbered(new), NEW recheck, NEW documents,
           NEW moved, moved = Moved(Findings(old, new, recheck, documents)),
           NEW f \in moved, NEW g \in moved, f.kind = "disappeared", g.kind = "appeared"
    PROVE  \/ old.formula[f.names[1]] # new.formula[g.names[1]]
           \/ old.formula[f.names[1]] = NoFormula
<1> DEFINE renames == Renames(old, new)
<1>1. Matching(old, new, renames, Gone(old, new))
  BY RenamesMatch
<1>2. \A names : /\ Finding("renamed", names, documents).kind = "renamed"
                 /\ Finding("appeared", names, documents).kind = "appeared"
                 /\ Finding("appeared", names, documents).names = names
                 /\ Finding("disappeared", names, documents).kind = "disappeared"
                 /\ Finding("disappeared", names, documents).names = names
  BY DEF Finding
<1>3. \A h \in moved : \/ \E p \in renames : h = Finding("renamed", p, documents)
                       \/ \E c \in Came(old, new) \ {p[2] : p \in renames} :
                             h = Finding("appeared", <<c>>, documents)
                       \/ \E n \in Gone(old, new) \ {p[1] : p \in renames} :
                             h = Finding("disappeared", <<n>>, documents)
  BY FindingsAre DEF Moved
<1>4. PICK n \in Gone(old, new) \ {p[1] : p \in renames} :
         f = Finding("disappeared", <<n>>, documents)
  BY <1>2, <1>3
<1>5. PICK c \in Came(old, new) \ {p[2] : p \in renames} :
         g = Finding("appeared", <<c>>, documents)
  BY <1>2, <1>3
<1>6. f.names[1] = n /\ g.names[1] = c
  BY <1>2, <1>4, <1>5
<1>7. n \in Gone(old, new) /\ c \in Came(old, new)
      /\ \A p \in renames : p[1] # n /\ p[2] # c
  OBVIOUS
<1> HIDE DEF renames
<1> QED
  BY <1>1, <1>6, <1>7 DEF Matching

-----------------------------------------------------------------------------
(* The figures of one report.                                              *)

\* What each row, each total and each footnote is printed as.
TotalPrint(report, table) == Figure(table.metric, report.asOf, <<>>, table.total)
RowPrint(report, table, row) ==
    IF table.dim = NoDim
    THEN Orphan(Figure(row.label, report.asOf, <<>>, row.value))
    ELSE [id |-> Figure(table.metric, report.asOf, <<table.dim, row.label>>, row.value),
          parent |-> IF table.total # NoTotal THEN TotalPrint(report, table) ELSE NoParent]
NotePrint(note) == Orphan(Figure(note.metric, note.date, <<>>, note.value))

RowPrints(report, table) == {RowPrint(report, table, table.rows[i]) : i \in DOMAIN table.rows}
TotalPrints(report, table) ==
    IF table.dim # NoDim /\ table.total # NoTotal THEN {Orphan(TotalPrint(report, table))} ELSE {}
TablePrints(report, table) == RowPrints(report, table) \cup TotalPrints(report, table)
NotePrints(report) == {NotePrint(report.footnotes[i]) : i \in DOMAIN report.footnotes}
Prints(report) ==
    NotePrints(report) \cup UNION {TablePrints(report, table) : table \in Range(report.tables)}

\* A sequence has these elements and no others.
Lists(seq, S) == seq \in Seq(S) /\ \A x \in S : \E k \in 1..Len(seq) : seq[k] = x

LEMMA MapLists ==
    ASSUME NEW T, NEW s \in Seq(T), NEW V, NEW f \in [DOMAIN s -> V]
    PROVE  Lists(f, {f[i] : i \in DOMAIN s})
<1> DEFINE S == {f[i] : i \in DOMAIN s}
           n == Len(s)
<1>1. n \in Nat /\ DOMAIN s = 1..n
  BY LenProperties
<1>2. f \in [1..n -> S]
  BY <1>1
<1>3. \A x \in S : \E k \in 1..n : f[k] = x
  BY <1>1
<1> HIDE DEF S, n
<1>4. f \in Seq(S) /\ Len(f) = n
  BY <1>1, <1>2
<1> QED
  BY <1>3, <1>4 DEF Lists, S

LEMMA ShortLists == Lists(<<>>, {}) /\ \A x : Lists(<<x>>, {x})
<1>1. ASSUME NEW x PROVE Lists(<<x>>, {x})
  <2> DEFINE s == <<x>>
  <2>1. s \in Seq({x}) /\ Len(s) = 1 /\ s[1] = x /\ 1 \in 1..1
    OBVIOUS
  <2> HIDE DEF s
  <2>2. Lists(s, {x})
    BY <2>1 DEF Lists
  <2> QED
    BY <2>2 DEF s
<1>2. Lists(<<>>, {})
  BY EmptySeq DEF Lists
<1> QED
  BY <1>1, <1>2

LEMMA ConcatLists ==
    ASSUME NEW S, NEW T, NEW s, Lists(s, S), NEW t, Lists(t, T)
    PROVE  Lists(s \o t, S \cup T)
<1>1. s \in Seq(S \cup T) /\ t \in Seq(S \cup T)
  <2>1. s \in Seq(S) /\ t \in Seq(T) /\ S \subseteq S \cup T /\ T \subseteq S \cup T
    BY DEF Lists
  <2> QED
    BY <2>1
<1>2. s \o t \in Seq(S \cup T) /\ Together(s \o t, s, t)
  BY <1>1, ConcatElements
<1>3. ASSUME NEW x \in S \cup T PROVE \E k \in 1..Len(s \o t) : (s \o t)[k] = x
  <2>1. CASE x \in S
    <3>1. PICK i \in 1..Len(s) : s[i] = x
      BY <2>1 DEF Lists
    <3> QED
      BY <1>2, <3>1 DEF Together
  <2>2. CASE x \in T
    <3>1. PICK i \in 1..Len(t) : t[i] = x
      BY <2>2 DEF Lists
    <3> QED
      BY <1>2, <3>1 DEF Together
  <2> QED
    BY <2>1, <2>2
<1> QED
  BY <1>2, <1>3 DEF Lists

LEMMA TableLists ==
    ASSUME NEW report, NEW table, table.rows \in Seq(Range(table.rows))
    PROVE  Lists(TableFigures(report, table), TablePrints(report, table))
<1> DEFINE rows == table.rows
           Of(i) == RowPrint(report, table, rows[i])
           printed == [i \in DOMAIN rows |-> Of(i)]
           V == {Of(i) : i \in DOMAIN rows}
           total == Orphan(TotalPrint(report, table))
<1>1. /\ rows \in Seq(Range(rows)) /\ printed \in [DOMAIN rows -> V]
      /\ RowPrints(report, table) = {printed[i] : i \in DOMAIN rows}
  BY DEF RowPrints
<1>2. Lists(printed, RowPrints(report, table))
  <2> HIDE DEF rows, printed, V
  <2>1. Lists(printed, {printed[i] : i \in DOMAIN rows})
    BY <1>1, MapLists
  <2> QED
    BY <1>1, <2>1
<1>3. CASE table.dim = NoDim
  <2>1. TableFigures(report, table) = printed
    BY <1>3, Zenon DEF TableFigures, RowPrint
  <2>2. TotalPrints(report, table) = {}
    BY <1>3 DEF TotalPrints
  <2>3. TablePrints(report, table) = RowPrints(report, table)
    BY <2>2 DEF TablePrints
  <2> QED
    BY <1>2, <2>1, <2>3
<1>4. CASE table.dim # NoDim
  <2>1. \A i \in DOMAIN rows : Of(i) =
          [id |-> Figure(table.metric, report.asOf, <<table.dim, rows[i].label>>, rows[i].value),
           parent |-> IF table.total # NoTotal THEN TotalPrint(report, table) ELSE NoParent]
    BY <1>4 DEF RowPrint
  <2>2. TableFigures(report, table) =
          printed \o (IF table.total # NoTotal THEN <<total>> ELSE <<>>)
    BY <1>4, <2>1, Zenon DEF TableFigures, TotalPrint
  <2>3. Lists(IF table.total # NoTotal THEN <<total>> ELSE <<>>, TotalPrints(report, table))
    BY <1>4, ShortLists DEF TotalPrints
  <2> HIDE DEF printed
  <2> QED
    BY <1>2, <2>2, <2>3, ConcatLists DEF TablePrints
<1> QED
  BY <1>3, <1>4

\* Everything that is printed, legible or not, in the order of the pages.
Pages(report) ==
    FlattenSeq([t \in DOMAIN report.tables |-> TableFigures(report, report.tables[t])])
    \o FootnoteFigures(report)

LEMMA PagesList ==
    ASSUME NEW report, IsReport(report)
    PROVE  Lists(Pages(report), Prints(report))
<1> DEFINE tables == report.tables
           seqs == [t \in DOMAIN tables |-> TableFigures(report, tables[t])]
           T == UNION {TablePrints(report, table) : table \in Range(tables)}
<1>1. tables \in Seq(Range(tables)) /\ \A t \in DOMAIN tables : tables[t] \in Range(tables)
  BY DEF IsReport, Range
<1>2. Len(tables) \in Nat /\ DOMAIN tables = 1..Len(tables)
  <2> HIDE DEF tables
  <2> QED
    BY <1>1, LenProperties
<1>3. ASSUME NEW t \in DOMAIN tables
      PROVE  Lists(seqs[t], TablePrints(report, tables[t])) /\ TablePrints(report, tables[t]) \subseteq T
  <2>1. tables[t].rows \in Seq(Range(tables[t].rows))
    BY <1>1 DEF IsReport
  <2> QED
    BY <1>1, <2>1, TableLists
<1>4. \A x \in T : \E t \in DOMAIN tables : x \in TablePrints(report, tables[t])
  BY DEF Range
<1> HIDE DEF T
<1>5. \A t \in DOMAIN tables : seqs[t] \in Seq(T)
  <2> SUFFICES ASSUME NEW t \in DOMAIN tables PROVE seqs[t] \in Seq(T)
    OBVIOUS
  <2>1. seqs[t] \in Seq(TablePrints(report, tables[t])) /\ TablePrints(report, tables[t]) \subseteq T
    BY <1>3 DEF Lists
  <2> QED
    BY <2>1
<1>6. DOMAIN seqs = DOMAIN tables
  OBVIOUS
<1>7. seqs \in [1..Len(tables) -> Seq(T)]
  <2> HIDE DEF tables
  <2> QED
    BY <1>2, <1>5
<1> DEFINE n == Len(tables)
<1>8. seqs \in Seq(Seq(T)) /\ Len(seqs) = n
  <2> HIDE DEF tables, seqs
  <2> QED
    BY <1>2, <1>7
<1> HIDE DEF seqs
<1>9. Lists(FlattenSeq(seqs), T)
  <2>1. /\ FlattenSeq(seqs) \in Seq(T)
        /\ \A t \in 1..n : \A i \in 1..Len(seqs[t]) :
              \E k \in 1..Len(FlattenSeq(seqs)) : FlattenSeq(seqs)[k] = seqs[t][i]
    <3> HIDE DEF n, tables
    <3>1. /\ FlattenSeq(seqs) \in Seq(T)
          /\ \A t \in 1..Len(seqs) : \A i \in 1..Len(seqs[t]) :
                \E k \in 1..Len(FlattenSeq(seqs)) : FlattenSeq(seqs)[k] = seqs[t][i]
      BY <1>8, FlattenElements
    <3> QED
      BY <1>8, <3>1
  <2>2. ASSUME NEW x \in T PROVE \E k \in 1..Len(FlattenSeq(seqs)) : FlattenSeq(seqs)[k] = x
    <3>1. PICK t \in DOMAIN tables : x \in TablePrints(report, tables[t])
      BY <1>4
    <3>2. PICK i \in 1..Len(seqs[t]) : seqs[t][i] = x
      BY <1>3, <3>1 DEF Lists
    <3> QED
      BY <1>2, <2>1, <3>1, <3>2
  <2> QED
    BY <2>1, <2>2 DEF Lists
<1>10. Lists(FootnoteFigures(report), NotePrints(report))
  <2> DEFINE notes == report.footnotes
             V == {NotePrint(notes[i]) : i \in DOMAIN notes}
             printed == [i \in DOMAIN notes |-> NotePrint(notes[i])]
  <2>1. /\ printed \in [DOMAIN notes -> V]
        /\ NotePrints(report) = {printed[i] : i \in DOMAIN notes}
    BY DEF NotePrints
  <2>2. FootnoteFigures(report) = printed
    BY DEF FootnoteFigures, NotePrint
  <2>3. notes \in Seq([metric : Nat, date : Int, value : Int])
    BY DEF IsReport
  <2> HIDE DEF notes, V, printed
  <2> QED
    <3>1. Lists(printed, {printed[i] : i \in DOMAIN notes})
      BY <2>1, <2>3, MapLists
    <3> QED
      BY <2>1, <2>2, <3>1
<1>11. Pages(report) = FlattenSeq(seqs) \o FootnoteFigures(report)
  BY DEF Pages, seqs
<1>12. Prints(report) = T \cup NotePrints(report)
  BY DEF Prints, T
<1> QED
  BY <1>9, <1>10, <1>11, <1>12, ConcatLists

\* A deduplicated list: what is left has one element per identity, the first.
LEMMA DedupedLists ==
    ASSUME NEW T, NEW list \in Seq(T)
    PROVE  LET left == Deduped(list)
           IN  /\ left \in Seq(T)
               /\ \A i, j \in 1..Len(left) : left[i].id = left[j].id => i = j
               /\ \A i \in 1..Len(left) : \E k \in 1..Len(list) : left[i] = list[k]
               /\ \A k \in 1..Len(list) : \E i \in 1..Len(left) : left[i].id = list[k].id
<1> DEFINE first == {i \in DOMAIN list : \A j \in 1..(i - 1) : list[j].id # list[i].id}
           left == Kept(list, first)
<1>1. Deduped(list) = left
  BY DEF Deduped
<1>2. Len(list) \in Nat /\ DOMAIN list = 1..Len(list)
  BY LenProperties
<1>3. \A i \in first : \A j \in 1..Len(list) : j < i => list[j].id # list[i].id
  BY <1>2
<1>4. \A k \in 1..Len(list) : \E i \in first : list[i].id = list[k].id
  <2> SUFFICES ASSUME NEW k \in 1..Len(list) PROVE \E i \in first : list[i].id = list[k].id
    OBVIOUS
  <2> DEFINE same == {i \in 1..Len(list) : list[i].id = list[k].id}
  <2>1. k \in same /\ same \in SUBSET Nat
    BY <1>2
  <2> HIDE DEF same
  <2>2. PICK i \in same : \A n \in same : i <= n
    BY <2>1, LeastNumber
  <2>3. i \in 1..Len(list) /\ list[i].id = list[k].id
    BY DEF same
  <2>4. ASSUME NEW j \in 1..(i - 1), list[j].id = list[i].id PROVE FALSE
    <3>1. j \in 1..Len(list) /\ ~(i <= j)
      BY <1>2, <2>3
    <3>2. j \in same
      BY <2>3, <2>4, <3>1 DEF same
    <3> QED
      BY <2>2, <3>1, <3>2
  <2> QED
    BY <1>2, <2>3, <2>4
<1>5. first \subseteq 1..Len(list)
  BY <1>2
<1> HIDE DEF first, left
<1>6. Kept(list, first) \in Seq(T) /\ \E pos : KeptAt(list, first, Kept(list, first), pos)
  BY KeptPositions
<1>7. PICK pos : KeptAt(list, first, left, pos)
  BY <1>6 DEF left
<1>8. left \in Seq(T) /\ Len(left) \in Nat
  BY <1>6, LenProperties DEF left
<1>9. /\ \A k \in 1..Len(left) : /\ pos[k] \in 1..Len(list) /\ pos[k] \in first
                                  /\ left[k] = list[pos[k]]
      /\ \A j, k \in 1..Len(left) : j < k => pos[j] < pos[k]
      /\ \A i \in 1..Len(list) : i \in first => \E k \in 1..Len(left) : pos[k] = i
  BY <1>7 DEF KeptAt
<1>10. ASSUME NEW i \in 1..Len(left), NEW j \in 1..Len(left), i < j
       PROVE  left[i].id # left[j].id
  <2>1. pos[i] < pos[j] /\ pos[i] \in 1..Len(list) /\ pos[j] \in first
    BY <1>9, <1>10
  <2>2. list[pos[i]].id # list[pos[j]].id
    BY <1>3, <2>1
  <2> QED
    BY <1>9, <2>2
<1>11. \A i, j \in 1..Len(left) : left[i].id = left[j].id => i = j
  <2> SUFFICES ASSUME NEW i \in 1..Len(left), NEW j \in 1..Len(left),
                      left[i].id = left[j].id, i # j
               PROVE  FALSE
    OBVIOUS
  <2>1. i < j \/ j < i
    BY <1>8
  <2> QED
    BY <1>10, <2>1
<1>12. \A i \in 1..Len(left) : \E k \in 1..Len(list) : left[i] = list[k]
  BY <1>9
<1>13. ASSUME NEW k \in 1..Len(list) PROVE \E i \in 1..Len(left) : left[i].id = list[k].id
  <2>1. PICK m \in first : list[m].id = list[k].id
    BY <1>4
  <2>2. PICK i \in 1..Len(left) : pos[i] = m
    BY <1>5, <1>9, <2>1
  <2> QED
    BY <1>9, <2>1, <2>2
<1> QED
  BY <1>1, <1>8, <1>11, <1>12, <1>13

\* The figures of a report: each legible one that is printed, once.
LEMMA FiguresAre ==
    ASSUME NEW report, IsReport(report)
    PROVE  LET figures == Figures(report)
           IN  /\ figures \in Seq(Prints(report))
               /\ \A i \in 1..Len(figures) : figures[i].id.value \notin report.garbled
               /\ \A i, j \in 1..Len(figures) : figures[i].id = figures[j].id => i = j
               /\ \A x \in Prints(report) : x.id.value \notin report.garbled =>
                     \E i \in 1..Len(figures) : figures[i].id = x.id
<1> DEFINE pages == Pages(report)
           T == Prints(report)
           good == {i \in DOMAIN pages : pages[i].id.value \notin report.garbled}
           list == Kept(pages, good)
           figures == Deduped(list)
<1>1. pages \in Seq(T) /\ \A x \in T : \E k \in 1..Len(pages) : pages[k] = x
  BY PagesList DEF Lists
<1>2. Figures(report) = figures
  BY DEF Figures, Pages, PostValidated
<1>3. DOMAIN pages = 1..Len(pages)
  BY <1>1, LenProperties
<1>4. \A i \in 1..Len(pages) : i \in good <=> pages[i].id.value \notin report.garbled
  BY <1>3
<1> HIDE DEF pages, T, good, list
<1>5. Kept(pages, good) \in Seq(T) /\ \E pos : KeptAt(pages, good, Kept(pages, good), pos)
  BY <1>1, KeptPositions
<1>6. PICK pos : KeptAt(pages, good, list, pos)
  BY <1>5 DEF list
<1>7. /\ \A k \in 1..Len(list) : /\ pos[k] \in 1..Len(pages) /\ pos[k] \in good
                                  /\ list[k] = pages[pos[k]]
      /\ \A i \in 1..Len(pages) : i \in good => \E k \in 1..Len(list) : pos[k] = i
  BY <1>6 DEF KeptAt
<1>8. list \in Seq(T)
  BY <1>5 DEF list
<1> HIDE DEF figures
<1>9. /\ figures \in Seq(T)
      /\ \A i, j \in 1..Len(figures) : figures[i].id = figures[j].id => i = j
      /\ \A i \in 1..Len(figures) : \E k \in 1..Len(list) : figures[i] = list[k]
      /\ \A k \in 1..Len(list) : \E i \in 1..Len(figures) : figures[i].id = list[k].id
  BY <1>8, DedupedLists DEF figures
<1>10. ASSUME NEW i \in 1..Len(figures) PROVE figures[i].id.value \notin report.garbled
  <2>1. PICK k \in 1..Len(list) : figures[i] = list[k]
    BY <1>9
  <2>2. pos[k] \in 1..Len(pages) /\ pos[k] \in good /\ list[k] = pages[pos[k]]
    BY <1>7
  <2>3. pages[pos[k]].id.value \notin report.garbled
    BY <1>4, <2>2
  <2> QED
    BY <2>1, <2>2, <2>3
<1>11. ASSUME NEW x \in T, x.id.value \notin report.garbled
       PROVE  \E i \in 1..Len(figures) : figures[i].id = x.id
  <2>1. PICK p \in 1..Len(pages) : pages[p] = x
    BY <1>1
  <2>2. PICK k \in 1..Len(list) : list[k] = x
    BY <1>4, <1>7, <1>11, <2>1
  <2> QED
    BY <1>9, <2>2
<1> QED
  BY <1>2, <1>9, <1>10, <1>11 DEF T

\* The metrics of a report are numbers, and finitely many.
LEMMA MetricsNumbered ==
    ASSUME NEW report, IsReport(report)
    PROVE  /\ IsFiniteSet(MetricNames(Figures(report)))
           /\ MetricNames(Figures(report)) \subseteq Nat
<1> DEFINE figures == Figures(report)
           totals == {j \in DOMAIN figures : figures[j].id.dims = <<>>}
           name == [i \in totals |-> figures[i].id.metric]
<1>1. figures \in Seq(Prints(report))
  BY FiguresAre
<1>2. MetricNames(figures) = {name[i] : i \in totals}
  BY DEF MetricNames
<1>3. ASSUME NEW x \in Prints(report), x.id.dims = <<>> PROVE x.id.metric \in Nat
  <2>1. CASE x \in NotePrints(report)
    <3>1. PICK i \in DOMAIN report.footnotes : x = NotePrint(report.footnotes[i])
      BY <2>1 DEF NotePrints
    <3>2. report.footnotes \in Seq([metric : Nat, date : Int, value : Int])
      BY DEF IsReport
    <3>3. report.footnotes[i] \in [metric : Nat, date : Int, value : Int]
      <4> DEFINE notes == report.footnotes
                 Note == [metric : Nat, date : Int, value : Int]
      <4>1. notes \in Seq(Note) /\ i \in DOMAIN notes
        BY <3>2
      <4> HIDE DEF notes, Note
      <4>2. i \in 1..Len(notes)
        BY <4>1, LenProperties
      <4>3. notes[i] \in Note
        BY <4>1, <4>2, ElementOfSeq
      <4> QED
        BY <4>3 DEF notes, Note
    <3> QED
      BY <3>1, <3>3 DEF NotePrint, Orphan, Figure
  <2>2. ASSUME NEW table \in Range(report.tables), x \in TablePrints(report, table)
        PROVE  x.id.metric \in Nat
    <3>1. CASE x \in RowPrints(report, table)
      <4>1. PICK i \in DOMAIN table.rows : x = RowPrint(report, table, table.rows[i])
        BY <3>1 DEF RowPrints
      <4>2. CASE table.dim = NoDim
        <5>1. x.id.metric = table.rows[i].label
          BY <4>1, <4>2 DEF RowPrint, Orphan, Figure
        <5>2. table.rows[i] \in Range(table.rows)
          BY DEF Range
        <5> QED
          BY <4>2, <5>1, <5>2 DEF IsReport
      <4>3. CASE table.dim # NoDim
        <5>1. x.id.metric = table.metric
          BY <4>1, <4>3 DEF RowPrint, Figure
        <5> QED
          BY <5>1 DEF IsReport
      <4> QED
        BY <4>2, <4>3
    <3>2. CASE x \in TotalPrints(report, table)
      <4>1. x.id.metric = table.metric
        BY <3>2 DEF TotalPrints, TotalPrint, Orphan, Figure
      <4> QED
        BY <4>1 DEF IsReport
    <3> QED
      BY <2>2, <3>1, <3>2 DEF TablePrints
  <2> QED
    BY <2>1, <2>2 DEF Prints
<1>4. Len(figures) \in Nat /\ DOMAIN figures = 1..Len(figures)
  <2> HIDE DEF figures
  <2> QED
    BY <1>1, LenProperties
<1>5. \A i \in totals : figures[i].id.metric \in Nat
  <2> SUFFICES ASSUME NEW i \in totals PROVE figures[i].id.metric \in Nat
    OBVIOUS
  <2>1. figures[i].id.dims = <<>> /\ i \in 1..Len(figures)
    BY <1>4
  <2> HIDE DEF figures
  <2>2. figures[i] \in Prints(report)
    BY <1>1, <2>1, ElementOfSeq
  <2> QED
    BY <1>3, <2>1, <2>2
<1>6. IsFiniteSet(totals)
  <2>1. totals \subseteq 1..Len(figures)
    BY <1>4
  <2> HIDE DEF totals, figures
  <2>2. IsFiniteSet(1..Len(figures))
    BY <1>4, FS_Interval
  <2> QED
    BY <2>1, <2>2, FS_Subset
<1>7. IsFiniteSet({name[i] : i \in totals})
  <2> HIDE DEF name, totals
  <2> QED
    BY <1>6, ImageFinite
<1>8. {name[i] : i \in totals} \subseteq Nat
  BY <1>5
<1> QED
  BY <1>2, <1>7, <1>8

-----------------------------------------------------------------------------
(* The editions that drift compares.                                       *)

Dated(editions) ==
    /\ Len(editions) \in Nat /\ DOMAIN editions = 1..Len(editions)
    /\ \A r \in 1..Len(editions) : editions[r].asOf \in Int

\* Each edition has a place of its own in the order of their dates.
LEMMA RanksAre ==
    ASSUME NEW editions, Dated(editions)
    PROVE  \A k \in 1..Len(editions) : \E r \in 1..Len(editions) :
              Cardinality(Earlier(editions, r)) = k - 1
<1> DEFINE N == Len(editions)
           rank == [r \in 1..N |-> Cardinality(Earlier(editions, r))]
<1>1. N \in Nat /\ IsFiniteSet(1..N) /\ Cardinality(1..N) = N
  BY FS_Interval DEF Dated
<1>2. IsFiniteSet(0..(N - 1)) /\ Cardinality(0..(N - 1)) = N
  <2>1. 0 \in Int /\ N - 1 \in Int
    BY <1>1
  <2>2. /\ IsFiniteSet(0..(N - 1))
        /\ Cardinality(0..(N - 1)) = IF 0 > N - 1 THEN 0 ELSE (N - 1) - 0 + 1
    BY <2>1, FS_Interval
  <2> QED
    BY <1>1, <2>2
<1>3. \A r \in 1..N : Earlier(editions, r) \in SUBSET ((1..N) \ {r})
  BY DEF Earlier, Dated
<1>4. \A r \in 1..N : /\ IsFiniteSet(Earlier(editions, r))
                      /\ Cardinality(Earlier(editions, r)) \in 0..(N - 1)
  <2> SUFFICES ASSUME NEW r \in 1..N
               PROVE  /\ IsFiniteSet(Earlier(editions, r))
                      /\ Cardinality(Earlier(editions, r)) \in 0..(N - 1)
    OBVIOUS
  <2> HIDE DEF N
  <2>1. IsFiniteSet((1..N) \ {r}) /\ Cardinality((1..N) \ {r}) = N - 1
    BY <1>1, FS_RemoveElement
  <2>2. /\ IsFiniteSet(Earlier(editions, r))
        /\ Cardinality(Earlier(editions, r)) <= Cardinality((1..N) \ {r})
    BY <1>3, <2>1, FS_Subset
  <2>3. Cardinality(Earlier(editions, r)) \in Nat
    BY <2>2, FS_CardinalityType
  <2> QED
    BY <1>1, <2>1, <2>2, <2>3
<1>5. ASSUME NEW r \in 1..N, NEW s \in 1..N, r \in Earlier(editions, s)
      PROVE  Cardinality(Earlier(editions, r)) # Cardinality(Earlier(editions, s))
  <2>1. Earlier(editions, r) \in SUBSET Earlier(editions, s)
    BY <1>5 DEF Earlier, Dated
  <2>2. r \notin Earlier(editions, r)
    BY <1>3
  <2>3. IsFiniteSet(Earlier(editions, s))
    BY <1>4
  <2> QED
    BY <1>5, <2>1, <2>2, <2>3, FS_Subset
<1>6. \A r, s \in 1..N : r # s => r \in Earlier(editions, s) \/ s \in Earlier(editions, r)
  BY DEF Earlier, Dated
<1>7. rank \in Injection(1..N, 0..(N - 1))
  <2>1. rank \in [1..N -> 0..(N - 1)]
    BY <1>4
  <2>2. \A r, s \in 1..N : r # s => rank[r] # rank[s]
    BY <1>5, <1>6
  <2> HIDE DEF rank, N
  <2> QED
    BY <2>1, <2>2 DEF Injection, IsInjective
<1>8. rank \in Surjection(1..N, 0..(N - 1))
  <2> HIDE DEF rank, N
  <2> QED
    BY <1>1, <1>2, <1>7, FS_Injection
<1>9. \A k \in 1..N : k - 1 \in 0..(N - 1)
  BY <1>1
<1>10. \A k \in 1..N : \E r \in 1..N : rank[r] = k - 1
  <2> HIDE DEF rank, N
  <2> QED
    BY <1>8, <1>9 DEF Surjection
<1> QED
  BY <1>10

LEMMA ByDateIs ==
    ASSUME NEW editions, Dated(editions), NEW k \in 1..Len(editions)
    PROVE  /\ ByDate(editions)[k] \in 1..Len(editions)
           /\ Cardinality(Earlier(editions, ByDate(editions)[k])) = k - 1
<1> DEFINE D == DOMAIN editions
           Rank(r) == Cardinality(Earlier(editions, r))
<1>1. k \in D /\ ByDate(editions)[k] = CHOOSE r \in D : Rank(r) = k - 1
  BY DEF ByDate, Dated
<1>2. \E r \in D : Rank(r) = k - 1
  BY RanksAre DEF Dated
<1> HIDE DEF Rank
<1>3. ByDate(editions)[k] \in D /\ Rank(ByDate(editions)[k]) = k - 1
  <2> DEFINE chosen == CHOOSE r \in D : Rank(r) = k - 1
  <2>1. chosen \in D /\ Rank(chosen) = k - 1
    BY <1>2
  <2> QED
    BY <1>1, <2>1
<1> QED
  BY <1>3 DEF Rank, Dated

\* Files in the order of their dates stay in it.
LEMMA SortedStays ==
    ASSUME NEW editions, Dated(editions),
           \A r, s \in DOMAIN editions : r < s => editions[r].asOf <= editions[s].asOf,
           NEW k \in 1..Len(editions)
    PROVE  ByDate(editions)[k] = k
<1> DEFINE r == ByDate(editions)[k]
<1>1. r \in 1..Len(editions) /\ Cardinality(Earlier(editions, r)) = k - 1
  BY ByDateIs
<1> HIDE DEF r
<1>2. Earlier(editions, r) = 1..(r - 1)
  BY <1>1 DEF Earlier, Dated
<1>3. Cardinality(1..(r - 1)) = r - 1
  <2>1. 1 \in Int /\ r \in Int /\ r - 1 \in Int /\ r >= 1
    BY <1>1 DEF Dated
  <2>2. Cardinality(1..(r - 1)) = IF 1 > r - 1 THEN 0 ELSE (r - 1) - 1 + 1
    BY <2>1, FS_Interval
  <2> QED
    BY <2>1, <2>2
<1>4. r = k
  BY <1>1, <1>2, <1>3
<1> QED
  BY <1>4 DEF r

\* When drift has run, the two editions it compared are two of the reports.
LEMMA EditionsAre ==
    ASSUME RunInv, Diffed
    PROVE  /\ Dated(reports) /\ Len(verdicts) = Len(reports) /\ Len(reports) >= 2
           /\ \A r \in 1..Len(reports) : Numbered(Edition(r))
           /\ Numbered(Older) /\ Numbered(Newer)
<1>1. Len(verdicts) = Len(reports) /\ Len(extractions) = Len(reports) /\ Len(reports) >= 2
  BY DEF RunInv, Diffed
<1>2. Len(reports) \in Nat /\ DOMAIN reports = 1..Len(reports)
  BY LenProperties DEF RunInv
<1>3. \A r \in 1..Len(reports) : IsReport(reports[r])
  <2>1. \A report \in Printed : IsReport(report)
    BY DirectoriesAssumption DEF Printed
  <2> QED
    BY <2>1, ElementOfSeq DEF RunInv
<1>4. Dated(reports)
  BY <1>1, <1>2, <1>3 DEF Dated, RunInv, IsReport
<1>5. ASSUME NEW r \in 1..Len(reports) PROVE Numbered(Edition(r))
  <2>1. extractions[r] = Extraction(reports[r]) /\ verdicts[r] \in Sheets(extractions[r].figures)
    BY <1>1 DEF RunInv
  <2>2. extractions[r].figures = Figures(reports[r])
    BY <2>1 DEF Extraction
  <2>3. DOMAIN verdicts[r] = MetricNames(Figures(reports[r]))
    BY <2>1, <2>2 DEF Sheets
  <2>4. Edition(r).names = DOMAIN verdicts[r]
    BY DEF Edition
  <2> QED
    BY <1>3, <2>3, <2>4, MetricsNumbered DEF Numbered
<1>6. \A k \in 1..Len(reports) : ByDate(reports)[k] \in 1..Len(reports)
  BY <1>4, ByDateIs
<1>7. Len(reports) \in 1..Len(reports) /\ Len(reports) - 1 \in 1..Len(reports)
  BY <1>1, <1>2
<1>8. Numbered(Older) /\ Numbered(Newer)
  BY <1>5, <1>6, <1>7 DEF Older, Newer
<1> QED
  BY <1>1, <1>4, <1>5, <1>8

LEMMA PartitionFollows == RunInv /\ DriftInv => DriftPartitions
<1> SUFFICES ASSUME RunInv, DriftInv, Diffed
             PROVE  DriftPartitions
  BY DEF DriftPartitions
<1>1. PICK recheck \in Rechecks(Older, Newer) :
         findings = Findings(Older, Newer, recheck, mentioned)
  BY DEF DriftInv
<1>2. Numbered(Older) /\ Numbered(Newer)
  BY EditionsAre
<1> DEFINE moved == {f \in findings : f.kind # "redefined"}
<1>3. moved = Moved(Findings(Older, Newer, recheck, mentioned))
  BY <1>1 DEF Moved
<1> HIDE DEF moved
<1>4. ASSUME NEW n
      PROVE  /\ Cardinality(Leaving(moved, n)) = IF n \in Gone(Older, Newer) THEN 1 ELSE 0
             /\ Cardinality(Entering(moved, n)) = IF n \in Came(Older, Newer) THEN 1 ELSE 0
  BY <1>2, <1>3, RegisterPartitions
<1>5. ASSUME NEW f \in moved, NEW g \in moved, f.kind = "disappeared", g.kind = "appeared"
      PROVE  \/ Older.formula[f.names[1]] # Newer.formula[g.names[1]]
             \/ Older.formula[f.names[1]] = NoFormula
  BY <1>2, <1>3, <1>5, NoPairLeft
<1> QED
  BY <1>4, <1>5 DEF DriftPartitions, Leaving, Entering, moved

\* Drift accounts for each name that vanished or came exactly once, and leaves no
\* disappearance beside an appearance with its formula, for any two editions with
\* any number of metrics (report_diff.py:72-96).
THEOREM DriftPartitionsHolds == Spec => []DriftPartitions
<1>1. Init => DriftInv
  BY DEF Init, DriftInv, Diffed
<1>2. RunInv /\ DriftInv /\ [Next]_vars => DriftInv'
  BY DriftStep
<1>3. RunInv /\ DriftInv => DriftPartitions
  BY PartitionFollows
<1> QED
  BY <1>1, <1>2, <1>3, RunHolds, PTL DEF Spec

-----------------------------------------------------------------------------

\* What the last edition knows a formula for is emitted with that formula.
LEMMA LastEditionEmitted ==
    ASSUME RunInv, ProposalsInv, Diffed, stage # "propose",
           NEW n \in DOMAIN verdicts[Len(reports)],
           verdicts[Len(reports)][n].best # NoFormula
    PROVE  \E m \in EmittedMetrics :
              /\ m.name = n
              /\ m.formula = verdicts[Len(reports)][n].best
              /\ Synonyms(n) \subseteq m.synonyms
<1> DEFINE N == Len(reports)
<1>1. Len(verdicts) = N /\ Len(extractions) = N /\ N \in Nat /\ N >= 2 /\ stage \in {"emit", "report"}
  BY LenProperties DEF RunInv, Diffed
<1>2. DOMAIN verdicts = 1..N /\ N \in 1..N
  BY <1>1, LenProperties DEF RunInv
<1>3. verdicts[N][n].band \in Trusted
  <2>1. verdicts[N] \in Sheets(extractions[N].figures)
    BY <1>1, <1>2 DEF RunInv
  <2>2. PICK k : verdicts[N][n] \in Contract!VerdictsOn(k)
    BY <2>1 DEF Sheets
  <2> QED
    BY <2>2 DEF Contract!VerdictsOn, Bands, Trusted
<1>4. N \in Accepting(n, Trusted) /\ n \in AcceptedMetrics(Trusted)
  BY <1>2, <1>3 DEF Accepting, AcceptedMetrics, Metrics
<1>5. Latest(n, Trusted) = N
  <2>1. /\ Latest(n, Trusted) \in Accepting(n, Trusted)
        /\ \A r \in Accepting(n, Trusted) : r <= Latest(n, Trusted)
    BY <1>4, LatestIs
  <2>2. Latest(n, Trusted) \in 1..N /\ N <= Latest(n, Trusted)
    BY <1>2, <1>4, <2>1 DEF Accepting
  <2> QED
    BY <1>1, <2>2
<1>6. LatestVerdict(n, Trusted) = verdicts[N][n]
  BY <1>5 DEF LatestVerdict
<1> QED
  BY <1>1, <1>4, <1>6 DEF ProposalsInv

LEMMA EmissionFollows == RunInv /\ DriftInv /\ ProposalsInv => EmissionFollowsDrift
<1> SUFFICES ASSUME RunInv, DriftInv, ProposalsInv, Diffed, stage # "propose",
                    \A r, s \in DOMAIN reports : r < s => reports[r].asOf <= reports[s].asOf,
                    NEW f \in findings
             PROVE  /\ f.kind = "renamed" => \E m \in EmittedMetrics :
                          /\ m.name = f.names[2] /\ f.names[1] \in m.synonyms
                          /\ m.formula = Older.formula[f.names[1]]
                    /\ f.kind = "redefined" /\ Newer.formula[f.names[1]] # NoFormula =>
                          \E m \in EmittedMetrics :
                              m.name = f.names[1] /\ m.formula = Newer.formula[f.names[1]]
  BY DEF EmissionFollowsDrift
<1> DEFINE N == Len(reports)
<1>1. PICK recheck \in Rechecks(Older, Newer) :
         findings = Findings(Older, Newer, recheck, mentioned)
  BY DEF DriftInv
<1>2. Numbered(Older) /\ Numbered(Newer) /\ Dated(reports) /\ N \in 1..N
  BY EditionsAre DEF Dated
<1>3. ByDate(reports)[N] = N
  BY <1>2, SortedStays
<1>4. /\ Newer.names = DOMAIN verdicts[N]
      /\ \A n \in DOMAIN verdicts[N] : Newer.formula[n] = verdicts[N][n].best
  BY <1>3 DEF Newer, Edition
<1>5. \A names : /\ Finding("renamed", names, mentioned).kind = "renamed"
                 /\ Finding("renamed", names, mentioned).names = names
                 /\ Finding("appeared", names, mentioned).kind = "appeared"
                 /\ Finding("disappeared", names, mentioned).kind = "disappeared"
                 /\ Finding("redefined", names, mentioned).names = names
  BY DEF Finding
<1>6. ASSUME f.kind = "renamed"
      PROVE  \E m \in EmittedMetrics :
                /\ m.name = f.names[2] /\ f.names[1] \in m.synonyms
                /\ m.formula = Older.formula[f.names[1]]
  <2>1. PICK p \in Renames(Older, Newer) : f = Finding("renamed", p, mentioned)
    BY <1>1, <1>6, FindingsAre
  <2>2. f.names = p
    BY <1>5, <2>1
  <2>3. Matching(Older, Newer, Renames(Older, Newer), Gone(Older, Newer))
    BY <1>2, RenamesMatch
  <2>4. /\ p[2] \in Came(Older, Newer) /\ Older.formula[p[1]] # NoFormula
        /\ Newer.formula[p[2]] = Older.formula[p[1]]
    BY <2>3 DEF Matching
  <2>5. p[2] \in DOMAIN verdicts[N] /\ verdicts[N][p[2]].best # NoFormula
        /\ verdicts[N][p[2]].best = Older.formula[p[1]]
    BY <1>4, <2>4 DEF Came
  <2>6. PICK m \in EmittedMetrics :
           /\ m.name = p[2] /\ m.formula = verdicts[N][p[2]].best
           /\ Synonyms(p[2]) \subseteq m.synonyms
    BY <2>5, LastEditionEmitted
  <2>7. p[1] \in Synonyms(p[2])
    BY <1>6, <2>2 DEF Synonyms
  <2> QED
    BY <2>2, <2>5, <2>6, <2>7
<1>7. ASSUME f.kind = "redefined", Newer.formula[f.names[1]] # NoFormula
      PROVE  \E m \in EmittedMetrics :
                m.name = f.names[1] /\ m.formula = Newer.formula[f.names[1]]
  <2>1. PICK n \in Redefined(Older, Newer, recheck) : f = Finding("redefined", <<n>>, mentioned)
    BY <1>1, <1>7, FindingsAre
  <2>2. f.names[1] = n /\ n \in Newer.names
    BY <1>5, <2>1 DEF Redefined
  <2>3. n \in DOMAIN verdicts[N] /\ verdicts[N][n].best # NoFormula
        /\ verdicts[N][n].best = Newer.formula[n]
    BY <1>4, <1>7, <2>2
  <2>4. PICK m \in EmittedMetrics : m.name = n /\ m.formula = verdicts[N][n].best
    BY <2>3, LastEditionEmitted
  <2> QED
    BY <2>2, <2>3, <2>4
<1> QED
  BY <1>6, <1>7

\* Where the files are named in the order of their dates, a rename that drift reports
\* is emitted under the new name with the formula and the synonym of the old one, and
\* a redefinition with the new formula, for any number of editions
\* (pipeline.py:196-252; report_diff.py:60-140).
THEOREM EmissionFollowsDriftHolds == Spec => []EmissionFollowsDrift
<1>1. Init => DriftInv /\ ProposalsInv
  BY DEF Init, DriftInv, Diffed, ProposalsInv
<1>2. RunInv /\ DriftInv /\ [Next]_vars => DriftInv'
  BY DriftStep
<1>3. RunInv /\ ProposalsInv /\ [Next]_vars => ProposalsInv'
  BY ProposalsStep
<1>4. RunInv /\ DriftInv /\ ProposalsInv => EmissionFollowsDrift
  BY EmissionFollows
<1> QED
  BY <1>1, <1>2, <1>3, <1>4, RunHolds, PTL DEF Spec

-----------------------------------------------------------------------------
(* The tables that do not add up.                                          *)

LEMMA FigureFields ==
    \A metric, date, dims, value :
        LET f == Figure(metric, date, dims, value)
        IN  /\ f.metric = metric /\ f.dims = dims /\ f.value = value
            /\ f # NoParent
<1> SUFFICES ASSUME NEW metric, NEW date, NEW dims, NEW value
             PROVE  LET f == Figure(metric, date, dims, value)
                    IN  /\ f.metric = metric /\ f.dims = dims /\ f.value = value
                        /\ f # NoParent
  OBVIOUS
<1>1. DOMAIN Figure(metric, date, dims, value) # {}
  BY DEF Figure
<1>2. DOMAIN NoParent = {}
  BY EmptySeq DEF NoParent
<1> QED
  BY <1>1, <1>2 DEF Figure

\* x is the row of a breakdown.
IsRow(x, report, table, row) ==
    /\ x.id.metric = table.metric /\ x.id.value = row.value
    /\ x.id.dims # <<>> /\ x.id.dims[1] = table.dim /\ x.id.dims[2] = row.label
    /\ x.parent = IF table.total # NoTotal THEN TotalPrint(report, table) ELSE NoParent

LEMMA BreakdownRow ==
    ASSUME NEW report, NEW table, table.dim # NoDim, NEW row
    PROVE  IsRow(RowPrint(report, table, row), report, table, row)
<1> DEFINE dims == <<table.dim, row.label>>
           id == Figure(table.metric, report.asOf, dims, row.value)
           x == RowPrint(report, table, row)
<1>1. x.id = id /\ x.parent = IF table.total # NoTotal THEN TotalPrint(report, table) ELSE NoParent
  BY DEF RowPrint
<1>2. dims # <<>> /\ dims[1] = table.dim /\ dims[2] = row.label
  OBVIOUS
<1> HIDE DEF dims, x
<1>3. id.metric = table.metric /\ id.value = row.value /\ id.dims = dims
  BY FigureFields
<1> QED
  BY <1>1, <1>2, <1>3 DEF x, IsRow

\* What is printed is without dimensions and parent, or a row of a breakdown.
LEMMA PrintIs ==
    ASSUME NEW report, NEW x \in Prints(report)
    PROVE  /\ x.id # NoParent
           /\ \/ x.id.dims = <<>> /\ x.parent = NoParent
              \/ \E table \in Range(report.tables) :
                    /\ table.dim # NoDim
                    /\ \E k \in DOMAIN table.rows : x = RowPrint(report, table, table.rows[k])
<1> DEFINE Simple == x.id # NoParent /\ x.id.dims = <<>> /\ x.parent = NoParent
<1>1. ASSUME NEW metric, NEW date, NEW value, x = Orphan(Figure(metric, date, <<>>, value))
      PROVE  Simple
  <2>1. x.id = Figure(metric, date, <<>>, value) /\ x.parent = NoParent
    BY <1>1 DEF Orphan
  <2> QED
    BY <2>1, FigureFields
<1>2. CASE x \in NotePrints(report)
  <2>1. PICK i \in DOMAIN report.footnotes : x = NotePrint(report.footnotes[i])
    BY <1>2 DEF NotePrints
  <2> QED
    BY <1>1, <2>1 DEF NotePrint
<1>3. ASSUME NEW table \in Range(report.tables), x \in TotalPrints(report, table)
      PROVE  Simple
  BY <1>1, <1>3 DEF TotalPrints, TotalPrint
<1>4. ASSUME NEW table \in Range(report.tables), x \in RowPrints(report, table)
      PROVE  /\ x.id # NoParent
             /\ \/ Simple
                \/ /\ table.dim # NoDim
                   /\ \E k \in DOMAIN table.rows : x = RowPrint(report, table, table.rows[k])
  <2>1. PICK k \in DOMAIN table.rows : x = RowPrint(report, table, table.rows[k])
    BY <1>4 DEF RowPrints
  <2>2. CASE table.dim = NoDim
    BY <1>1, <2>1, <2>2 DEF RowPrint
  <2>3. CASE table.dim # NoDim
    <3>1. x.id # NoParent
      BY <2>1, <2>3, FigureFields DEF RowPrint
    <3> QED
      BY <2>1, <2>3, <3>1
  <2> QED
    BY <2>2, <2>3
<1>5. x \in NotePrints(report) \/ \E table \in Range(report.tables) :
         x \in RowPrints(report, table) \/ x \in TotalPrints(report, table)
  BY DEF Prints, TablePrints
<1> QED
  BY <1>2, <1>3, <1>4, <1>5

Breakdown(report, table) == table \in Range(report.tables) /\ table.dim # NoDim
Legible(report, table) == {k \in DOMAIN table.rows : table.rows[k].value \notin report.garbled}
RowsFor(figures, total, dim) == {i \in Children(figures, total) : figures[i].id.dims[1] = dim}

\* In a readable report, the figure of a row has its breakdown and its parent.
LEMMA RowIsOne ==
    ASSUME NEW report, IsReport(report), Readable(report),
           NEW t, Breakdown(report, t), NEW k \in DOMAIN t.rows,
           NEW u, Breakdown(report, u), NEW m \in DOMAIN u.rows
    PROVE  LET x == RowPrint(report, t, t.rows[k])
               y == RowPrint(report, u, u.rows[m])
           IN  /\ x.id.metric = y.id.metric /\ x.id.dims[1] = y.id.dims[1] => t = u
               /\ x.id = y.id => t = u /\ k = m
<1> DEFINE x == RowPrint(report, t, t.rows[k])
           y == RowPrint(report, u, u.rows[m])
<1>1. /\ x.id.metric = t.metric /\ x.id.dims[1] = t.dim /\ x.id.dims[2] = t.rows[k].label
      /\ y.id.metric = u.metric /\ y.id.dims[1] = u.dim /\ y.id.dims[2] = u.rows[m].label
  <2>1. IsRow(x, report, t, t.rows[k]) /\ IsRow(y, report, u, u.rows[m])
    BY BreakdownRow DEF Breakdown
  <2> HIDE DEF x, y
  <2> QED
    BY <2>1 DEF IsRow
<1> HIDE DEF x, y
<1>2. t.metric = u.metric /\ t.dim = u.dim => t = u
  BY DEF Readable, Breakdown
<1>3. t = u /\ t.rows[k].label = u.rows[m].label => k = m
  BY DEF Readable, Breakdown
<1> QED
  BY <1>1, <1>2, <1>3 DEF x, y

\* The legible rows of a breakdown are the figures that count for its total.
LEMMA RowsAreFigures ==
    ASSUME NEW report, IsReport(report), Readable(report),
           NEW t, Breakdown(report, t), t.total # NoTotal
    PROVE  LET figures == Figures(report)
               rows == RowsFor(figures, TotalPrint(report, t), t.dim)
           IN  \E b \in Bijection(Legible(report, t), rows) :
                  \A k \in Legible(report, t) : t.rows[k].value = figures[b[k]].id.value
<1> DEFINE figures == Figures(report)
           total == TotalPrint(report, t)
           rows == RowsFor(figures, total, t.dim)
           legible == Legible(report, t)
           PrintOf(k) == RowPrint(report, t, t.rows[k])
           b == [k \in legible |-> CHOOSE i \in 1..Len(figures) : figures[i].id = PrintOf(k).id]
<1>1. /\ figures \in Seq(Prints(report))
      /\ \A i \in 1..Len(figures) : figures[i].id.value \notin report.garbled
      /\ \A i, j \in 1..Len(figures) : figures[i].id = figures[j].id => i = j
      /\ \A x \in Prints(report) : x.id.value \notin report.garbled =>
            \E i \in 1..Len(figures) : figures[i].id = x.id
  BY FiguresAre
<1> HIDE DEF figures
<1>2. /\ DOMAIN figures = 1..Len(figures)
      /\ \A i \in 1..Len(figures) : figures[i] \in Prints(report)
  BY <1>1, LenProperties, ElementOfSeq
<1>3. total # NoParent
  BY FigureFields DEF TotalPrint
<1>4. \A k \in DOMAIN t.rows :
         /\ PrintOf(k).id.value = t.rows[k].value /\ PrintOf(k).id.dims # <<>>
         /\ PrintOf(k).id.dims[1] = t.dim /\ PrintOf(k).id.metric = t.metric
         /\ PrintOf(k).parent = total
  <2> SUFFICES ASSUME NEW k \in DOMAIN t.rows
               PROVE  /\ PrintOf(k).id.value = t.rows[k].value /\ PrintOf(k).id.dims # <<>>
                      /\ PrintOf(k).id.dims[1] = t.dim /\ PrintOf(k).id.metric = t.metric
                      /\ PrintOf(k).parent = total
    OBVIOUS
  <2>1. IsRow(PrintOf(k), report, t, t.rows[k])
    BY BreakdownRow DEF Breakdown
  <2> HIDE DEF PrintOf
  <2> QED
    BY <2>1 DEF IsRow
<1>5. ASSUME NEW i \in 1..Len(figures),
             figures[i].id.dims # <<>> \/ figures[i].parent # NoParent
      PROVE  \E u, m : /\ Breakdown(report, u) /\ m \in DOMAIN u.rows
                       /\ figures[i] = RowPrint(report, u, u.rows[m])
  BY <1>2, <1>5, PrintIs DEF Breakdown
<1> HIDE DEF total, PrintOf
<1>6. ASSUME NEW k \in legible
      PROVE  b[k] \in 1..Len(figures) /\ figures[b[k]] = PrintOf(k)
  <2>1. k \in DOMAIN t.rows /\ PrintOf(k).id.value \notin report.garbled
    BY <1>4 DEF Legible
  <2>2. PrintOf(k) \in Prints(report)
    BY <2>1 DEF PrintOf, Prints, TablePrints, RowPrints, Breakdown
  <2>3. \E i \in 1..Len(figures) : figures[i].id = PrintOf(k).id
    BY <1>1, <2>1, <2>2
  <2>4. b[k] \in 1..Len(figures) /\ figures[b[k]].id = PrintOf(k).id
    BY <2>3
  <2> HIDE DEF b
  <2>5. PICK u, m : /\ Breakdown(report, u) /\ m \in DOMAIN u.rows
                    /\ figures[b[k]] = RowPrint(report, u, u.rows[m])
    BY <1>4, <1>5, <2>1, <2>4
  <2>6. t = u /\ k = m
    BY <2>1, <2>4, <2>5, RowIsOne DEF PrintOf
  <2> QED
    BY <2>4, <2>5, <2>6 DEF PrintOf
<1>7. ASSUME NEW k \in legible PROVE b[k] \in rows
  <2>1. k \in DOMAIN t.rows
    BY DEF Legible
  <2> HIDE DEF b
  <2> QED
    BY <1>2, <1>4, <1>6, <2>1 DEF RowsFor, Children
<1>8. ASSUME NEW i \in rows PROVE \E k \in legible : b[k] = i
  <2>1. /\ i \in 1..Len(figures) /\ figures[i].parent = total /\ figures[i].id.dims[1] = t.dim
        /\ figures[i].id.value \notin report.garbled
    BY <1>1, <1>2 DEF RowsFor, Children
  <2>3. PICK u, m : /\ Breakdown(report, u) /\ m \in DOMAIN u.rows
                    /\ figures[i] = RowPrint(report, u, u.rows[m])
    BY <1>3, <1>5, <2>1
  <2>4. /\ figures[i].id.dims[1] = u.dim
        /\ figures[i].parent = IF u.total # NoTotal THEN TotalPrint(report, u) ELSE NoParent
    <3>1. IsRow(figures[i], report, u, u.rows[m])
      BY <2>3, BreakdownRow DEF Breakdown
    <3> QED
      BY <3>1 DEF IsRow
  <2>5. TotalPrint(report, u) = total /\ t.dim = u.dim
    BY <1>3, <2>1, <2>4
  <2>6. t.metric = u.metric
    <3>1. TotalPrint(report, u).metric = u.metric /\ TotalPrint(report, t).metric = t.metric
      BY FigureFields DEF TotalPrint
    <3> QED
      BY <2>5, <3>1 DEF total
  <2>7. t = u
    BY <2>5, <2>6, <2>3 DEF Readable, Breakdown
  <2>8. m \in legible /\ figures[i] = PrintOf(m)
    BY <1>4, <2>1, <2>3, <2>7 DEF Legible, PrintOf
  <2>9. b[m] = i
    BY <1>1, <1>6, <2>1, <2>8
  <2> QED
    BY <2>8, <2>9
<1>9. ASSUME NEW k \in legible, NEW m \in legible, b[k] = b[m] PROVE k = m
  <2>1. k \in DOMAIN t.rows /\ m \in DOMAIN t.rows
    BY DEF Legible
  <2>2. PrintOf(k).id = PrintOf(m).id
    BY <1>6, <1>9
  <2> QED
    BY <2>1, <2>2, RowIsOne DEF PrintOf
<1>10. DOMAIN b = legible
  OBVIOUS
<1>11. b \in [legible -> rows]
  BY <1>7
<1> HIDE DEF b, rows, legible
<1>12. b \in Bijection(legible, rows)
  BY <1>8, <1>9, <1>11 DEF Bijection, Injection, Surjection, IsInjective
<1>13. \A k \in legible : t.rows[k].value = figures[b[k]].id.value
  BY <1>4, <1>6 DEF Legible, legible
<1> QED
  BY <1>12, <1>13 DEF figures, rows, total, legible

\* They have its sum, and there are some of them when it has legible rows.
LEMMA RowsAddUp ==
    ASSUME NEW report, IsReport(report), Readable(report),
           NEW t, Breakdown(report, t), t.total # NoTotal
    PROVE  LET rows == RowsFor(Figures(report), TotalPrint(report, t), t.dim)
               legible == Legible(report, t)
           IN  /\ rows = {} <=> legible = {}
               /\ Sum(Figures(report), rows) = SumFunction([k \in legible |-> t.rows[k].value])
<1> DEFINE figures == Figures(report)
           rows == RowsFor(figures, TotalPrint(report, t), t.dim)
           legible == Legible(report, t)
           f == [k \in legible |-> t.rows[k].value]
           g == [i \in rows |-> figures[i].id.value]
<1>1. PICK b \in Bijection(legible, rows) :
         \A k \in legible : t.rows[k].value = figures[b[k]].id.value
  BY RowsAreFigures
<1>2. IsFiniteSet(legible) /\ \A k \in legible : t.rows[k].value \in Int
  <2>1. t.rows \in Seq(Range(t.rows)) /\ \A row \in Range(t.rows) : row.value \in Int
    BY DEF IsReport, Breakdown
  <2>2. Len(t.rows) \in Nat /\ DOMAIN t.rows = 1..Len(t.rows)
    BY <2>1, LenProperties
  <2>3. IsFiniteSet(1..Len(t.rows))
    BY <2>2, FS_Interval
  <2>4. legible \subseteq 1..Len(t.rows)
    BY <2>2 DEF Legible
  <2>5. \A k \in 1..Len(t.rows) : t.rows[k].value \in Int
    BY <2>1, <2>2, ElementOfSeq
  <2> QED
    BY <2>3, <2>4, <2>5, FS_Subset
<1> HIDE DEF legible, rows, figures
<1>3. /\ b \in [legible -> rows] /\ \A i \in rows : \E k \in legible : b[k] = i
  BY <1>1 DEF Bijection, Surjection
<1>4. f \in [legible -> Int]
  BY <1>2
<1>5. \A i \in rows : figures[i].id.value \in Int
  BY <1>1, <1>2, <1>3
<1>6. g \in [rows -> Int]
  BY <1>5
<1>7. \A k \in legible : f[k] = g[b[k]]
  BY <1>1, <1>3
<1>8. Sum(figures, rows) = SumFunction(g)
  BY DEF Sum
<1> HIDE DEF f, g
<1>9. SumFunction(f) = SumFunction(g)
  BY <1>1, <1>2, <1>4, <1>6, <1>7, SumBijection
<1>10. rows = {} <=> legible = {}
  BY <1>3
<1> QED
  BY <1>8, <1>9, <1>10 DEF f, rows, legible, figures

\* A total that does not add up over the dimension.
IsWrong(figures, total, dim) ==
    /\ total \in Totals(figures)
    /\ RowsFor(figures, total, dim) # {}
    /\ \E i \in DOMAIN figures : figures[i].id.dims # <<>> /\ figures[i].id.dims[1] = dim
    /\ Apart(Sum(figures, RowsFor(figures, total, dim)), total.value)

LEMMA WrongOnes ==
    ASSUME NEW figures, NEW w
    PROVE  w \in Inconsistencies(figures) <=>
              \E total, dim : /\ IsWrong(figures, total, dim)
                              /\ w = <<total.metric, total.value, dim>>
<1> DEFINE dims == {figures[i].id.dims[1] : i \in {j \in DOMAIN figures : figures[j].id.dims # <<>>}}
           wrong(total) == {d \in dims : /\ RowsFor(figures, total, d) # {}
                                         /\ Apart(Sum(figures, RowsFor(figures, total, d)),
                                                  total.value)}
           found(total) == {<<total.metric, total.value, dim>> : dim \in wrong(total)}
<1>1. Inconsistencies(figures) = UNION {found(total) : total \in Totals(figures)}
  BY DEF Inconsistencies, RowsFor
<1>2. \A total, dim :
         IsWrong(figures, total, dim) <=> total \in Totals(figures) /\ dim \in wrong(total)
  BY DEF IsWrong
<1> HIDE DEF wrong
<1> QED
  BY <1>1, <1>2

\* The breakdown of a report whose legible rows do not add up.
IsOff(report, t) ==
    /\ Breakdown(report, t) /\ t.total # NoTotal /\ t.total \notin report.garbled
    /\ Legible(report, t) # {}
    /\ Apart(SumFunction([k \in Legible(report, t) |-> t.rows[k].value]), t.total)

LEMMA OffOnes ==
    ASSUME NEW report, NEW w
    PROVE  w \in AddsUpWrong(report) <=>
              \E t : IsOff(report, t) /\ w = <<t.metric, t.total, t.dim>>
BY DEF AddsUpWrong, IsOff, Breakdown, Legible

LEMMA TotalFields ==
    ASSUME NEW report, NEW t
    PROVE  LET total == TotalPrint(report, t)
           IN  /\ total.metric = t.metric /\ total.value = t.total
               /\ total.dims = <<>> /\ total # NoParent
BY FigureFields DEF TotalPrint

\* A total with rows is the total of a breakdown, and its dimension that of the breakdown.
LEMMA WrongIsOff ==
    ASSUME NEW report, IsReport(report), Readable(report),
           NEW total, NEW dim, IsWrong(Figures(report), total, dim)
    PROVE  \E t : IsOff(report, t) /\ total = TotalPrint(report, t) /\ dim = t.dim
<1> DEFINE figures == Figures(report)
<1>1. /\ figures \in Seq(Prints(report))
      /\ \A i \in 1..Len(figures) : figures[i].id.value \notin report.garbled
  BY FiguresAre
<1>2. IsWrong(figures, total, dim)
  OBVIOUS
<1> HIDE DEF figures
<1>3. /\ DOMAIN figures = 1..Len(figures)
      /\ \A i \in 1..Len(figures) : figures[i] \in Prints(report)
  BY <1>1, LenProperties, ElementOfSeq
<1>4. PICK i \in 1..Len(figures) : figures[i].parent = total /\ figures[i].id.dims[1] = dim
  BY <1>2, <1>3 DEF IsWrong, RowsFor, Children
<1>5. PICK j \in 1..Len(figures) : figures[j].id = total
  BY <1>2, <1>3 DEF IsWrong, Totals
<1>6. total # NoParent
  BY <1>3, <1>5, PrintIs
<1>7. PICK t \in Range(report.tables) :
         /\ t.dim # NoDim
         /\ \E k \in DOMAIN t.rows : figures[i] = RowPrint(report, t, t.rows[k])
  BY <1>3, <1>4, <1>6, PrintIs
<1>8. PICK k \in DOMAIN t.rows : figures[i] = RowPrint(report, t, t.rows[k])
  BY <1>7
<1>9. IsRow(figures[i], report, t, t.rows[k])
  BY <1>7, <1>8, BreakdownRow
<1>10. dim = t.dim /\ t.total # NoTotal /\ total = TotalPrint(report, t)
  BY <1>4, <1>6, <1>9 DEF IsRow
<1>11. t.total = total.value /\ total.value \notin report.garbled
  BY <1>1, <1>5, <1>10, TotalFields
<1>12. Breakdown(report, t)
  BY <1>7 DEF Breakdown
<1> DEFINE rows == RowsFor(figures, total, dim)
<1>13. /\ rows = {} <=> Legible(report, t) = {}
       /\ Sum(figures, rows) = SumFunction([n \in Legible(report, t) |-> t.rows[n].value])
  BY <1>10, <1>12, RowsAddUp DEF figures
<1>14. rows # {} /\ Apart(Sum(figures, rows), total.value)
  BY <1>2 DEF IsWrong
<1> HIDE DEF rows
<1>15. Apart(SumFunction([n \in Legible(report, t) |-> t.rows[n].value]), t.total)
  BY <1>11, <1>13, <1>14
<1>16. IsOff(report, t)
  BY <1>10, <1>11, <1>12, <1>13, <1>14, <1>15 DEF IsOff
<1> QED
  BY <1>10, <1>16

\* A legible total with legible rows is found, though both may be printed often.
LEMMA OffIsWrong ==
    ASSUME NEW report, IsReport(report), Readable(report), NEW t, IsOff(report, t)
    PROVE  IsWrong(Figures(report), TotalPrint(report, t), t.dim)
<1> DEFINE figures == Figures(report)
           total == TotalPrint(report, t)
           rows == RowsFor(figures, total, t.dim)
<1>1. /\ figures \in Seq(Prints(report))
      /\ \A x \in Prints(report) : x.id.value \notin report.garbled =>
            \E i \in 1..Len(figures) : figures[i].id = x.id
  BY FiguresAre
<1>2. /\ Breakdown(report, t) /\ t.total # NoTotal /\ t.total \notin report.garbled
      /\ Legible(report, t) # {}
      /\ Apart(SumFunction([k \in Legible(report, t) |-> t.rows[k].value]), t.total)
  BY DEF IsOff
<1>3. /\ rows = {} <=> Legible(report, t) = {}
      /\ Sum(figures, rows) = SumFunction([n \in Legible(report, t) |-> t.rows[n].value])
  BY <1>2, RowsAddUp
<1>4. total.value = t.total /\ total # NoParent
  BY TotalFields
<1>5. Orphan(total) \in Prints(report) /\ Orphan(total).id = total
  <2>1. Orphan(total) \in TablePrints(report, t)
    BY <1>2 DEF TablePrints, TotalPrints, Breakdown
  <2>2. Orphan(total).id = total
    BY DEF Orphan
  <2> QED
    BY <1>2, <2>1, <2>2 DEF Prints, Breakdown
<1> HIDE DEF figures, total
<1>6. /\ DOMAIN figures = 1..Len(figures)
      /\ \A i \in 1..Len(figures) : figures[i] \in Prints(report)
  BY <1>1, LenProperties, ElementOfSeq
<1>7. \E j \in DOMAIN figures : figures[j].id = total
  BY <1>1, <1>2, <1>4, <1>5, <1>6
<1>8. PICK i \in DOMAIN figures : figures[i].parent = total /\ figures[i].id.dims[1] = t.dim
  BY <1>2, <1>3 DEF RowsFor, Children
<1>9. figures[i].id.dims # <<>>
  <2>1. figures[i] \in Prints(report)
    BY <1>6
  <2>2. PICK u \in Range(report.tables) :
           /\ u.dim # NoDim
           /\ \E k \in DOMAIN u.rows : figures[i] = RowPrint(report, u, u.rows[k])
    BY <1>4, <1>8, <2>1, PrintIs
  <2>3. \E k \in DOMAIN u.rows : IsRow(figures[i], report, u, u.rows[k])
    BY <2>2, BreakdownRow
  <2> QED
    BY <2>3 DEF IsRow
<1>10. total \in Totals(figures)
  BY <1>7, <1>8 DEF Totals
<1>11. rows # {} /\ Apart(Sum(figures, rows), total.value)
  <2> HIDE DEF rows
  <2> QED
    BY <1>2, <1>3, <1>4
<1> QED
  BY <1>8, <1>9, <1>10, <1>11 DEF IsWrong, figures, total

LEMMA WrongAreOff ==
    ASSUME NEW report, IsReport(report), Readable(report)
    PROVE  Inconsistencies(Figures(report)) = AddsUpWrong(report)
<1>1. ASSUME NEW w \in Inconsistencies(Figures(report)) PROVE w \in AddsUpWrong(report)
  <2>1. PICK total, dim : /\ IsWrong(Figures(report), total, dim)
                          /\ w = <<total.metric, total.value, dim>>
    BY <1>1, WrongOnes
  <2>2. PICK t : IsOff(report, t) /\ total = TotalPrint(report, t) /\ dim = t.dim
    BY <2>1, WrongIsOff
  <2>3. w = <<t.metric, t.total, t.dim>>
    BY <2>1, <2>2, TotalFields
  <2> QED
    BY <2>2, <2>3, OffOnes
<1>2. ASSUME NEW w \in AddsUpWrong(report) PROVE w \in Inconsistencies(Figures(report))
  <2>1. PICK t : IsOff(report, t) /\ w = <<t.metric, t.total, t.dim>>
    BY <1>2, OffOnes
  <2> DEFINE total == TotalPrint(report, t)
  <2>2. IsWrong(Figures(report), total, t.dim)
    BY <2>1, OffIsWrong
  <2>3. w = <<total.metric, total.value, t.dim>>
    BY <2>1, TotalFields
  <2> HIDE DEF total
  <2> QED
    BY <2>2, <2>3, WrongOnes
<1> QED
  BY <1>1, <1>2

\* What ingest calls inconsistent is what a reader would, for reports of any number
\* of tables and rows: linking rows to totals by identity, dropping illegible
\* figures and duplicates change no table's sum (extract/report.py, _post_validate,
\* _validate_consistency).
THEOREM InconsistenciesAreExactHolds == Spec => []InconsistenciesAreExact
<1>1. RunInv => InconsistenciesAreExact
  <2> SUFFICES ASSUME RunInv, NEW r \in DOMAIN extractions, Readable(reports[r])
               PROVE  extractions[r].inconsistencies = AddsUpWrong(reports[r])
    BY DEF InconsistenciesAreExact
  <2>1. extractions[r] = Extraction(reports[r]) /\ r \in 1..Len(reports)
    BY LenProperties DEF RunInv
  <2>2. IsReport(reports[r])
    BY <2>1, ElementOfSeq, DirectoriesAssumption DEF RunInv, Printed
  <2>3. Inconsistencies(Figures(reports[r])) = AddsUpWrong(reports[r])
    BY <2>2, WrongAreOff
  <2>4. extractions[r].inconsistencies = Inconsistencies(Figures(reports[r]))
    BY <2>1 DEF Extraction
  <2> QED
    BY <2>3, <2>4
<1> QED
  BY <1>1, RunHolds, PTL DEF Spec

=============================================================================
