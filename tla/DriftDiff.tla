----------------------------- MODULE DriftDiff -----------------------------
(***************************************************************************)
(* diff_reports (drift/report_diff.py): what changed between two editions. *)
(*                                                                         *)
(* An edition is [names, formula]: the metrics it prints and the formula   *)
(* each resolved to (NoFormula if unmappable).  Metric names are numbered  *)
(* in alphabetical order.  recheck[name] is what evaluating the old        *)
(* formula at the new date gave against the figure printed now: "agrees",  *)
(* "diverges" or "fails".                                                  *)
(***************************************************************************)
EXTENDS Integers, Sequences, FiniteSets, FiniteSetsExt, SequencesExt

CONSTANT NoFormula

Gone(old, new) == old.names \ new.names
Came(old, new) == new.names \ old.names

\* A faulty variant of Twins: a new name may be paired twice.
TwinsReused(old, new, name, taken) ==
    {n \in Came(old, new) : new.formula[n] = old.formula[name]}

\* The new names left that resolve to the formula of this vanished one.
Twins(old, new, name, taken) ==
    {n \in Came(old, new) \ {p[2] : p \in taken} : new.formula[n] = old.formula[name]}

Paired(old, new, name, taken) ==
    IF old.formula[name] = NoFormula \/ Twins(old, new, name, taken) = {} THEN taken
    ELSE taken \cup {<<name, Min(Twins(old, new, name, taken))>>}

\* The vanished names in order (the greatest is folded in last), each paired with
\* the first new name left that resolves to the same formula.
Renames(old, new) ==
    MapThenFoldSet(LAMBDA name, taken : Paired(old, new, name, taken), {},
                   LAMBDA name : name, LAMBDA names : Max(names), Gone(old, new))

\* A faulty variant of Redefined: a formula that is not known counts as another.
RedefinedByChange(old, new, recheck) ==
    {n \in old.names \cap new.names :
        \/ old.formula[n] # new.formula[n]
        \/ old.formula[n] # NoFormula /\ recheck[n] = "diverges"}

\* Two known formulas that differ, or an old one that no longer reproduces what is
\* printed; an evaluation that fails shows nothing.
Redefined(old, new, recheck) ==
    {n \in old.names \cap new.names :
        /\ old.formula[n] # NoFormula
        /\ IF new.formula[n] # NoFormula /\ new.formula[n] # old.formula[n]
           THEN TRUE
           ELSE recheck[n] = "diverges"}

\* The names whose old formula is evaluated again.
Rechecked(old, new) ==
    {n \in old.names \cap new.names :
        /\ old.formula[n] # NoFormula
        /\ new.formula[n] \in {NoFormula, old.formula[n]}}

\* A finding is undocumented when no document mentions one of its names.
Finding(kind, names, mentioned) ==
    [kind |-> kind, names |-> names,
     undocumented |-> {names[i] : i \in DOMAIN names} \cap mentioned = {}]

Findings(old, new, recheck, mentioned) ==
    LET renames == Renames(old, new)
    IN  {Finding("renamed", p, mentioned) : p \in renames}
        \cup {Finding("redefined", <<n>>, mentioned) :
                n \in Redefined(old, new, recheck)}
        \cup {Finding("appeared", <<n>>, mentioned) :
                n \in Came(old, new) \ {p[2] : p \in renames}}
        \cup {Finding("disappeared", <<n>>, mentioned) :
                n \in Gone(old, new) \ {p[1] : p \in renames}}
=============================================================================
