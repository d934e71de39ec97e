---------------------------- MODULE NameMatching ----------------------------
(***************************************************************************)
(* When two metric names are taken for the same metric (naming.py and      *)
(* report/conflict.py).  A name is a sequence of words.  A suffix that     *)
(* starts inside a word is left out: the names of reports and documents    *)
(* are matched word by word.                                               *)
(***************************************************************************)
EXTENDS Naturals, Sequences, SequencesExt

CONSTANTS
    Expansion,      \* word |-> the words its abbreviation stands for ({} if none)
    Stopwords,      \* "total", "gross", "net", ...: qualifiers that are no signal
    NoiseWords,     \* "v2", "depr", ...: life-cycle suffixes of identifiers
    WordLength      \* word |-> its number of characters

Tokens(name) == {name[i] : i \in DOMAIN name}

Expanded(words) == words \cup UNION {Expansion[w] : w \in words}

\* The words of business language, and those of a physical identifier: the noise
\* is dropped from the identifier only, so the comparison is not symmetric.
TextTokens(name) == Expanded(Tokens(name)) \ Stopwords
IdentifierTokens(name) == Expanded(Tokens(name) \ NoiseWords) \ Stopwords

\* similarity(text, identifier) >= percent/100, from the token overlap (F1).  The
\* other score, 0.8 times a ratio, is at most 0.8 and never reaches the only
\* threshold it is compared with here, 0.85.
Similar(text, identifier, percent) ==
    LET textWords == TextTokens(text)
        idWords == IdentifierTokens(identifier)
        total == Cardinality(textWords) + Cardinality(idWords)
    IN  /\ textWords # {} /\ idWords # {}
        /\ 200 * Cardinality(textWords \cap idWords) >= percent * total

\* detect_contradictions.same_metric
SameMetric(a, b) ==
    \/ a = b
    \/ IsSuffix(b, a) \/ IsSuffix(a, b)
    \/ Similar(a, b, 85)

\* The number of characters of a name, one blank between two words.
Characters(name) == FoldLeft(LAMBDA n, word : n + WordLength[word] + 1, 0, name)
=============================================================================
