----------------------------- MODULE ImportText -----------------------------
(***************************************************************************)
(* How a file to import becomes chapters (src/internal/import): headings   *)
(* found by several patterns in a text, by the pattern a model answered,   *)
(* or the reading order of an EPUB.  A line is a record of the patterns    *)
(* that match it, its length and whether it is blank; a chapter is the     *)
(* sequence of the numbers of its lines.                                   *)
(***************************************************************************)
EXTENDS Integers, Sequences, SequencesExt, FiniteSets, FiniteSetsExt

CONSTANTS
  Patterns,       \* chapterPatterns: 1 .. n, in their order of preference
  Loose,          \* loose_inline, which matches inside a line too
  MaxTitle,       \* maxChapterTitleLen (30)
  GapSample,      \* how many gaps the median is taken of (10)
  ReliableGap,    \* a smaller median says nothing (200)
  SmallestGap,    \* the least threshold (50)
  ChapterLength,  \* runes an average chapter has (3000)
  Slack           \* how many times fewer chapters than estimated are believed (10)

ASSUME ImportTextConstants ==
  /\ Loose \in Patterns
  /\ {MaxTitle, GapSample, ReliableGap, SmallestGap, ChapterLength, Slack} \subseteq Nat \ {0}

Line == [match : SUBSET Patterns, len : Nat, blank : BOOLEAN]

Largest(a, b) == IF a >= b THEN a ELSE b

\* A set of line numbers in their order.
Sorted(S) == [k \in 1 .. Cardinality(S) |-> CHOOSE i \in S : Cardinality({j \in S : j < i}) = k - 1]

-----------------------------------------------------------------------------
\* Headings

\* The lines that match and are not too long to be a title, each once.
Matches(file, p) == {i \in DOMAIN file : p \in file[i].match /\ file[i].len <= MaxTitle}

\* The pattern with most matches, the first of those; a pattern at the start of a line
\* with nearly as many matches is taken before the loose one.
BestPattern(file) ==
  LET Count(p) == Cardinality(Matches(file, p))
      most  == Min({p \in Patterns : \A q \in Patterns : Count(q) <= Count(p)})
      close == {p \in Patterns \ {Loose} :
                  /\ Count(p) >= 2
                  /\ Count(Loose) - Count(p) \in 0 .. Count(p) \div 2}
  IN IF most = Loose /\ close # {} THEN Min(close) ELSE most

\* With the matches of every other pattern that is not loose, in the order of the file.
Headings(file) ==
  Matches(file, BestPattern(file)) \cup UNION {Matches(file, p) : p \in Patterns \ {Loose}}

Runes(file, from, to) == FoldLeft(LAMBDA n, i : n + file[i].len, 0, [j \in 1 .. to - from |-> from + j - 1])

\* filterByGap: a heading too near to the one before it is a mention.  The median is
\* that of the GapSample smallest gaps.
FilterByGap(file, heads) ==
  LET gaps   == [i \in 1 .. Len(heads) - 1 |-> Runes(file, heads[i], heads[i + 1])]
      sorted == SortSeq(gaps, <)
      n      == IF Len(sorted) > GapSample THEN GapSample ELSE Len(sorted)
      median == sorted[(n \div 2) + 1]
      least  == Largest(median \div 10, SmallestGap)
      kept   == {1} \cup {i \in 2 .. Len(heads) : gaps[i - 1] >= least}
  IN IF Len(heads) <= 2 \/ median < ReliableGap THEN heads
     ELSE [k \in DOMAIN Sorted(kept) |-> heads[Sorted(kept)[k]]]

-----------------------------------------------------------------------------
\* Chapters

\* strings.TrimSpace: the blank lines at both ends go.
TrimSpace(file, from, to) ==
  LET full == {i \in DOMAIN file : from <= i /\ i <= to /\ ~ file[i].blank}
  IN IF full = {} THEN << >>
     ELSE [j \in 1 .. Max(full) - Min(full) + 1 |-> Min(full) + j - 1]

\* splitByPositions: from each heading to the next, the last to the end.
SplitByPositions(file, heads) ==
  [i \in DOMAIN heads |->
     TrimSpace(file, heads[i], IF i < Len(heads) THEN heads[i + 1] - 1 ELSE Len(file))]

\* isReasonableChapterCount
Reasonable(file, count) ==
  LET total     == Runes(file, 1, Len(file) + 1)
      estimated == Largest(1, total \div ChapterLength)
  IN count <= 1 \/ total < ChapterLength \/ count >= estimated \div Slack

Parsed(chapters) == [ok |-> chapters # << >>, llm |-> FALSE, chapters |-> chapters]
Unparsed         == [ok |-> FALSE, llm |-> FALSE, chapters |-> << >>]
NeedsLLM         == [ok |-> FALSE, llm |-> TRUE, chapters |-> << >>]

Whole(file) ==
  IF TrimSpace(file, 1, Len(file)) = << >> THEN Unparsed
  ELSE Parsed(<<TrimSpace(file, 1, Len(file))>>)

ParseTxt(file) ==
  LET heads == Sorted(Headings(file))
      kept  == FilterByGap(file, heads)
  IN CASE Len(heads) <= 1 -> Whole(file)
       [] Len(heads) > 1 /\ Len(kept) <= 1 -> Whole(file)
       [] Len(kept) > 1 /\ Reasonable(file, Len(kept)) -> Parsed(SplitByPositions(file, kept))
       [] OTHER -> NeedsLLM

\* ParseWithLLMPattern: the model's pattern matches the lines `found`, blank ones too.
ParseWithPattern(file, found) ==
  LET heads == Sorted({i \in found : file[i].len <= MaxTitle})
      kept  == FilterByGap(file, heads)
  IN IF Len(heads) <= 1 \/ Len(kept) <= 1 \/ ~ Reasonable(file, Len(kept)) THEN Unparsed
     ELSE Parsed(SplitByPositions(file, kept))

\* parseEpub: the items of the spine that have a file, can be read and are not empty.
Skipped(spine) == {i \in DOMAIN spine : ~ spine[i].read \/ spine[i].lines = << >>}

ParseEpub(spine) ==
  LET items == Sorted(DOMAIN spine \ Skipped(spine))
  IN Parsed([k \in DOMAIN items |-> spine[items[k]].lines])
=============================================================================
