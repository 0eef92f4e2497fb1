-------------------------- MODULE Manuscript_proofs --------------------------
(***************************************************************************)
(* What the manuscript's run shows for three chapters and a few texts,     *)
(* proved for every number of chapters and every text: the column of the   *)
(* word counts says what the files say, the writing log covers them, and   *)
(* an import makes all of a novel or nothing of it.                        *)
(***************************************************************************)
EXTENDS Manuscript, FiniteSetTheorems, WellFoundedInduction, TLAPS

-----------------------------------------------------------------------------
(* The invariant.                                                          *)

Texts == Seq(Nat)

\* The two hands that write a text and then count it.
Writing(h) == h \in [at : {"written", "logged"}, n : Chapters, text : Texts]

ToolOK ==
  \/ tool = AtRest
  \/ tool \in [at : {"waiting", "checked"}, kind : {"chapter", "outline"}, n : Chapters,
               text : Texts, exists : BOOLEAN, current : Texts \cup {NoFile}]
  \/ Writing(tool)

EditorOK ==
  \/ editor = AtRest
  \/ editor \in [at : {"typed"}, n : Chapters, text : Texts]
  \/ Writing(editor)

ListOK ==
  \/ list = AtRest
  \/ list = [at |-> "unlisted"]
  \/ list \in [at : {"created", "removed"}, n : Chapters]

\* What an import works on.
Importing == imp.at \in {"novel", "repo", "files", "rows", "done"}

ImpOK ==
  /\ imp.at \in {"rest", "novel", "repo", "files", "rows", "done", "failed", "left", "kept", "closed"}
  /\ Importing =>
       /\ imp = [at |-> imp.at, source |-> imp.source, of |-> imp.of, chapters |-> imp.chapters]
       /\ \A n \in DOMAIN imp.chapters : imp.chapters[n] \in Texts
       /\ imp.source = "txt" => LinesKept(imp.of, imp.chapters)
       /\ imp.source = "epub" => Len(imp.chapters) + Cardinality(Skipped(imp.of)) = Len(imp.of)

NovelOK ==
  /\ listed \in BOOLEAN /\ repo \in BOOLEAN
  /\ file \in [Chapters -> Texts \cup {NoFile}]
  /\ row \in [Chapters -> Nat \cup {NoRow}]
  /\ logged \in Nat /\ missed \in Nat /\ imported \in Nat
  /\ uncounted \subseteq Chapters

TypeOK == NovelOK /\ ToolOK /\ EditorOK /\ ListOK /\ ImpOK

\* While the dialog of an import is up, or before there is a novel, and after a novel
\* that nobody works on, no hand is at work.
HandsWait == imp.at # "closed" => tool = AtRest /\ editor = AtRest /\ list = AtRest

\* A novel whose directory is being removed is in the list no more.
Deleting == list.at = "unlisted" => ~ listed

\* How far the import is shows in the novel.
Nothing == ~ repo /\ file = Empty /\ row = NoRows

ImportStages ==
  /\ imp.at \in {"rest", "novel", "failed"} => ~ listed /\ Nothing
  /\ imp.at = "repo" => listed /\ Nothing
  /\ imp.at = "left" =>
       /\ row = NoRows
       /\ \A n \in Chapters : file[n] = NoFile \/ (n \in DOMAIN imp.chapters /\ file[n] = imp.chapters[n])
  /\ imp.at \in {"files", "rows", "done"} =>
       /\ listed /\ repo
       /\ \A n \in Chapters : file[n] = NoFile \/ (n \in DOMAIN imp.chapters /\ file[n] = imp.chapters[n])
  /\ imp.at \in {"rows", "done"} => \A n \in DOMAIN imp.chapters \cap Chapters : file[n] # NoFile
  /\ imp.at \in {"files", "rows"} => row = NoRows
  /\ imp.at = "done" =>
       row = [n \in Chapters |-> IF n \in DOMAIN imp.chapters THEN Words(imp.chapters[n]) ELSE NoRow]
  /\ imp.at \in {"rest", "novel", "repo", "files", "rows"} =>
       logged = 0 /\ missed = 0 /\ imported = 0

\* A chapter whose count was not missed, of a novel that is open: the hand that is
\* at work on it has its text in the file, or is the only one and its file is not there;
\* without a hand at work, a file has a row that counts it.
InStep(n) ==
  /\ \A h \in {tool, editor} : Busy(h, n) => file[n] = h.text
  /\ Busy(list, n) => /\ file[n] = NoFile
                      /\ list.at = "created" => row[n] = 0
                      /\ \A h \in {tool, editor} : ~ Busy(h, n)
  /\ (\A h \in {tool, editor, list} : ~ Busy(h, n)) /\ file[n] # NoFile =>
       n \in Rows /\ row[n] = Words(file[n])

Counted == Open => \A n \in Chapters \ uncounted : InStep(n)

\* The words of the column, with those of the texts that are logged and not yet in it.
Logged(h) == IF h.at = "logged" THEN {h.n} \X (1 .. Words(h.text)) ELSE {}
Column(r) == UNION {{n} \X (1 .. r[n]) : n \in Chapters}
Covered   == Column(row) \cup Logged(tool) \cup Logged(editor)

LogCovers == listed => Cardinality(Covered) <= logged + missed + imported

ManuscriptInv == TypeOK /\ HandsWait /\ Deleting /\ ImportStages /\ Counted /\ LogCovers

-----------------------------------------------------------------------------
(* Sets of numbers.                                                        *)

LEMMA Least ==
  ASSUME NEW S \in SUBSET Nat, S # {}
  PROVE  \E x \in S : \A y \in S : x <= y
<1>1. PICK x \in S : \A y \in S : <<y, x>> \notin OpToRel(<, Nat)
  BY NatLessThanWellFounded, WFMin
<1>2. ASSUME NEW y \in Nat, <<y, x>> \notin OpToRel(<, Nat), x \in Nat
      PROVE  x <= y
  BY <1>2 DEF OpToRel
<1> QED
  BY <1>1, <1>2

LEMMA MaxOf ==
  ASSUME NEW n \in Nat, NEW S \in SUBSET (1 .. n), S # {}
  PROVE  /\ Max(S) \in S /\ \A x \in S : x <= Max(S)
         /\ Min(S) \in S /\ \A x \in S : Min(S) <= x
<1> DEFINE Far == {n - x : x \in S}
<1>9. \A x \in S : n - x \in Nat
  OBVIOUS
<1>1. Far \in SUBSET Nat /\ Far # {}
  BY <1>9
<1> HIDE DEF Far
<1>2. PICK d \in Far : \A e \in Far : d <= e
  BY <1>1, Least
<1> USE DEF Far
<1>3. PICK x \in S : d = n - x
  BY <1>2
<1>4. ASSUME NEW y \in S PROVE x >= y
  <2>1. n - x <= n - y
    BY <1>2, <1>3
  <2> QED
    BY <2>1
<1>5. S \in SUBSET Nat
  OBVIOUS
<1>6. \E z \in S : \A y \in S : z <= y
  BY <1>5, Least
<1>7. Max(S) \in S /\ \A y \in S : Max(S) >= y
  BY <1>4 DEF Max
<1>8. Min(S) \in S /\ \A y \in S : Min(S) <= y
  BY <1>6 DEF Min
<1> QED
  BY <1>7, <1>8

\* The elements of a set below one of them.
LEMMA Ranks ==
  ASSUME NEW S \in SUBSET Nat, IsFiniteSet(S)
  PROVE  /\ Cardinality(S) \in Nat
         /\ \A i \in S : Cardinality({j \in S : j < i}) \in 0 .. Cardinality(S) - 1
         /\ \A i, k \in S : i < k =>
              Cardinality({j \in S : j < i}) < Cardinality({j \in S : j < k})
<1> DEFINE Below(i) == {j \in S : j < i}
<1>1. \A i \in S : /\ IsFiniteSet(Below(i)) /\ Cardinality(Below(i)) \in Nat
                   /\ Cardinality(Below(i)) < Cardinality(S)
  <2> SUFFICES ASSUME NEW i \in S
               PROVE  /\ IsFiniteSet(Below(i)) /\ Cardinality(Below(i)) \in Nat
                      /\ Cardinality(Below(i)) < Cardinality(S)
    OBVIOUS
  <2>1. Below(i) \subseteq S /\ i \notin Below(i)
    OBVIOUS
  <2>2. Below(i) # S
    BY <2>1
  <2> HIDE DEF Below
  <2>3. /\ IsFiniteSet(Below(i)) /\ Cardinality(Below(i)) <= Cardinality(S)
        /\ Cardinality(Below(i)) = Cardinality(S) => Below(i) = S
    BY <2>1, FS_Subset
  <2> QED
    BY <2>2, <2>3, FS_CardinalityType
<1>2. ASSUME NEW i \in S, NEW k \in S, i < k
      PROVE  Cardinality(Below(i)) < Cardinality(Below(k))
  <2>3. i \in Nat /\ k \in Nat /\ \A j \in S : j \in Nat
    OBVIOUS
  <2>4. \A j \in S : j < i => j < k
    BY <1>2, <2>3
  <2>6. Below(i) \subseteq Below(k)
    BY <2>4
  <2>7. i \in Below(k)
    BY <1>2
  <2>8. i \notin Below(i)
    BY <2>3
  <2>1. Below(i) \subseteq Below(k) /\ i \in Below(k) /\ i \notin Below(i)
    BY <2>6, <2>7, <2>8
  <2>2. Below(i) # Below(k)
    BY <2>1
  <2> HIDE DEF Below
  <2>5. /\ Cardinality(Below(i)) <= Cardinality(Below(k))
        /\ Cardinality(Below(i)) = Cardinality(Below(k)) => Below(i) = Below(k)
    BY <1>1, <2>1, FS_Subset
  <2> QED
    BY <1>1, <2>2, <2>5
<1>3. Cardinality(S) \in Nat
  BY FS_CardinalityType
<1> QED
  BY <1>1, <1>2, <1>3

\* Sorted has each element once, in order.
LEMMA SortedIs ==
  ASSUME NEW S \in SUBSET Nat, IsFiniteSet(S)
  PROVE  /\ Sorted(S) \in Seq(S) /\ Sorted(S) \in Seq(Nat)
         /\ Len(Sorted(S)) = Cardinality(S) /\ Cardinality(S) \in Nat
         /\ DOMAIN Sorted(S) = 1 .. Cardinality(S)
         /\ \A k, l \in 1 .. Cardinality(S) : k < l => Sorted(S)[k] < Sorted(S)[l]
         /\ \A i \in S : \E k \in 1 .. Cardinality(S) : Sorted(S)[k] = i
<1> DEFINE n == Cardinality(S)
           rank == [i \in S |-> Cardinality({j \in S : j < i})]
<1>1. /\ n \in Nat
      /\ rank \in [S -> 0 .. n - 1]
      /\ \A i, k \in S : i < k => rank[i] < rank[k]
  BY Ranks
<1>2. \A i, k \in S : rank[i] = rank[k] => i = k
  <2> HIDE DEF rank, n
  <2> SUFFICES ASSUME NEW i \in S, NEW k \in S, rank[i] = rank[k], i # k PROVE FALSE
    OBVIOUS
  <2>1. i < k \/ k < i
    OBVIOUS
  <2>2. rank[i] \in Nat /\ rank[k] \in Nat
    BY <1>1
  <2> QED
    BY <1>1, <2>1, <2>2
<1>3. rank \in Injection(S, 0 .. n - 1)
  BY <1>1, <1>2 DEF Injection, IsInjective
<1>4. IsFiniteSet(0 .. n - 1) /\ Cardinality(0 .. n - 1) = n
  <2>1. 0 \in Int /\ n - 1 \in Int
    BY <1>1
  <2> HIDE DEF n
  <2> QED
    BY <1>1, <2>1, FS_Interval
<1>5. \A r \in 0 .. n - 1 : \E i \in S : rank[i] = r
  <2>1. rank \in Surjection(S, 0 .. n - 1)
    BY <1>3, <1>4, FS_Injection
  <2> QED
    BY <2>1 DEF Surjection
<1>6. Sorted(S) = [k \in 1 .. n |-> CHOOSE i \in S : Cardinality({j \in S : j < i}) = k - 1]
  BY DEF Sorted
<1>11. \A i \in S : rank[i] = Cardinality({j \in S : j < i})
  OBVIOUS
<1> HIDE DEF n, rank
<1>7. \A k \in 1 .. n : Sorted(S)[k] \in S /\ rank[Sorted(S)[k]] = k - 1
  <2> SUFFICES ASSUME NEW k \in 1 .. n
               PROVE  Sorted(S)[k] \in S /\ rank[Sorted(S)[k]] = k - 1
    OBVIOUS
  <2>1. k - 1 \in 0 .. n - 1
    BY <1>1
  <2>2. \E i \in S : Cardinality({j \in S : j < i}) = k - 1
    BY <1>5, <1>11, <2>1
  <2>3. Sorted(S)[k] = CHOOSE i \in S : Cardinality({j \in S : j < i}) = k - 1
    BY <1>6
  <2>4. LET c == CHOOSE i \in S : Cardinality({j \in S : j < i}) = k - 1
        IN c \in S /\ Cardinality({j \in S : j < c}) = k - 1
    BY <2>2
  <2> QED
    BY <1>11, <2>3, <2>4
<1>8. Sorted(S) \in Seq(S) /\ Sorted(S) \in Seq(Nat) /\ Len(Sorted(S)) = n /\ DOMAIN Sorted(S) = 1 .. n
  <2>1. Sorted(S) = [k \in 1 .. n |-> Sorted(S)[k]]
    BY <1>6, Zenon
  <2>2. Sorted(S) \in [1 .. n -> S]
    BY <1>7, <2>1
  <2> QED
    BY <1>1, <2>2
<1>9. \A k, l \in 1 .. n : k < l => Sorted(S)[k] < Sorted(S)[l]
  <2> SUFFICES ASSUME NEW k \in 1 .. n, NEW l \in 1 .. n, k < l, ~ (Sorted(S)[k] < Sorted(S)[l])
               PROVE  FALSE
    OBVIOUS
  <2>1. /\ Sorted(S)[k] \in Nat /\ Sorted(S)[l] \in Nat
        /\ Sorted(S)[k] \in S /\ Sorted(S)[l] \in S
    BY <1>7
  <2>2. Sorted(S)[l] < Sorted(S)[k] \/ Sorted(S)[l] = Sorted(S)[k]
    BY <2>1
  <2>3. rank[Sorted(S)[l]] = l - 1 /\ rank[Sorted(S)[k]] = k - 1
    BY <1>7
  <2> QED
    BY <1>1, <2>1, <2>2, <2>3
<1>10. \A i \in S : \E k \in 1 .. n : Sorted(S)[k] = i
  <2> SUFFICES ASSUME NEW i \in S PROVE \E k \in 1 .. n : Sorted(S)[k] = i
    OBVIOUS
  <2>1. rank[i] \in 0 .. n - 1
    BY <1>1
  <2>2. rank[i] + 1 \in 1 .. n /\ (rank[i] + 1) - 1 = rank[i]
    BY <1>1, <2>1
  <2>3. Sorted(S)[rank[i] + 1] \in S /\ rank[Sorted(S)[rank[i] + 1]] = rank[i]
    BY <1>7, <2>2
  <2> QED
    BY <1>2, <2>2, <2>3
<1> QED
  BY <1>1, <1>8, <1>9, <1>10 DEF n

-----------------------------------------------------------------------------
(* What a text is split into.                                              *)

\* A trimmed stretch of lines: those from the first that is not blank to the last.
LEMMA TrimmedLines ==
  ASSUME NEW f \in Seq(Line), NEW from \in Int, NEW to \in Int
  PROVE  LET t == TrimSpace(f, from, to)
         IN /\ t \in Texts
            /\ \A k \in 1 .. Len(t) - 1 : t[k] < t[k + 1]
            /\ \A i \in ToSet(t) : i \in Nat /\ from <= i /\ i <= to
            /\ \A i \in DOMAIN f : from <= i /\ i <= to /\ ~ f[i].blank => i \in ToSet(t)
<1> DEFINE full == {i \in DOMAIN f : from <= i /\ i <= to /\ ~ f[i].blank}
           t == TrimSpace(f, from, to)
<1>1. Len(f) \in Nat /\ DOMAIN f = 1 .. Len(f) /\ full \in SUBSET (1 .. Len(f))
  OBVIOUS
<1>2. t = IF full = {} THEN << >>
          ELSE [j \in 1 .. Max(full) - Min(full) + 1 |-> Min(full) + j - 1]
  BY DEF TrimSpace
<1>3. \A i \in full : from <= i /\ i <= to
  OBVIOUS
<1>4. \A i \in DOMAIN f : from <= i /\ i <= to /\ ~ f[i].blank => i \in full
  OBVIOUS
<1> HIDE DEF full, t
<1>5. CASE full = {}
  <2>1. t = << >> /\ ToSet(t) = {}
    BY <1>2, <1>5 DEF ToSet
  <2> QED
    BY <1>4, <1>5, <2>1 DEF Texts, t
<1>6. CASE full # {}
  <2> DEFINE a == Min(full)
             b == Max(full)
  <2>1. /\ a \in full /\ b \in full
        /\ \A i \in full : a <= i /\ i <= b
    BY <1>1, <1>6, MaxOf
  <2> HIDE DEF a, b
  <2>9. from <= a /\ b <= to /\ a <= b
    BY <1>3, <2>1
  <2>10. a \in Nat /\ b \in Nat
    BY <1>1, <2>1
  <2>2. /\ a \in Nat /\ b \in Nat /\ a <= b
        /\ from <= a /\ b <= to
    BY <2>9, <2>10
  <2>3. t = [j \in 1 .. b - a + 1 |-> a + j - 1]
    BY <1>2, <1>6 DEF a, b
  <2>4. b - a + 1 \in Nat
    BY <2>2
  <2>5. t \in Seq(Nat) /\ Len(t) = b - a + 1 /\ DOMAIN t = 1 .. b - a + 1
    <3>1. \A j \in 1 .. b - a + 1 : a + j - 1 \in Nat
      BY <2>2
    <3> QED
      BY <2>3, <2>4, <3>1
  <2>6. \A k \in 1 .. Len(t) - 1 : t[k] < t[k + 1]
    <3> SUFFICES ASSUME NEW k \in 1 .. Len(t) - 1 PROVE t[k] < t[k + 1]
      OBVIOUS
    <3>1. k \in 1 .. b - a + 1 /\ k + 1 \in 1 .. b - a + 1
      BY <2>4, <2>5
    <3>2. t[k] = a + k - 1 /\ t[k + 1] = a + (k + 1) - 1
      BY <2>3, <3>1
    <3> QED
      BY <2>2, <3>1, <3>2
  <2>7. \A i \in ToSet(t) : i \in Nat /\ from <= i /\ i <= to
    <3> SUFFICES ASSUME NEW j \in 1 .. b - a + 1
                 PROVE  t[j] \in Nat /\ from <= t[j] /\ t[j] <= to
      BY <2>5 DEF ToSet
    <3>1. t[j] = a + j - 1
      BY <2>3
    <3> QED
      BY <2>2, <3>1
  <2>8. \A i \in full : i \in ToSet(t)
    <3> SUFFICES ASSUME NEW i \in full PROVE \E j \in DOMAIN t : t[j] = i
      BY DEF ToSet
    <3>1. i \in Nat /\ a <= i /\ i <= b
      BY <1>1, <2>1, <2>2 
    <3>2. i - a + 1 \in 1 .. b - a + 1 /\ a + (i - a + 1) - 1 = i
      BY <2>2, <3>1
    <3>3. t[i - a + 1] = a + (i - a + 1) - 1
      BY <2>3, <3>2
    <3> QED
      BY <2>5, <3>2, <3>3
  <2> QED
    BY <1>4, <2>5, <2>6, <2>7, <2>8 DEF Texts, t
<1> QED
  BY <1>5, <1>6

\* Headings: numbers of lines in their order.
Rising(heads) ==
  /\ heads \in Seq(Nat)
  /\ \A k, l \in 1 .. Len(heads) : k < l => heads[k] < heads[l]

LEMMA RisingMatches ==
  ASSUME NEW f \in Seq(Line), NEW S \in SUBSET (DOMAIN f)
  PROVE  Rising(Sorted(S))
<1>1. DOMAIN f = 1 .. Len(f) /\ Len(f) \in Nat
  OBVIOUS
<1>2. IsFiniteSet(1 .. Len(f))
  BY <1>1, FS_Interval
<1>3. S \in SUBSET Nat /\ IsFiniteSet(S)
  BY <1>1, <1>2, FS_Subset
<1> QED
  BY <1>3, SortedIs DEF Rising

LEMMA RisingKept ==
  ASSUME NEW f, NEW heads, Rising(heads)
  PROVE  Rising(FilterByGap(f, heads))
<1> DEFINE gaps   == [i \in 1 .. Len(heads) - 1 |-> Runes(f, heads[i], heads[i + 1])]
           sorted == SortSeq(gaps, <)
           n      == IF Len(sorted) > GapSample THEN GapSample ELSE Len(sorted)
           median == sorted[(n \div 2) + 1]
           least  == Largest(median \div 10, SmallestGap)
           kept   == {1} \cup {i \in 2 .. Len(heads) : gaps[i - 1] >= least}
<1>1. FilterByGap(f, heads) = IF Len(heads) <= 2 \/ median < ReliableGap THEN heads
                              ELSE [k \in DOMAIN Sorted(kept) |-> heads[Sorted(kept)[k]]]
  BY DEF FilterByGap
<1>2. kept \subseteq {1} \cup 2 .. Len(heads)
  OBVIOUS
<1> HIDE DEF gaps, sorted, n, median, least, kept
<1>3. CASE FilterByGap(f, heads) = heads
  BY <1>3
<1>4. CASE /\ ~ (Len(heads) <= 2)
           /\ FilterByGap(f, heads) = [k \in DOMAIN Sorted(kept) |-> heads[Sorted(kept)[k]]]
  <2>1. Len(heads) \in Nat /\ Len(heads) > 2
    BY <1>4 DEF Rising
  <2>2. kept \in SUBSET (1 .. Len(heads)) /\ kept \in SUBSET Nat
    BY <1>2, <2>1
  <2>3. IsFiniteSet(kept)
    <3>1. IsFiniteSet(1 .. Len(heads))
      BY <2>1, FS_Interval
    <3> QED
      BY <2>2, <3>1, FS_Subset
  <2> DEFINE c == Cardinality(kept)
             s == Sorted(kept)
             r == FilterByGap(f, heads)
  <2>4. /\ s \in Seq(kept) /\ c \in Nat /\ DOMAIN s = 1 .. c
        /\ \A k, l \in 1 .. c : k < l => s[k] < s[l]
    BY <2>2, <2>3, SortedIs
  <2>5. r = [k \in DOMAIN s |-> heads[s[k]]]
    BY <1>4
  <2> HIDE DEF c, s, r
  <2>10. \A k \in 1 .. c : s[k] \in kept
    BY <2>4
  <2>6. \A k \in 1 .. c : s[k] \in 1 .. Len(heads)
    BY <2>2, <2>10
  <2>7. \A k \in 1 .. c : r[k] = heads[s[k]] /\ r[k] \in Nat
    BY <2>4, <2>5, <2>6 DEF Rising
  <2>8. r \in Seq(Nat) /\ Len(r) = c
    BY <2>4, <2>5, <2>7
  <2>9. \A k, l \in 1 .. c : k < l => r[k] < r[l]
    BY <2>4, <2>6, <2>7 DEF Rising
  <2> QED
    BY <2>8, <2>9 DEF Rising, r
<1> QED
  BY <1>1, <1>3, <1>4

\* A text split at headings keeps its lines.
LEMMA SplitKeeps ==
  ASSUME NEW f \in Seq(Line), NEW heads, Rising(heads)
  PROVE  LET chapters == SplitByPositions(f, heads)
         IN LinesKept(f, chapters) /\ \A n \in DOMAIN chapters : chapters[n] \in Texts
<1> DEFINE chapters == SplitByPositions(f, heads)
           End(n)   == IF n < Len(heads) THEN heads[n + 1] - 1 ELSE Len(f)
<1>1. /\ Len(heads) \in Nat /\ DOMAIN heads = 1 .. Len(heads) /\ Len(f) \in Nat
      /\ \A n \in 1 .. Len(heads) : heads[n] \in Nat
      /\ \A k, l \in 1 .. Len(heads) : k < l => heads[k] < heads[l]
  BY DEF Rising
<1>2. chapters = [n \in 1 .. Len(heads) |-> TrimSpace(f, heads[n], End(n))]
  BY <1>1 DEF SplitByPositions
<1>3. \A n \in 1 .. Len(heads) : End(n) \in Int
  <2> SUFFICES ASSUME NEW n \in 1 .. Len(heads) PROVE End(n) \in Int
    OBVIOUS
  <2>1. CASE n < Len(heads)
    <3>1. n + 1 \in 1 .. Len(heads)
      BY <1>1, <2>1
    <3> QED
      BY <1>1, <2>1, <3>1
  <2> QED
    BY <1>1, <2>1
<1> HIDE DEF chapters
<1>4. \A n \in 1 .. Len(heads) :
        /\ chapters[n] \in Texts
        /\ \A k \in 1 .. Len(chapters[n]) - 1 : chapters[n][k] < chapters[n][k + 1]
        /\ \A i \in ToSet(chapters[n]) : i \in Nat /\ heads[n] <= i /\ i <= End(n)
        /\ \A i \in DOMAIN f : heads[n] <= i /\ i <= End(n) /\ ~ f[i].blank => i \in ToSet(chapters[n])
  <2> SUFFICES ASSUME NEW n \in 1 .. Len(heads)
               PROVE  /\ chapters[n] \in Texts
                      /\ \A k \in 1 .. Len(chapters[n]) - 1 : chapters[n][k] < chapters[n][k + 1]
                      /\ \A i \in ToSet(chapters[n]) : i \in Nat /\ heads[n] <= i /\ i <= End(n)
                      /\ \A i \in DOMAIN f : heads[n] <= i /\ i <= End(n) /\ ~ f[i].blank
                                               => i \in ToSet(chapters[n])
    OBVIOUS
  <2>1. chapters[n] = TrimSpace(f, heads[n], End(n))
    BY <1>2
  <2>2. heads[n] \in Int /\ End(n) \in Int
    BY <1>1, <1>3
  <2> HIDE DEF End
  <2> QED
    BY <2>1, <2>2, TrimmedLines
<1>5. ASSUME NEW m \in 1 .. Len(heads), NEW n \in 1 .. Len(heads), m < n,
             NEW i \in ToSet(chapters[m]), NEW j \in ToSet(chapters[n])
      PROVE  i < j
  <2>1. m < Len(heads) /\ m + 1 \in 1 .. Len(heads) /\ (m + 1 < n \/ m + 1 = n)
    BY <1>1, <1>5
  <2>2. End(m) = heads[m + 1] - 1
    BY <2>1
  <2>3. heads[m + 1] <= heads[n] /\ heads[m + 1] \in Nat /\ heads[n] \in Nat
    BY <1>1, <2>1
  <2>4. i \in Nat /\ i <= End(m) /\ j \in Nat /\ heads[n] <= j
    BY <1>4
  <2> HIDE DEF End
  <2> QED
    BY <2>2, <2>3, <2>4
<1>6. ASSUME NEW i \in DOMAIN f, ~ f[i].blank,
             NEW n \in 1 .. Len(heads), NEW j \in 1 .. i, j \in ToSet(chapters[n])
      PROVE  \E k \in 1 .. Len(heads) : i \in ToSet(chapters[k])
  <2> DEFINE K == {k \in 1 .. Len(heads) : heads[k] <= i}
  <2>1. i \in Nat /\ i <= Len(f)
    BY <1>1
  <2>2. n \in K
    <3>1. heads[n] <= j /\ j <= i /\ j \in Nat /\ heads[n] \in Nat
      BY <1>1, <1>4, <1>6, <2>1
    <3> QED
      BY <2>1, <3>1
  <2>3. Max(K) \in K /\ \A k \in K : k <= Max(K)
    <3>1. K \in SUBSET (1 .. Len(heads)) /\ K # {}
      BY <2>2
    <3> HIDE DEF K
    <3> QED
      BY <1>1, <3>1, MaxOf
  <2>4. PICK k \in 1 .. Len(heads) : heads[k] <= i /\ \A l \in K : l <= k
    BY <2>3
  <2>5. i <= End(k)
    <3>1. CASE k < Len(heads)
      <4>1. k + 1 \in 1 .. Len(heads) /\ ~ (k + 1 <= k)
        BY <1>1, <3>1
      <4>2. ~ (heads[k + 1] <= i) /\ heads[k + 1] \in Nat
        BY <1>1, <2>4, <4>1
      <4> QED
        BY <2>1, <3>1, <4>2
    <3> QED
      BY <2>1, <3>1
  <2> HIDE DEF End
  <2> QED
    BY <1>4, <1>6, <2>4, <2>5
<1>7. DOMAIN chapters = 1 .. Len(heads)
  BY <1>2
<1>8. LinesKept(f, chapters)
  BY <1>4, <1>5, <1>6, <1>7 DEF LinesKept
<1> QED
  BY <1>4, <1>7, <1>8 DEF chapters

\* What an import makes of a text.
WellParsed(f, chapters) ==
  LinesKept(f, chapters) /\ \A n \in DOMAIN chapters : chapters[n] \in Texts

LEMMA WholeKeeps ==
  ASSUME NEW f \in Seq(Line), Whole(f).ok
  PROVE  WellParsed(f, Whole(f).chapters)
<1> DEFINE t == TrimSpace(f, 1, Len(f))
           chapters == <<t>>
<1>1. Whole(f).chapters = chapters
  BY DEF Whole, Parsed, Unparsed
<1>2. Len(f) \in Nat /\ DOMAIN f = 1 .. Len(f)
  OBVIOUS
<1>3. /\ t \in Texts
      /\ \A k \in 1 .. Len(t) - 1 : t[k] < t[k + 1]
      /\ \A i \in DOMAIN f : 1 <= i /\ i <= Len(f) /\ ~ f[i].blank => i \in ToSet(t)
  BY <1>2, TrimmedLines
<1> HIDE DEF t
<1>4. DOMAIN chapters = {1} /\ chapters[1] = t
  OBVIOUS
<1>5. \A i \in DOMAIN f : 1 <= i /\ i <= Len(f)
  BY <1>2
<1> HIDE DEF chapters
<1>6. LinesKept(f, chapters)
  <2>1. \A m, n \in DOMAIN chapters : ~ (m < n)
    BY <1>4
  <2>2. \A i \in DOMAIN f : ~ f[i].blank => \E n \in DOMAIN chapters : i \in ToSet(chapters[n])
    BY <1>3, <1>4, <1>5
  <2>3. \A n \in DOMAIN chapters : \A k \in 1 .. Len(chapters[n]) - 1 :
          chapters[n][k] < chapters[n][k + 1]
    BY <1>3, <1>4
  <2> QED
    BY <2>1, <2>2, <2>3 DEF LinesKept
<1> QED
  BY <1>1, <1>3, <1>4, <1>6 DEF WellParsed

LEMMA SplitParsed ==
  ASSUME NEW f \in Seq(Line), NEW heads, Rising(heads)
  PROVE  WellParsed(f, Parsed(SplitByPositions(f, heads)).chapters)
<1>1. Parsed(SplitByPositions(f, heads)).chapters = SplitByPositions(f, heads)
  BY DEF Parsed
<1> QED
  BY <1>1, SplitKeeps DEF WellParsed

LEMMA ParsedTxt ==
  ASSUME NEW f \in Seq(Line), ParseTxt(f).ok
  PROVE  WellParsed(f, ParseTxt(f).chapters)
<1> DEFINE heads == Sorted(Headings(f))
           kept  == FilterByGap(f, heads)
<1>1. Rising(kept)
  <2>1. Headings(f) \in SUBSET DOMAIN f
    BY DEF Headings, Matches
  <2> QED
    BY <2>1, RisingMatches, RisingKept
<1>2. \/ ParseTxt(f) = Whole(f)
      \/ ParseTxt(f) = Parsed(SplitByPositions(f, kept))
      \/ ParseTxt(f) = NeedsLLM
  BY DEF ParseTxt
<1>3. ~ NeedsLLM.ok
  BY DEF NeedsLLM
<1> HIDE DEF kept
<1> QED
  BY <1>1, <1>2, <1>3, WholeKeeps, SplitParsed

LEMMA ParsedWithPattern ==
  ASSUME NEW f \in Seq(Line), NEW found \in SUBSET DOMAIN f, ParseWithPattern(f, found).ok
  PROVE  WellParsed(f, ParseWithPattern(f, found).chapters)
<1> DEFINE heads == Sorted({i \in found : f[i].len <= MaxTitle})
           kept  == FilterByGap(f, heads)
<1>1. Rising(kept)
  BY RisingMatches, RisingKept
<1>2. \/ ParseWithPattern(f, found) = Unparsed
      \/ ParseWithPattern(f, found) = Parsed(SplitByPositions(f, kept))
  BY DEF ParseWithPattern
<1>3. ~ Unparsed.ok
  BY DEF Unparsed
<1> HIDE DEF kept
<1> QED
  BY <1>1, <1>2, <1>3, SplitParsed

\* Every item of an EPUB is a chapter or skipped.
LEMMA ParsedEpub ==
  ASSUME NEW s \in Seq([read : BOOLEAN, lines : Texts])
  PROVE  LET chapters == ParseEpub(s).chapters
         IN /\ \A n \in DOMAIN chapters : chapters[n] \in Texts
            /\ Len(chapters) + Cardinality(Skipped(s)) = Len(s)
<1> DEFINE rest  == DOMAIN s \ Skipped(s)
           items == Sorted(rest)
           chapters == [k \in DOMAIN items |-> s[items[k]].lines]
<1>1. ParseEpub(s).chapters = chapters
  BY DEF ParseEpub, Parsed
<1>2. Len(s) \in Nat /\ DOMAIN s = 1 .. Len(s) /\ Skipped(s) \subseteq DOMAIN s
  BY DEF Skipped
<1>3. IsFiniteSet(DOMAIN s) /\ Cardinality(DOMAIN s) = Len(s)
  <2>1. IsFiniteSet(1 .. Len(s)) /\ Cardinality(1 .. Len(s)) = IF 1 > Len(s) THEN 0 ELSE Len(s) - 1 + 1
    BY <1>2, FS_Interval
  <2> QED
    BY <1>2, <2>1
<1>4. Cardinality(rest) = Len(s) - Cardinality(Skipped(s)) /\ IsFiniteSet(rest)
  <2>1. DOMAIN s \cap Skipped(s) = Skipped(s)
    BY <1>2
  <2> QED
    BY <1>3, <2>1, FS_Difference, ZenonT(30)
<1>5. Cardinality(Skipped(s)) \in Nat
  BY <1>2, <1>3, FS_Subset, FS_CardinalityType
<1>6. rest \in SUBSET Nat /\ rest \subseteq DOMAIN s
  BY <1>2
<1> HIDE DEF rest
<1>7. items \in Seq(rest) /\ Len(items) = Cardinality(rest) /\ Len(items) \in Nat
      /\ DOMAIN items = 1 .. Len(items)
  BY <1>4, <1>6, SortedIs
<1> HIDE DEF items
<1>8. \A k \in 1 .. Len(items) : items[k] \in DOMAIN s
  <2>1. \A k \in 1 .. Len(items) : items[k] \in rest
    BY <1>7
  <2> QED
    BY <1>6, <2>1
<1>9. \A k \in 1 .. Len(items) : s[items[k]].lines \in Texts
  <2>1. \A i \in DOMAIN s : s[i] \in [read : BOOLEAN, lines : Texts]
    <3> DEFINE Items == [read : BOOLEAN, lines : Texts]
    <3>1. s \in Seq(Items)
      OBVIOUS
    <3> HIDE DEF Items
    <3>2. \A i \in DOMAIN s : s[i] \in Items
      BY <3>1
    <3> QED
      BY <3>2 DEF Items
  <2>2. \A i \in DOMAIN s : s[i].lines \in Texts
    BY <2>1
  <2> QED
    BY <1>8, <2>2
<1>10. chapters = [k \in 1 .. Len(items) |-> s[items[k]].lines]
  BY <1>7
<1>11. chapters \in Seq(Texts) /\ Len(chapters) = Len(items)
  BY <1>7, <1>9, <1>10
<1> HIDE DEF chapters
<1>12. \A n \in DOMAIN chapters : chapters[n] \in Texts
  BY <1>11
<1>13. Len(chapters) + Cardinality(Skipped(s)) = Len(s)
  BY <1>2, <1>4, <1>5, <1>7, <1>11
<1> QED
  BY <1>1, <1>12, <1>13

-----------------------------------------------------------------------------
(* Types, and the stages of an import.                                     *)

BaseInv == TypeOK /\ HandsWait /\ ImportStages

LEMMA Basics ==
  /\ MaxChapter \in Nat /\ Written \subseteq Chapters
  /\ Contents \subseteq Texts /\ << >> \in Texts /\ NoRow \notin Nat
  /\ Empty \in [Chapters -> Texts \cup {NoFile}]
  /\ NoRows \in [Chapters -> Nat \cup {NoRow}]
  /\ AtRest.at = "rest"
BY ManuscriptConstants DEF Chapters, Texts, NoRow, Empty, NoRows, AtRest

\* The hands by where they are.
LEMMA HandTypes ==
  ASSUME TypeOK
  PROVE  /\ tool.at \in {"written", "logged"} => Writing(tool)
         /\ tool.at \in {"waiting", "checked"} =>
              tool \in [at : {"waiting", "checked"}, kind : {"chapter", "outline"}, n : Chapters,
                        text : Texts, exists : BOOLEAN, current : Texts \cup {NoFile}]
         /\ editor.at \in {"written", "logged"} => Writing(editor)
         /\ editor.at = "typed" => editor \in [at : {"typed"}, n : Chapters, text : Texts]
         /\ list.at \in {"created", "removed"} => list \in [at : {"created", "removed"}, n : Chapters]
BY DEF TypeOK, NovelOK, ToolOK, EditorOK, ListOK, Writing, AtRest

\* Who is at work has the novel open.
LEMMA AtWork ==
  ASSUME BaseInv, tool.at # "rest" \/ editor.at # "rest" \/ list.at # "rest"
  PROVE  imp.at = "closed"
BY Basics DEF BaseInv, HandsWait

LEMMA ClosedStays ==
  ASSUME BaseInv, imp.at = "closed", UNCHANGED imp
  PROVE  HandsWait' /\ ImportStages' /\ ImpOK'
BY DEF BaseInv, TypeOK, NovelOK, HandsWait, ImportStages, ImpOK, Importing

LEMMA WordsAreNat ==
  ASSUME NEW t \in Texts
  PROVE  Words(t) \in Nat
BY DEF Texts, Words

\* A write marks a chapter that another hand is at work on, and no other.
LEMMA Crosses ==
  ASSUME uncounted \subseteq Chapters, NEW n \in Chapters, NEW others, Crossing(n, others)
  PROVE  /\ uncounted' \subseteq Chapters /\ uncounted \subseteq uncounted'
         /\ n \notin uncounted' => \A h \in others : ~ Busy(h, n)
BY DEF Crossing

LEMMA Writes ==
  ASSUME TypeOK, NEW n \in Chapters, NEW t \in Texts, WriteFile(n, t)
  PROVE  /\ file' \in [Chapters -> Texts \cup {NoFile}] /\ repo' \in BOOLEAN
         /\ file'[n] = t /\ \A m \in Chapters \ {n} : file'[m] = file[m]
BY DEF TypeOK, NovelOK, WriteFile

\* The two steps of counting.
Logs(h, h2) ==
  /\ h.at = "written"
  /\ \/ \E old \in {OldCount(h), 0} : logged' = logged + Delta(h, old) /\ UNCHANGED missed
     \/ missed' = missed + Delta(h, OldCount(h)) /\ UNCHANGED logged
  /\ h2 = [at |-> "logged", n |-> h.n, text |-> h.text]
  /\ UNCHANGED <<row, uncounted>>

Sets(h, h2) ==
  /\ h.at = "logged"
  /\ \/ h.n \in Rows /\ row' = [row EXCEPT ![h.n] = Words(h.text)] /\ UNCHANGED uncounted
     \/ uncounted' = uncounted \cup {h.n} /\ UNCHANGED row
  /\ h2 = AtRest
  /\ UNCHANGED <<logged, missed>>

LEMMA Gains ==
  ASSUME TypeOK, NEW h, Writing(h)
  PROVE  /\ OldCount(h) \in Nat
         /\ \A old \in Nat : Delta(h, old) \in Nat /\ Delta(h, old) <= Delta(h, 0)
<1>1. h.n \in Chapters /\ Words(h.text) \in Nat
  BY WordsAreNat DEF Writing
<1>2. OldCount(h) \in Nat
  BY <1>1 DEF OldCount, TypeOK, NovelOK, Rows
<1>3. \A w, old \in Nat : Gain(w - old) \in Nat /\ Gain(w - old) <= Gain(w - 0)
  BY DEF Gain
<1> QED
  BY <1>1, <1>2, <1>3 DEF Delta

LEMMA CountingSteps ==
  ASSUME TypeOK, NEW h, Writing(h), NEW h2, Counting(h, h2)
  PROVE  /\ Logs(h, h2) \/ Sets(h, h2)
         /\ h2 = AtRest \/ Writing(h2)
         /\ logged' \in Nat /\ missed' \in Nat /\ row' \in [Chapters -> Nat \cup {NoRow}]
         /\ uncounted' \subseteq Chapters /\ uncounted \subseteq uncounted'
<1>1. h \in [at : {"written", "logged"}, n : Chapters, text : Texts]
  BY DEF Writing
<1>2. h.n \in Chapters /\ h.text \in Texts /\ Words(h.text) \in Nat
  BY <1>1, WordsAreNat
<1>3. Logs(h, h2) \/ Sets(h, h2)
  BY <1>1 DEF Counting, Logs, Sets
<1>4. CASE Logs(h, h2)
  <2>1. 0 \in Nat /\ OldCount(h) \in Nat /\ Delta(h, OldCount(h)) \in Nat /\ Delta(h, 0) \in Nat
    BY Gains
  <2>2. \A a, b \in Nat : a + b \in Nat
    OBVIOUS
  <2>4. logged' \in Nat /\ missed' \in Nat
    BY <1>4, <2>1, <2>2 DEF Logs, TypeOK, NovelOK
  <2>5. Writing(h2)
    BY <1>2, <1>4 DEF Logs, Writing
  <2> QED
    BY <1>3, <1>4, <2>4, <2>5 DEF Logs, TypeOK, NovelOK
<1>5. CASE Sets(h, h2)
  <2>1. row' \in [Chapters -> Nat \cup {NoRow}]
    BY <1>2, <1>5 DEF Sets, TypeOK, NovelOK
  <2> QED
    BY <1>2, <1>3, <1>5, <2>1 DEF Sets, TypeOK, NovelOK
<1> QED
  BY <1>3, <1>4, <1>5

\* The number of the next chapter.
LEMMA NextNumber ==
  ASSUME TypeOK
  PROVE  LatestNumber + 1 \notin Rows
<1>1. Rows \in SUBSET (1 .. MaxChapter)
  BY DEF Rows, Chapters
<1>2. CASE Rows = {}
  BY <1>2
<1>3. CASE Rows # {}
  <2>1. Max(Rows) \in Rows /\ \A x \in Rows : x <= Max(Rows)
    BY <1>1, <1>3, Basics, MaxOf
  <2>2. Max(Rows) \in Nat
    <3>1. \A x \in Rows : x \in Nat
      BY Basics DEF Rows, Chapters
    <3> QED
      BY <2>1, <3>1
  <2>3. LatestNumber = Max(Rows)
    BY <1>3 DEF LatestNumber
  <2> DEFINE m == Max(Rows)
  <2>5. m \in Nat /\ \A x \in Rows : x \in Nat /\ x <= m
    BY <1>1, <2>1, <2>2
  <2> HIDE DEF m
  <2>6. \A x \in Rows : x # m + 1
    BY <2>5
  <2>4. \A x \in Rows : x # Max(Rows) + 1
    BY <2>6 DEF m
  <2> QED
    BY <2>3, <2>4
<1> QED
  BY <1>2, <1>3

\* One lemma for each hand.
LEMMA ListType ==
  ASSUME BaseInv,
         DeleteNovel \/ RemoveDirectory \/ CreateRow \/ CreateFile \/ DeleteFile \/ DeleteRow
  PROVE  BaseInv'
<1>1. imp.at = "closed"
  BY AtWork DEF Open, DeleteNovel, RemoveDirectory, CreateRow, CreateFile, DeleteFile, DeleteRow
<1>2. UNCHANGED imp
  BY DEF DeleteNovel, RemoveDirectory, CreateRow, CreateFile, DeleteFile, DeleteRow
<1>3. HandsWait' /\ ImportStages' /\ ImpOK'
  BY <1>1, <1>2, ClosedStays
<1>4. UNCHANGED <<tool, editor>>
  BY DEF DeleteNovel, RemoveDirectory, CreateRow, CreateFile, DeleteFile, DeleteRow
<1>5. ToolOK' /\ EditorOK'
  BY <1>4 DEF BaseInv, TypeOK, NovelOK, ToolOK, EditorOK, Writing
<1>6. TypeOK
  BY DEF BaseInv
<1>7. CASE DeleteNovel
  <2>1. NovelOK' /\ ListOK'
    BY <1>6, <1>7, Basics DEF DeleteNovel, TypeOK, NovelOK, ListOK
  <2> QED
    BY <1>3, <1>5, <2>1 DEF BaseInv, TypeOK
<1>8. CASE RemoveDirectory
  <2>1. NovelOK' /\ ListOK'
    BY <1>6, <1>8, Basics DEF RemoveDirectory, TypeOK, NovelOK, ListOK, record
  <2> QED
    BY <1>3, <1>5, <2>1 DEF BaseInv, TypeOK
<1>9. CASE CreateRow
  <2>1. LatestNumber + 1 \in Chapters
    BY <1>9, Basics DEF CreateRow
  <2>2. uncounted' \subseteq Chapters
    BY <1>6, <1>9, <2>1, Crosses DEF CreateRow, TypeOK, NovelOK
  <2>3. row' \in [Chapters -> Nat \cup {NoRow}] /\ ListOK'
    BY <1>6, <1>9, <2>1 DEF CreateRow, TypeOK, NovelOK, ListOK
  <2>9. NovelOK'
    BY <1>6, <1>9, <2>2, <2>3 DEF CreateRow, TypeOK, NovelOK
  <2> QED
    BY <1>3, <1>5, <2>3, <2>9 DEF BaseInv, TypeOK
<1>10. CASE CreateFile
  <2>1. list.n \in Chapters
    BY <1>6, <1>10, HandTypes DEF CreateFile
  <2>2. uncounted' \subseteq Chapters
    BY <1>6, <1>10, <2>1, Crosses DEF CreateFile, TypeOK, NovelOK
  <2>3. file' \in [Chapters -> Texts \cup {NoFile}] /\ repo' \in BOOLEAN
    BY <1>6, <1>10, <2>1, Writes, Basics DEF CreateFile, TypeOK, NovelOK
  <2>4. NovelOK'
    BY <1>6, <1>10, <2>2, <2>3 DEF CreateFile, TypeOK, NovelOK
  <2>5. ListOK'
    BY <1>10 DEF CreateFile, ListOK
  <2> QED
    BY <1>3, <1>5, <2>4, <2>5 DEF BaseInv, TypeOK
<1>11. CASE DeleteFile
  <2>1. PICK n \in Rows : /\ file' = [file EXCEPT ![n] = NoFile]
                          /\ list' = [at |-> "removed", n |-> n]
                          /\ Crossing(n, {tool, editor})
    BY <1>11 DEF DeleteFile
  <2>2. n \in Chapters
    BY DEF Rows
  <2>3. uncounted' \subseteq Chapters
    BY <1>6, <2>1, <2>2, Crosses DEF TypeOK, NovelOK
  <2>4. file' \in [Chapters -> Texts \cup {NoFile}] /\ ListOK'
    BY <1>6, <2>1, <2>2 DEF TypeOK, NovelOK, ListOK
  <2>5. NovelOK'
    BY <1>6, <1>11, <2>3, <2>4 DEF DeleteFile, TypeOK, NovelOK
  <2> QED
    BY <1>3, <1>5, <2>4, <2>5 DEF BaseInv, TypeOK
<1>12. CASE DeleteRow
  <2>1. list.n \in Chapters
    BY <1>6, <1>12, HandTypes DEF DeleteRow
  <2>2. row' \in [Chapters -> Nat \cup {NoRow}]
    BY <1>6, <1>12, <2>1 DEF DeleteRow, TypeOK, NovelOK
  <2>3. NovelOK' /\ ListOK'
    BY <1>6, <1>12, <2>2 DEF DeleteRow, TypeOK, NovelOK, ListOK, record
  <2> QED
    BY <1>3, <1>5, <2>3 DEF BaseInv, TypeOK
<1> QED
  BY <1>7, <1>8, <1>9, <1>10, <1>11, <1>12

LEMMA EditorType ==
  ASSUME BaseInv, Type \/ SaveContent \/ CountSaved
  PROVE  BaseInv'
<1>1. imp.at = "closed"
  BY AtWork DEF Open, Type, SaveContent, CountSaved, Counting
<1>2. UNCHANGED <<imp, tool, list>>
  BY DEF Type, SaveContent, CountSaved
<1>3. HandsWait' /\ ImportStages' /\ ImpOK'
  BY <1>1, <1>2, ClosedStays
<1>4. ToolOK' /\ ListOK'
  BY <1>2 DEF BaseInv, TypeOK, NovelOK, ToolOK, ListOK, Writing
<1>5. TypeOK
  BY DEF BaseInv
<1>6. CASE Type
  <2>1. PICK n \in Rows, c \in Contents : editor' = [at |-> "typed", n |-> n, text |-> c]
    BY <1>6 DEF Type
  <2>2. n \in Chapters /\ c \in Texts
    BY Basics DEF Rows
  <2>3. EditorOK'
    BY <2>1, <2>2 DEF EditorOK
  <2>4. NovelOK'
    BY <1>5, <1>6 DEF Type, TypeOK, NovelOK, novel, record
  <2> QED
    BY <1>3, <1>4, <2>3, <2>4 DEF BaseInv, TypeOK
<1>7. CASE SaveContent
  <2>1. editor \in [at : {"typed"}, n : Chapters, text : Texts]
    BY <1>5, <1>7, HandTypes DEF SaveContent
  <2>2. uncounted' \subseteq Chapters
    BY <1>5, <1>7, <2>1, Crosses DEF SaveContent, TypeOK, NovelOK
  <2>3. file' \in [Chapters -> Texts \cup {NoFile}] /\ repo' \in BOOLEAN
    BY <1>5, <1>7, <2>1, Writes DEF SaveContent, TypeOK, NovelOK
  <2>4. EditorOK'
    BY <1>7, <2>1 DEF SaveContent, EditorOK, Writing
  <2>5. NovelOK'
    BY <1>5, <1>7, <2>2, <2>3 DEF SaveContent, TypeOK, NovelOK
  <2> QED
    BY <1>3, <1>4, <2>4, <2>5 DEF BaseInv, TypeOK
<1>8. CASE CountSaved
  <2>1. Writing(editor)
    BY <1>5, <1>8, HandTypes DEF CountSaved, Counting
  <2>2. /\ editor' = AtRest \/ Writing(editor')
        /\ logged' \in Nat /\ missed' \in Nat
        /\ row' \in [Chapters -> Nat \cup {NoRow}] /\ uncounted' \subseteq Chapters
    BY <1>5, <1>8, <2>1, CountingSteps DEF CountSaved
  <2>3. EditorOK'
    BY <2>2 DEF EditorOK, Writing
  <2>4. NovelOK'
    BY <1>5, <1>8, <2>2 DEF CountSaved, TypeOK, NovelOK
  <2> QED
    BY <1>3, <1>4, <2>3, <2>4 DEF BaseInv, TypeOK
<1> QED
  BY <1>6, <1>7, <1>8

LEMMA ToolType ==
  ASSUME BaseInv, Propose \/ Reject \/ KeepRow \/ WriteChapter \/ WriteOutline \/ CountEdited
  PROVE  BaseInv'
<1>1. imp.at = "closed"
  BY AtWork DEF Open, Propose, Reject, KeepRow, WriteChapter, WriteOutline, CountEdited, Counting
<1>2. UNCHANGED <<imp, editor, list>>
  BY DEF Propose, Reject, KeepRow, WriteChapter, WriteOutline, CountEdited
<1>3. HandsWait' /\ ImportStages' /\ ImpOK'
  BY <1>1, <1>2, ClosedStays
<1>4. EditorOK' /\ ListOK'
  BY <1>2 DEF BaseInv, TypeOK, EditorOK, ListOK, Writing
<1>5. TypeOK
  BY DEF BaseInv
<1> DEFINE Proposals == [at : {"waiting", "checked"}, kind : {"chapter", "outline"}, n : Chapters,
                         text : Texts, exists : BOOLEAN, current : Texts \cup {NoFile}]
<1>6. CASE Propose
  <2>1. NovelOK'
    BY <1>5, <1>6 DEF Propose, TypeOK, NovelOK, novel, record
  <2>2. \A n \in Written : /\ n \in Chapters /\ Current(n) \in Texts \cup {NoFile}
                           /\ (file[n] # NoFile) \in BOOLEAN
    BY <1>5, Basics DEF Current, TypeOK, NovelOK
  <2>5. PICK n \in Written :
          \/ \E c \in Contents \ {Current(n)} :
               tool' = [at |-> "waiting", kind |-> "chapter", n |-> n, text |-> c,
                        exists |-> file[n] # NoFile, current |-> Current(n)]
          \/ \E exists \in BOOLEAN :
               tool' = [at |-> "waiting", kind |-> "outline", n |-> n, text |-> << >>,
                        exists |-> exists, current |-> << >>]
    BY <1>6 DEF Propose
  <2> DEFINE seen == file[n] # NoFile
             read == Current(n)
  <2>6. n \in Chapters /\ read \in Texts \cup {NoFile} /\ seen \in BOOLEAN
    BY <2>2
  <2>7. \/ \E c \in Texts :
             tool' = [at |-> "waiting", kind |-> "chapter", n |-> n, text |-> c,
                      exists |-> seen, current |-> read]
        \/ \E exists \in BOOLEAN :
             tool' = [at |-> "waiting", kind |-> "outline", n |-> n, text |-> << >>,
                      exists |-> exists, current |-> << >>]
    BY <2>5, Basics
  <2> HIDE DEF seen, read
  <2>3. tool' \in Proposals
    BY <2>6, <2>7, Basics
  <2>4. ToolOK'
    BY <2>3 DEF ToolOK
  <2> QED
    BY <1>3, <1>4, <2>1, <2>4 DEF BaseInv, TypeOK
<1>7. CASE Reject
  <2>1. NovelOK'
    BY <1>5, <1>7 DEF Reject, TypeOK, NovelOK, novel, record
  <2>2. ToolOK'
    BY <1>7 DEF Reject, ToolOK
  <2> QED
    BY <1>3, <1>4, <2>1, <2>2 DEF BaseInv, TypeOK
<1>8. ASSUME tool.at \in {"waiting", "checked"}
      PROVE  /\ tool \in Proposals /\ tool.n \in Chapters /\ tool.text \in Texts
             /\ [tool EXCEPT !.at = "checked"] \in Proposals
  <2>1. tool \in Proposals
    BY <1>5, <1>8, HandTypes
  <2> QED
    BY <2>1
<1> HIDE DEF Proposals
<1>9. CASE KeepRow
  <2>1. row' \in [Chapters -> Nat \cup {NoRow}]
    BY <1>5, <1>8, <1>9 DEF KeepRow, TypeOK, NovelOK
  <2>2. NovelOK'
    BY <1>5, <1>9, <2>1 DEF KeepRow, TypeOK, NovelOK, record
  <2>3. ToolOK'
    BY <1>8, <1>9 DEF KeepRow, ToolOK, Proposals
  <2> QED
    BY <1>3, <1>4, <2>2, <2>3 DEF BaseInv, TypeOK
<1>10. CASE WriteChapter
  <2>1. tool.n \in Chapters /\ tool.text \in Texts
    BY <1>8, <1>10 DEF WriteChapter
  <2>2. uncounted' \subseteq Chapters
    BY <1>5, <1>10, <2>1, Crosses DEF WriteChapter, TypeOK, NovelOK
  <2>3. file' \in [Chapters -> Texts \cup {NoFile}] /\ repo' \in BOOLEAN
    BY <1>5, <1>10, <2>1, Writes DEF WriteChapter, TypeOK, NovelOK
  <2>4. NovelOK'
    BY <1>5, <1>10, <2>2, <2>3 DEF WriteChapter, TypeOK, NovelOK
  <2>5. ToolOK'
    BY <1>10, <2>1 DEF WriteChapter, ToolOK, Writing
  <2> QED
    BY <1>3, <1>4, <2>4, <2>5 DEF BaseInv, TypeOK
<1>11. CASE WriteOutline
  <2>1. NovelOK'
    BY <1>5, <1>11 DEF WriteOutline, TypeOK, NovelOK, record
  <2>2. ToolOK'
    BY <1>11 DEF WriteOutline, ToolOK
  <2> QED
    BY <1>3, <1>4, <2>1, <2>2 DEF BaseInv, TypeOK
<1>12. CASE CountEdited
  <2>1. Writing(tool)
    BY <1>5, <1>12, HandTypes DEF CountEdited, Counting
  <2>2. /\ tool' = AtRest \/ Writing(tool')
        /\ logged' \in Nat /\ missed' \in Nat
        /\ row' \in [Chapters -> Nat \cup {NoRow}] /\ uncounted' \subseteq Chapters
    BY <1>5, <1>12, <2>1, CountingSteps DEF CountEdited
  <2>3. ToolOK'
    BY <2>2 DEF ToolOK, Writing
  <2>4. NovelOK'
    BY <1>5, <1>12, <2>2 DEF CountEdited, TypeOK, NovelOK
  <2> QED
    BY <1>3, <1>4, <2>3, <2>4 DEF BaseInv, TypeOK
<1> QED
  BY <1>6, <1>7, <1>9, <1>10, <1>11, <1>12

\* An import keeps what it works on.
SameImport(next) ==
  imp' = [at |-> next, source |-> imp.source, of |-> imp.of, chapters |-> imp.chapters]

LEMMA ImportGoesOn ==
  ASSUME ImpOK, Importing, NEW next \in {"novel", "repo", "files", "rows", "done", "failed", "left"},
         imp' = [imp EXCEPT !.at = next]
  PROVE  imp'.at = next /\ imp'.chapters = imp.chapters /\ ImpOK'
<1>1. SameImport(next)
  BY DEF ImpOK, SameImport
<1>2. /\ imp'.at = next /\ imp'.source = imp.source /\ imp'.of = imp.of
      /\ imp'.chapters = imp.chapters
  BY <1>1 DEF SameImport
<1> QED
  BY <1>1, <1>2 DEF ImpOK, Importing, SameImport

LEMMA CleanupKeeps ==
  ASSUME BaseInv, imp.at \in {"repo", "files", "rows"}, CleanupImport,
         UNCHANGED <<row, record, hands>>, row = NoRows
  PROVE  BaseInv'
<1>7. TypeOK /\ NovelOK /\ ImpOK /\ Importing
  BY DEF BaseInv, TypeOK, Importing
<1>1. imp'.chapters = imp.chapters /\ ImpOK'
  BY <1>7, ImportGoesOn DEF CleanupImport
<1>6. \/ imp'.at = "failed" /\ repo' = FALSE /\ file' = Empty /\ listed' = FALSE
      \/ /\ imp'.at = "left" /\ repo' \in BOOLEAN /\ listed' \in BOOLEAN
         /\ file' \in [Chapters -> Texts \cup {NoFile}]
         /\ \A n \in Chapters : file'[n] \in {file[n], NoFile}
  BY <1>7, ImportGoesOn DEF CleanupImport, NovelOK
<1>8. listed' \in BOOLEAN /\ repo' \in BOOLEAN /\ file' \in [Chapters -> Texts \cup {NoFile}]
  <2>1. CASE imp'.at = "failed"
    <3>1. file' = Empty /\ repo' = FALSE /\ listed' = FALSE
      BY <1>6, <2>1
    <3> QED
      BY <3>1, Basics
  <2> QED
    BY <1>6, <2>1
<1>2. NovelOK'
  BY <1>7, <1>8 DEF NovelOK, record
<1>3. ToolOK' /\ EditorOK' /\ ListOK'
  BY DEF BaseInv, TypeOK, ToolOK, EditorOK, ListOK, Writing, hands
<1>4. HandsWait'
  BY DEF BaseInv, HandsWait, hands
<1>5. ImportStages'
  <2>1. CASE imp'.at = "failed"
    BY <1>6, <2>1 DEF ImportStages, Nothing
  <2>2. \A n \in Chapters :
          file[n] = NoFile \/ (n \in DOMAIN imp.chapters /\ file[n] = imp.chapters[n])
    BY DEF BaseInv, ImportStages, Nothing, Empty
  <2>3. CASE imp'.at = "left"
    BY <1>1, <1>6, <2>2, <2>3 DEF ImportStages
  <2> QED
    BY <1>6, <2>1, <2>3
<1> QED
  BY <1>1, <1>2, <1>3, <1>4, <1>5 DEF BaseInv, TypeOK

LEMMA HandsStay ==
  ASSUME BaseInv, imp.at # "closed", UNCHANGED hands
  PROVE  ToolOK' /\ EditorOK' /\ ListOK' /\ HandsWait'
BY DEF BaseInv, TypeOK, ToolOK, EditorOK, ListOK, HandsWait, hands

\* The words of a column of counts are finitely many.
LEMMA ColumnFinite ==
  ASSUME NEW r \in [Chapters -> Nat \cup {NoRow}]
  PROVE  /\ IsFiniteSet(Column(r)) /\ Cardinality(Column(r)) \in Nat
         /\ WordsIn(r) = Cardinality(Column(r))
<1> DEFINE part == [n \in Chapters |-> {n} \X (1 .. r[n])]
           parts == {part[n] : n \in Chapters}
<1>1. IsFiniteSet(Chapters)
  BY Basics, FS_Interval DEF Chapters
<1>2. IsFiniteSet(parts)
  <2>1. part \in Surjection(Chapters, parts)
    BY DEF Surjection
  <2> HIDE DEF part, parts
  <2> QED
    BY <1>1, <2>1, FS_Surjection
<1>3. \A n \in Chapters : IsFiniteSet(part[n])
  <2> SUFFICES ASSUME NEW n \in Chapters PROVE IsFiniteSet({n} \X (1 .. r[n]))
    OBVIOUS
  <2>1. r[n] \in Int
    BY DEF NoRow
  <2>2. IsFiniteSet(1 .. r[n])
    BY <2>1, FS_Interval
  <2>3. IsFiniteSet({n})
    BY FS_Singleton
  <2> QED
    BY <2>2, <2>3, FS_Product
<1>4. Column(r) = UNION parts
  BY DEF Column
<1>5. IsFiniteSet(UNION parts)
  <2>1. \A T \in parts : IsFiniteSet(T)
    BY <1>3
  <2> HIDE DEF part, parts
  <2> QED
    BY <1>2, <2>1, FS_UNION
<1> HIDE DEF part, parts
<1> QED
  BY <1>4, <1>5, FS_CardinalityType DEF WordsIn, Column

LEMMA ImportType ==
  ASSUME BaseInv,
         \/ Parse \/ AnalyzeWithLLM \/ InsertNovel \/ MakeRepo \/ WriteChapters \/ StageAll
         \/ InsertChapters \/ CloseImport
  PROVE  BaseInv'
<1>1. imp.at # "closed"
  BY DEF Parse, AnalyzeWithLLM, InsertNovel, MakeRepo, WriteChapters, StageAll,
     InsertChapters, CloseImport
<1>2. UNCHANGED hands
  BY DEF Parse, AnalyzeWithLLM, InsertNovel, MakeRepo, WriteChapters, StageAll,
     InsertChapters, CloseImport
<1>3. ToolOK' /\ EditorOK' /\ ListOK' /\ HandsWait'
  BY <1>1, <1>2, HandsStay
<1>4. TypeOK /\ NovelOK /\ ImpOK /\ ImportStages
  BY DEF BaseInv, TypeOK
<1>5. CASE Parse \/ AnalyzeWithLLM
  <2>1. UNCHANGED <<novel, record>> /\ imp.at = "rest"
    BY <1>5 DEF Parse, AnalyzeWithLLM
  <2>2. \/ \E f \in Seq(Line) : \E chapters :
             /\ WellParsed(f, chapters)
             /\ imp' = [at |-> "novel", source |-> "txt", of |-> f, chapters |-> chapters]
        \/ \E s \in Seq([read : BOOLEAN, lines : Texts]) :
             imp' = [at |-> "novel", source |-> "epub", of |-> s, chapters |-> ParseEpub(s).chapters]
    <3>1. CASE Parse
      <4>1. ASSUME NEW f \in Files, ParseTxt(f).ok,
                   imp' = [at |-> "novel", source |-> "txt", of |-> f, chapters |-> ParseTxt(f).chapters]
            PROVE  \E g \in Seq(Line) : \E chapters :
                     /\ WellParsed(g, chapters)
                     /\ imp' = [at |-> "novel", source |-> "txt", of |-> g, chapters |-> chapters]
        <5>1. f \in Seq(Line)
          BY ManuscriptConstants
        <5>2. WellParsed(f, ParseTxt(f).chapters)
          BY <4>1, <5>1, ParsedTxt
        <5> QED
          BY <4>1, <5>1, <5>2
      <4>2. \A s \in Spines : s \in Seq([read : BOOLEAN, lines : Texts])
        BY ManuscriptConstants DEF Texts
      <4> QED
        BY <3>1, <4>1, <4>2 DEF Parse
    <3>2. CASE AnalyzeWithLLM
      <4>1. PICK f \in Files : \E found \in SUBSET DOMAIN f :
              /\ ParseWithPattern(f, found).ok
              /\ imp' = [at |-> "novel", source |-> "txt", of |-> f,
                         chapters |-> ParseWithPattern(f, found).chapters]
        BY <3>2 DEF AnalyzeWithLLM
      <4>2. f \in Seq(Line)
        BY ManuscriptConstants
      <4>4. PICK found \in SUBSET DOMAIN f :
              /\ ParseWithPattern(f, found).ok
              /\ imp' = [at |-> "novel", source |-> "txt", of |-> f,
                         chapters |-> ParseWithPattern(f, found).chapters]
        BY <4>1
      <4>3. WellParsed(f, ParseWithPattern(f, found).chapters)
        BY <4>2, <4>4, ParsedWithPattern
      <4> QED
        BY <4>2, <4>3, <4>4
    <3> QED
      BY <1>5, <3>1, <3>2
  <2>3. imp'.at = "novel" /\ ImpOK'
    <3>1. ASSUME NEW f \in Seq(Line), NEW chapters, WellParsed(f, chapters),
                 imp' = [at |-> "novel", source |-> "txt", of |-> f, chapters |-> chapters]
          PROVE  imp'.at = "novel" /\ ImpOK'
      BY <3>1 DEF ImpOK, Importing, WellParsed
    <3>2. ASSUME NEW s \in Seq([read : BOOLEAN, lines : Texts]),
                 imp' = [at |-> "novel", source |-> "epub", of |-> s, chapters |-> ParseEpub(s).chapters]
          PROVE  imp'.at = "novel" /\ ImpOK'
      <4>1. /\ \A n \in DOMAIN ParseEpub(s).chapters : ParseEpub(s).chapters[n] \in Texts
            /\ Len(ParseEpub(s).chapters) + Cardinality(Skipped(s)) = Len(s)
        BY ParsedEpub
      <4> QED
        BY <3>2, <4>1 DEF ImpOK, Importing
    <3> QED
      BY <2>2, <3>1, <3>2
  <2>4. NovelOK'
    BY <1>4, <2>1 DEF NovelOK, novel, record
  <2>5. ImportStages'
    BY <1>4, <2>1, <2>3 DEF ImportStages, Nothing, novel, record
  <2> QED
    BY <1>3, <2>3, <2>4, <2>5 DEF BaseInv, TypeOK
<1>6. CASE InsertNovel
  <2>1. /\ imp.at = "novel" /\ UNCHANGED <<repo, file, row, record>>
        /\ \/ listed' = TRUE /\ imp' = [imp EXCEPT !.at = "repo"]
           \/ listed' = listed /\ imp' = [imp EXCEPT !.at = "failed"]
    BY <1>6 DEF InsertNovel
  <2>2. Importing
    BY <2>1 DEF Importing
  <2>3. ImpOK' /\ \/ listed' = TRUE /\ imp'.at = "repo"
                  \/ listed' = listed /\ imp'.at = "failed"
    BY <1>4, <2>1, <2>2, ImportGoesOn
  <2>4. NovelOK'
    BY <1>4, <2>1 DEF NovelOK, record
  <2>5. ImportStages'
    BY <1>4, <2>1, <2>3 DEF ImportStages, Nothing, record
  <2> QED
    BY <1>3, <2>3, <2>4, <2>5 DEF BaseInv, TypeOK
<1>7. CASE MakeRepo
  <2>1. imp.at = "repo" /\ Importing /\ row = NoRows /\ file = Empty /\ listed
    BY <1>4, <1>7 DEF MakeRepo, Importing, ImportStages, Nothing
  <2>2. CASE CleanupImport
    BY <1>7, <2>1, <2>2, CleanupKeeps DEF MakeRepo
  <2>3. CASE repo' = TRUE /\ imp' = [imp EXCEPT !.at = "files"] /\ UNCHANGED <<listed, file>>
    <3>1. imp'.at = "files" /\ ImpOK'
      BY <1>4, <2>1, <2>3, ImportGoesOn
    <3>2. NovelOK'
      BY <1>4, <1>7, <2>3 DEF NovelOK, MakeRepo, record
    <3>3. ImportStages'
      BY <1>4, <1>7, <2>1, <2>3, <3>1 DEF ImportStages, MakeRepo, record, Empty
    <3> QED
      BY <1>3, <3>1, <3>2, <3>3 DEF BaseInv, TypeOK
  <2> QED
    BY <1>7, <2>2, <2>3 DEF MakeRepo
<1>8. CASE WriteChapters
  <2>1. imp.at = "files" /\ Importing /\ row = NoRows /\ listed
    BY <1>4, <1>8 DEF WriteChapters, Importing, ImportStages
  <2>2. CASE CleanupImport
    BY <1>8, <2>1, <2>2, CleanupKeeps DEF WriteChapters
  <2>3. ASSUME NEW next \in DOMAIN imp.chapters, WriteFile(next, imp.chapters[next]),
               UNCHANGED <<listed, imp>>
        PROVE  BaseInv'
    <3>1. file' = [file EXCEPT ![next] = imp.chapters[next]] /\ repo' = TRUE
      BY <2>3 DEF WriteFile
    <3>2. imp.chapters[next] \in Texts
      BY <1>4, <2>1 DEF ImpOK
    <3>3. file' \in [Chapters -> Texts \cup {NoFile}]
      BY <1>4, <3>1, <3>2 DEF NovelOK
    <3>4. NovelOK'
      BY <1>4, <1>8, <2>3, <3>1, <3>3 DEF NovelOK, WriteChapters, record
    <3>5. ImpOK'
      BY <1>4, <2>3 DEF ImpOK, Importing
    <3>6. \A n \in Chapters : file'[n] = IF n = next THEN imp.chapters[n] ELSE file[n]
      BY <1>4, <3>1 DEF NovelOK
    <3>7. ImportStages'
      BY <1>4, <1>8, <2>1, <2>3, <3>1, <3>6 DEF ImportStages, WriteChapters, record
    <3> QED
      BY <1>3, <3>4, <3>5, <3>7 DEF BaseInv, TypeOK
  <2> QED
    BY <1>8, <2>2, <2>3 DEF WriteChapters
<1>9. CASE StageAll
  <2>1. imp.at = "files" /\ Importing /\ row = NoRows /\ listed
    BY <1>4, <1>9 DEF StageAll, Importing, ImportStages
  <2>2. CASE CleanupImport
    BY <1>9, <2>1, <2>2, CleanupKeeps DEF StageAll
  <2>3. CASE imp' = [imp EXCEPT !.at = "rows"] /\ UNCHANGED <<listed, repo, file>>
    <3>1. imp'.at = "rows" /\ imp'.chapters = imp.chapters /\ ImpOK'
      BY <1>4, <2>1, <2>3, ImportGoesOn
    <3>2. NovelOK'
      BY <1>4, <1>9, <2>3 DEF NovelOK, StageAll, record
    <3>3. ImportStages'
      BY <1>4, <1>9, <2>1, <2>3, <3>1 DEF ImportStages, StageAll, record
    <3> QED
      BY <1>3, <3>1, <3>2, <3>3 DEF BaseInv, TypeOK
  <2> QED
    BY <1>9, <2>2, <2>3 DEF StageAll
<1>10. CASE InsertChapters
  <2>1. imp.at = "rows" /\ Importing /\ row = NoRows /\ listed /\ repo
    BY <1>4, <1>10 DEF InsertChapters, Importing, ImportStages
  <2>2. CASE CleanupImport /\ UNCHANGED <<row, imported>>
    BY <1>10, <2>1, <2>2, CleanupKeeps DEF InsertChapters, record
  <2>3. CASE /\ row' = [n \in Chapters |->
                          IF n \in DOMAIN imp.chapters THEN Words(imp.chapters[n]) ELSE NoRow]
             /\ imported' = WordsIn(row')
             /\ imp' = [imp EXCEPT !.at = "done"]
             /\ UNCHANGED <<listed, repo, file>>
    <3>1. imp'.at = "done" /\ imp'.chapters = imp.chapters /\ ImpOK'
      BY <1>4, <2>1, <2>3, ImportGoesOn
    <3>2. \A n \in DOMAIN imp.chapters : Words(imp.chapters[n]) \in Nat
      BY <1>4, <2>1, WordsAreNat DEF ImpOK
    <3>3. row' \in [Chapters -> Nat \cup {NoRow}]
      BY <2>3, <3>2
    <3>4. imported' \in Nat
      BY <2>3, <3>3, ColumnFinite
    <3>5. NovelOK'
      BY <1>4, <1>10, <2>3, <3>3, <3>4 DEF NovelOK, InsertChapters
    <3>6. ImportStages'
      BY <1>4, <1>10, <2>1, <2>3, <3>1 DEF ImportStages, InsertChapters
    <3> QED
      BY <1>3, <3>1, <3>5, <3>6 DEF BaseInv, TypeOK
  <2> QED
    BY <1>10, <2>2, <2>3 DEF InsertChapters
<1>11. CASE CloseImport
  <2>1. imp'.at \in {"closed", "kept"} /\ UNCHANGED <<novel, logged, missed, imported>>
    BY <1>11 DEF CloseImport, Dismissed
  <2>4. uncounted' \subseteq Chapters
    BY <1>4, <1>11 DEF CloseImport, Rowless, NovelOK
  <2>2. NovelOK'
    BY <1>4, <2>1, <2>4 DEF NovelOK, novel
  <2>3. ImpOK' /\ ImportStages'
    BY <2>1 DEF ImpOK, Importing, ImportStages
  <2> QED
    BY <1>3, <2>2, <2>3 DEF BaseInv, TypeOK
<1> QED
  BY <1>5, <1>6, <1>7, <1>8, <1>9, <1>10, <1>11

LEMMA CreateType ==
  ASSUME BaseInv, CreateNovel
  PROVE  BaseInv'
<1>1. /\ imp.at = "rest" /\ imp'.at = "closed" /\ listed' \in BOOLEAN /\ repo' \in BOOLEAN
      /\ UNCHANGED <<file, row, hands, record>>
  BY DEF CreateNovel, BaseInv, TypeOK, NovelOK
<1>2. NovelOK'
  BY <1>1 DEF BaseInv, TypeOK, NovelOK, record
<1>3. ToolOK' /\ EditorOK' /\ ListOK' /\ HandsWait'
  BY <1>1, HandsStay
<1>4. ImpOK' /\ ImportStages'
  BY <1>1 DEF ImpOK, Importing, ImportStages
<1> QED
  BY <1>2, <1>3, <1>4 DEF BaseInv, TypeOK

LEMMA CrashType ==
  ASSUME BaseInv, Crash
  PROVE  BaseInv'
<1>1. /\ tool' = AtRest /\ editor' = AtRest /\ list' = AtRest
      /\ imp' = IF imp.at \in {"rest", "kept", "closed"} THEN imp ELSE Dismissed
      /\ UNCHANGED <<novel, logged, missed, imported>>
  BY DEF Crash
<1>2. (imp' = imp /\ imp.at \in {"rest", "kept", "closed"}) \/ imp'.at \in {"kept", "closed"}
  BY <1>1 DEF Dismissed
<1>3. uncounted' \subseteq Chapters
  BY DEF Crash, Rowless, BaseInv, TypeOK, NovelOK
<1>4. NovelOK'
  BY <1>1, <1>3 DEF BaseInv, TypeOK, NovelOK, novel
<1>5. ToolOK' /\ EditorOK' /\ ListOK' /\ HandsWait'
  BY <1>1 DEF ToolOK, EditorOK, ListOK, HandsWait
<1>6. ImpOK' /\ ImportStages'
  BY <1>1, <1>2 DEF BaseInv, ImpOK, Importing, ImportStages, Nothing, novel
<1> QED
  BY <1>4, <1>5, <1>6 DEF BaseInv, TypeOK

LEMMA RollBackType ==
  ASSUME BaseInv, RollBack
  PROVE  BaseInv'
<1>1. imp.at = "closed" /\ UNCHANGED <<listed, repo, logged, missed, imported, hands, imp>>
  BY DEF RollBack, Open
<1>2. TypeOK /\ NovelOK
  BY DEF BaseInv, TypeOK
<1>3. HandsWait' /\ ImportStages' /\ ImpOK'
  BY <1>1, ClosedStays
<1>4. ToolOK' /\ EditorOK' /\ ListOK'
  BY <1>1, <1>2 DEF TypeOK, ToolOK, EditorOK, ListOK, Writing, hands
<1>5. PICK n \in Written, text \in Contents \cup {NoFile} :
        /\ file' = [file EXCEPT ![n] = text]
        /\ row' \in {row, [row EXCEPT ![n] = NoRow]}
        /\ uncounted' = uncounted \cup {n}
  BY DEF RollBack
<1>6. n \in Chapters /\ text \in Texts \cup {NoFile}
  BY Basics
<1>7. /\ file' \in [Chapters -> Texts \cup {NoFile}]
      /\ row' \in [Chapters -> Nat \cup {NoRow}] /\ uncounted' \subseteq Chapters
  BY <1>2, <1>5, <1>6 DEF NovelOK
<1>8. NovelOK'
  BY <1>1, <1>2, <1>7 DEF NovelOK
<1> QED
  BY <1>3, <1>4, <1>8 DEF BaseInv, TypeOK

LEMMA BaseStep ==
  ASSUME BaseInv, [Next]_vars
  PROVE  BaseInv'
<1>1. CASE UNCHANGED vars
  <2>1. TypeOK'
    BY <1>1 DEF vars, BaseInv, TypeOK, NovelOK, ToolOK, EditorOK, ListOK, ImpOK, Importing, Writing
  <2>2. HandsWait' /\ ImportStages'
    BY <1>1 DEF vars, BaseInv, HandsWait, ImportStages, Nothing
  <2> QED
    BY <2>1, <2>2 DEF BaseInv
<1> QED
  BY <1>1, ListType, EditorType, ToolType, RollBackType, ImportType, CreateType, CrashType DEF Next

-----------------------------------------------------------------------------
(* The counts.                                                             *)

LEMMA NotBusy ==
  /\ \A n : ~ Busy(AtRest, n) /\ ~ Busy([at |-> "unlisted"], n)
  /\ \A n, m : Busy([at |-> "created", n |-> m], n) => m = n
  /\ \A n, m : Busy([at |-> "removed", n |-> m], n) => m = n
  /\ \A n, m, t : Busy([at |-> "written", n |-> m, text |-> t], n) => m = n
BY DEF Busy, AtRest

LEMMA ListCounts ==
  ASSUME BaseInv, Deleting, Counted,
         DeleteNovel \/ RemoveDirectory \/ CreateRow \/ CreateFile \/ DeleteFile \/ DeleteRow
  PROVE  Counted'
<1>1. TypeOK /\ NovelOK /\ UNCHANGED <<imp, tool, editor>>
  BY DEF BaseInv, TypeOK, DeleteNovel, RemoveDirectory, CreateRow, CreateFile, DeleteFile, DeleteRow
<1>2. CASE DeleteNovel
  BY <1>2 DEF DeleteNovel, Counted, Open
<1> SUFFICES ASSUME ~ DeleteNovel, Open', NEW n \in Chapters, n \notin uncounted'
             PROVE  InStep(n)'
  BY <1>2 DEF Counted
<1>3. uncounted \subseteq uncounted'
  BY DEF RemoveDirectory, CreateRow, CreateFile, DeleteFile, DeleteRow, Crossing, record
<1>4. Open /\ n \notin uncounted /\ InStep(n)
  BY <1>1, <1>3 DEF Counted, Open, RemoveDirectory, CreateRow, CreateFile, DeleteFile, DeleteRow
<1>5. CASE RemoveDirectory
  BY <1>4, <1>5 DEF RemoveDirectory, Deleting, Open
<1>6. CASE CreateRow
  <2> DEFINE k == LatestNumber + 1
  <2>1. /\ k \in Chapters /\ k \notin Rows /\ list = AtRest
        /\ row' = [row EXCEPT ![k] = 0] /\ list' = [at |-> "created", n |-> k]
        /\ Crossing(k, {tool, editor}) /\ UNCHANGED file
    BY <1>1, <1>6, NextNumber, Basics DEF CreateRow
  <2> HIDE DEF k
  <2>2. CASE n = k
    <3>1. \A h \in {tool, editor, list} : ~ Busy(h, n)
      BY <1>1, <2>1, <2>2, Crosses, NotBusy DEF NovelOK
    <3>2. file'[n] = NoFile /\ row'[n] = 0
      BY <1>1, <1>4, <2>1, <2>2, <3>1 DEF InStep, NovelOK
    <3>3. \A h \in {tool', editor'} : ~ Busy(h, n)
      BY <1>1, <3>1
    <3>4. Busy(list', n)
      BY <2>1, <2>2 DEF Busy
    <3> QED
      BY <3>2, <3>3, <3>4 DEF InStep
  <2>3. CASE n # k
    <3>1. row'[n] = row[n] /\ file'[n] = file[n]
      BY <1>1, <2>1, <2>3 DEF NovelOK
    <3>2. ~ Busy(list, n) /\ ~ Busy(list', n)
      BY <2>1, <2>3, NotBusy
    <3> QED
      BY <1>1, <1>4, <3>1, <3>2 DEF InStep, Rows
  <2> QED
    BY <2>2, <2>3
<1>7. CASE CreateFile
  <2>1. /\ list.at = "created" /\ list.n \in Chapters /\ list' = AtRest /\ UNCHANGED row
        /\ \/ WriteFile(list.n, << >>) /\ Crossing(list.n, {tool, editor})
           \/ UNCHANGED file
    BY <1>1, <1>7, HandTypes DEF CreateFile
  <2>2. ~ Busy(list', n)
    BY <2>1, NotBusy
  <2>3. CASE n = list.n
    <3>1. Busy(list, n)
      BY <2>1, <2>3 DEF Busy
    <3>2. file[n] = NoFile /\ row'[n] = 0 /\ \A h \in {tool', editor'} : ~ Busy(h, n)
      BY <1>1, <1>4, <2>1, <3>1 DEF InStep
    <3>3. CASE WriteFile(list.n, << >>)
      <4>1. file'[n] = << >>
        BY <1>1, <2>1, <2>3, <3>3, Writes, Basics
      <4>2. n \in Rows' /\ row'[n] = Words(file'[n])
        BY <3>2, <4>1 DEF Rows, NoRow, Words
      <4> QED
        BY <2>2, <3>2, <4>2 DEF InStep
    <3>4. CASE UNCHANGED file
      BY <2>2, <3>2, <3>4 DEF InStep
    <3> QED
      BY <2>1, <3>3, <3>4
  <2>4. CASE n # list.n
    <3>1. row'[n] = row[n] /\ file'[n] = file[n]
      BY <1>1, <2>1, <2>4, Writes, Basics
    <3>2. ~ Busy(list, n)
      BY <2>4 DEF Busy
    <3> QED
      BY <1>1, <1>4, <2>2, <3>1, <3>2 DEF InStep, Rows
  <2> QED
    BY <2>3, <2>4
<1>8. CASE DeleteFile
  <2>1. PICK k \in Rows : /\ file' = [file EXCEPT ![k] = NoFile]
                          /\ list' = [at |-> "removed", n |-> k]
                          /\ Crossing(k, {tool, editor})
    BY <1>8 DEF DeleteFile
  <2>2. k \in Chapters /\ list = AtRest /\ UNCHANGED row
    BY <1>8 DEF Rows, DeleteFile
  <2>3. CASE n = k
    <3>1. file'[n] = NoFile
      BY <1>1, <2>1, <2>3 DEF NovelOK
    <3>2. \A h \in {tool', editor'} : ~ Busy(h, n)
      BY <1>1, <2>1, <2>2, <2>3, Crosses DEF NovelOK
    <3>3. Busy(list', n) /\ list'.at = "removed"
      BY <2>1, <2>3 DEF Busy
    <3> QED
      BY <3>1, <3>2, <3>3 DEF InStep
  <2>4. CASE n # k
    <3>1. row'[n] = row[n] /\ file'[n] = file[n]
      BY <1>1, <2>1, <2>2, <2>4 DEF NovelOK
    <3>2. ~ Busy(list, n) /\ ~ Busy(list', n)
      BY <2>1, <2>2, <2>4, NotBusy
    <3> QED
      BY <1>1, <1>4, <3>1, <3>2 DEF InStep, Rows
  <2> QED
    BY <2>3, <2>4
<1>9. CASE DeleteRow
  <2>1. /\ list.at = "removed" /\ list.n \in Chapters /\ list' = AtRest /\ UNCHANGED file
        /\ row' = [row EXCEPT ![list.n] = NoRow] \/ UNCHANGED row
    BY <1>1, <1>9, HandTypes DEF DeleteRow
  <2>2. ~ Busy(list', n)
    BY <2>1, NotBusy
  <2>3. CASE n = list.n
    <3>1. Busy(list, n)
      BY <2>1, <2>3 DEF Busy
    <3>2. file'[n] = NoFile /\ \A h \in {tool', editor'} : ~ Busy(h, n)
      BY <1>1, <1>4, <2>1, <3>1 DEF InStep
    <3> QED
      BY <2>2, <3>2 DEF InStep
  <2>4. CASE n # list.n
    <3>1. row'[n] = row[n] /\ file'[n] = file[n]
      BY <1>1, <2>1, <2>4 DEF NovelOK
    <3>2. ~ Busy(list, n)
      BY <2>4 DEF Busy
    <3> QED
      BY <1>1, <1>4, <2>2, <3>1, <3>2 DEF InStep, Rows
  <2> QED
    BY <2>3, <2>4
<1> QED
  BY <1>5, <1>6, <1>7, <1>8, <1>9

\* The editor's and the tool's write, and their counting; other is the other of the two.
LEMMA WriteCounts ==
  ASSUME BaseInv, NEW n \in Chapters, NEW h, NEW other, NEW h2,
         {h, other} = {tool, editor}, {h2, other} = {tool', editor'},
         NEW t \in Texts, NEW m \in Chapters, ~ Busy(h, n),
         WriteFile(m, t), Crossing(m, {other, list}), h2 = [at |-> "written", n |-> m, text |-> t],
         UNCHANGED <<row, list>>, n \notin uncounted', InStep(n)
  PROVE  InStep(n)'
<1>1. TypeOK /\ NovelOK
  BY DEF BaseInv, TypeOK
<1>2. CASE n = m
  <2>1. ~ Busy(other, n) /\ ~ Busy(list', n)
    BY <1>1, <1>2, Crosses DEF NovelOK
  <2>2. file'[n] = t /\ Busy(h2, n) /\ h2.text = t
    BY <1>1, <1>2, Writes DEF Busy
  <2> QED
    BY <2>1, <2>2 DEF InStep
<1>3. CASE n # m
  <2>1. file'[n] = file[n] /\ row'[n] = row[n]
    BY <1>1, <1>3, Writes
  <2>2. ~ Busy(h2, n)
    BY <1>3, NotBusy
  <2> QED
    BY <2>1, <2>2 DEF InStep, Rows
<1> QED
  BY <1>2, <1>3

LEMMA CountingCounts ==
  ASSUME BaseInv, NEW n \in Chapters, NEW h, NEW other, NEW h2, Writing(h),
         {h, other} = {tool, editor}, {h2, other} = {tool', editor'},
         Counting(h, h2), UNCHANGED <<file, list>>, n \notin uncounted', InStep(n)
  PROVE  InStep(n)'
<1>1. TypeOK /\ NovelOK
  BY DEF BaseInv, TypeOK
<1>2. (Logs(h, h2) \/ Sets(h, h2)) /\ h.n \in Chapters /\ h.text \in Texts /\ Words(h.text) \in Nat
  BY <1>1, CountingSteps, WordsAreNat DEF Writing
<1>3. CASE Logs(h, h2)
  <2>1. row' = row /\ h2.text = h.text /\ (Busy(h2, n) <=> Busy(h, n))
    BY <1>3 DEF Logs, Busy
  <2> QED
    BY <2>1 DEF InStep, Rows
<1>4. CASE Sets(h, h2)
  <2>1. ~ Busy(h2, n)
    BY <1>4, NotBusy DEF Sets
  <2>2. CASE n = h.n
    <3>1. Busy(h, n)
      BY <1>4, <2>2 DEF Sets, Busy
    <3>2. n \in Rows /\ row'[n] = Words(h.text)
      BY <1>1, <1>4, <2>2 DEF Sets, NovelOK
    <3>3. n \in Rows'
      BY <1>2, <3>2 DEF Rows, NoRow
    <3>4. file'[n] = h.text /\ ~ Busy(list', n)
      BY <3>1 DEF InStep
    <3> QED
      BY <2>1, <3>1, <3>2, <3>3, <3>4 DEF InStep
  <2>3. CASE n # h.n
    <3>1. row'[n] = row[n]
      BY <1>1, <1>2, <1>4, <2>3 DEF Sets, NovelOK
    <3>2. ~ Busy(h, n)
      BY <2>3 DEF Busy
    <3> QED
      BY <2>1, <3>1, <3>2 DEF InStep, Rows
  <2> QED
    BY <2>2, <2>3
<1> QED
  BY <1>2, <1>3, <1>4

LEMMA EditorCounts ==
  ASSUME BaseInv, Counted, Type \/ SaveContent \/ CountSaved
  PROVE  Counted'
<1>1. TypeOK /\ NovelOK /\ UNCHANGED <<listed, imp, tool, list>>
  BY DEF BaseInv, TypeOK, Type, SaveContent, CountSaved, novel
<1>2. uncounted \subseteq uncounted'
  BY <1>1, HandTypes, CountingSteps DEF Type, SaveContent, CountSaved, Counting, Crossing, record
<1> SUFFICES ASSUME Open', NEW n \in Chapters, n \notin uncounted'
             PROVE  InStep(n)'
  BY DEF Counted
<1>3. InStep(n)
  BY <1>1, <1>2 DEF Counted, Open
<1>4. CASE UNCHANGED <<file, row>> /\ ~ Busy(editor, n) /\ ~ Busy(editor', n)
  BY <1>1, <1>3, <1>4 DEF InStep, Rows
<1>5. CASE Type
  <2>1. ~ Busy(editor, n) /\ ~ Busy(editor', n)
    BY <1>5 DEF Type, Busy, AtRest
  <2> QED
    BY <1>4, <1>5, <2>1 DEF Type, novel
<1>6. CASE SaveContent
  <2>1. editor \in [at : {"typed"}, n : Chapters, text : Texts] /\ ~ Busy(editor, n)
    BY <1>1, <1>6, HandTypes DEF SaveContent, Busy
  <2>2. CASE /\ WriteFile(editor.n, editor.text) /\ Crossing(editor.n, {tool, list})
             /\ editor' = [editor EXCEPT !.at = "written"]
    <3>1. editor' = [at |-> "written", n |-> editor.n, text |-> editor.text]
      BY <2>1, <2>2
    <3>2. UNCHANGED row
      BY <1>6 DEF SaveContent
    <3> QED
      BY <1>1, <1>3, <2>1, <2>2, <3>1, <3>2, WriteCounts
  <2>3. CASE editor' = AtRest /\ UNCHANGED <<file, repo, uncounted>>
    BY <1>4, <1>6, <2>1, <2>3, NotBusy DEF SaveContent
  <2> QED
    BY <1>6, <2>2, <2>3 DEF SaveContent
<1>7. CASE CountSaved
  <2>1. Writing(editor)
    BY <1>1, <1>7, HandTypes DEF CountSaved, Counting
  <2>2. Counting(editor, editor') /\ UNCHANGED file
    BY <1>7 DEF CountSaved
  <2> QED
    BY <1>1, <1>3, <2>1, <2>2, CountingCounts
<1> QED
  BY <1>5, <1>6, <1>7

LEMMA ToolCounts ==
  ASSUME BaseInv, Counted,
         Propose \/ Reject \/ KeepRow \/ WriteChapter \/ WriteOutline \/ CountEdited
  PROVE  Counted'
<1>1. TypeOK /\ NovelOK /\ UNCHANGED <<listed, imp, editor, list>>
  BY DEF BaseInv, TypeOK, Propose, Reject, KeepRow, WriteChapter, WriteOutline, CountEdited, novel
<1>2. uncounted \subseteq uncounted'
  BY <1>1, HandTypes, CountingSteps DEF Propose, Reject, KeepRow, WriteChapter, WriteOutline,
     CountEdited, Counting, Crossing, record
<1> SUFFICES ASSUME Open', NEW n \in Chapters, n \notin uncounted'
             PROVE  InStep(n)'
  BY DEF Counted
<1>3. InStep(n)
  BY <1>1, <1>2 DEF Counted, Open
<1>4. CASE UNCHANGED <<file, row>> /\ ~ Busy(tool, n) /\ ~ Busy(tool', n)
  BY <1>1, <1>3, <1>4 DEF InStep, Rows
<1>5. CASE Propose \/ Reject \/ WriteOutline
  <2>1. ~ Busy(tool, n)
    BY <1>5 DEF Propose, Reject, WriteOutline, Busy, AtRest
  <2>2. ~ Busy(tool', n)
    BY <1>5 DEF Propose, Reject, WriteOutline, Busy, AtRest
  <2> QED
    BY <1>4, <1>5, <2>1, <2>2 DEF Propose, Reject, WriteOutline, novel
<1>6. CASE KeepRow
  <2>1. tool.at = "waiting" /\ ~ Busy(tool, n) /\ UNCHANGED file
    BY <1>6 DEF KeepRow, Busy
  <2>2. tool'.at = "checked" /\ ~ Busy(tool', n)
    <3>1. tool' = [tool EXCEPT !.at = "checked"] /\ tool'.at = "checked"
      BY <1>1, <1>6, HandTypes DEF KeepRow
    <3> QED
      BY <3>1 DEF Busy
  <2>3. CASE row'[n] = row[n]
    BY <1>1, <1>3, <2>1, <2>2, <2>3 DEF InStep, Rows
  <2>4. CASE row'[n] = 0 /\ n \notin Rows
    <3>1. n \in Rows'
      BY <2>4 DEF Rows, NoRow
    <3>2. (\A h \in {tool', editor', list'} : ~ Busy(h, n)) => file'[n] = NoFile
      BY <1>1, <1>3, <2>1, <2>4 DEF InStep
    <3> QED
      BY <1>1, <1>3, <2>1, <2>2, <2>4, <3>2 DEF InStep
  <2>5. row'[n] = row[n] \/ (row'[n] = 0 /\ n \notin Rows)
    BY <1>1, <1>6 DEF KeepRow, NovelOK
  <2> QED
    BY <2>3, <2>4, <2>5
<1>7. CASE WriteChapter
  <2>1. tool.n \in Chapters /\ tool.text \in Texts /\ ~ Busy(tool, n)
    BY <1>1, <1>7, HandTypes DEF WriteChapter, Busy
  <2>2. CASE /\ WriteFile(tool.n, tool.text) /\ Crossing(tool.n, {editor, list})
             /\ tool' = [at |-> "written", n |-> tool.n, text |-> tool.text]
    <3>1. UNCHANGED row
      BY <1>7 DEF WriteChapter
    <3> QED
      BY <1>1, <1>3, <2>1, <2>2, <3>1, WriteCounts
  <2>3. CASE tool' = AtRest /\ UNCHANGED <<file, repo, uncounted>>
    BY <1>4, <1>7, <2>1, <2>3, NotBusy DEF WriteChapter
  <2> QED
    BY <1>7, <2>2, <2>3 DEF WriteChapter
<1>8. CASE CountEdited
  <2>1. Writing(tool)
    BY <1>1, <1>8, HandTypes DEF CountEdited, Counting
  <2>2. Counting(tool, tool') /\ UNCHANGED file
    BY <1>8 DEF CountEdited
  <2> QED
    BY <1>1, <1>3, <2>1, <2>2, CountingCounts
<1> QED
  BY <1>5, <1>6, <1>7, <1>8

\* A novel that has just been opened: no hand is at work, and each file has its row.
LEMMA OpenedCounts ==
  ASSUME tool' = AtRest, editor' = AtRest, list' = AtRest,
         \A n \in Chapters \ uncounted' : file'[n] # NoFile => n \in Rows' /\ row'[n] = Words(file'[n])
  PROVE  Counted'
BY NotBusy DEF Counted, InStep

LEMMA ImportDone ==
  ASSUME BaseInv, imp.at \in {"rest", "novel", "repo", "done", "failed"}, NEW n \in Chapters,
         file[n] # NoFile
  PROVE  n \in Rows /\ row[n] = Words(file[n])
<1>1. CASE imp.at # "done"
  BY <1>1 DEF BaseInv, ImportStages, Nothing, Empty
<1>2. CASE imp.at = "done"
  <2>1. /\ n \in DOMAIN imp.chapters /\ file[n] = imp.chapters[n] /\ row[n] = Words(imp.chapters[n])
        /\ imp.chapters[n] \in Texts
    BY <1>2 DEF BaseInv, TypeOK, ImpOK, Importing, ImportStages
  <2>2. row[n] \in Nat
    BY <2>1, WordsAreNat
  <2> QED
    BY <2>1, <2>2 DEF Rows, NoRow
<1> QED
  BY <1>1, <1>2

LEMMA ImportCounts ==
  ASSUME BaseInv,
         \/ CreateNovel \/ Parse \/ AnalyzeWithLLM \/ InsertNovel \/ MakeRepo \/ WriteChapters
         \/ StageAll \/ InsertChapters \/ CloseImport
  PROVE  Counted'
<1>1. imp.at # "closed"
  BY DEF CreateNovel, Parse, AnalyzeWithLLM, InsertNovel, MakeRepo, WriteChapters, StageAll,
     InsertChapters, CloseImport
<1>2. UNCHANGED hands
  BY DEF CreateNovel, Parse, AnalyzeWithLLM, InsertNovel, MakeRepo, WriteChapters, StageAll,
     InsertChapters, CloseImport
<1>3. tool' = AtRest /\ editor' = AtRest /\ list' = AtRest
  BY <1>1, <1>2 DEF BaseInv, HandsWait, hands
<1>4. CASE CreateNovel \/ CloseImport
  <2>1. /\ UNCHANGED <<file, row>> /\ imp.at \in {"rest", "done", "failed", "left"}
        /\ imp.at = "left" => uncounted' = uncounted \cup Rowless
    BY <1>4 DEF CreateNovel, CloseImport, novel
  <2>3. ASSUME imp.at # "left", NEW n \in Chapters, file'[n] # NoFile
        PROVE  n \in Rows' /\ row'[n] = Words(file'[n])
    BY <2>1, <2>3, ImportDone DEF Rows
  <2>4. ASSUME imp.at = "left", NEW n \in Chapters \ uncounted', file'[n] # NoFile
        PROVE  FALSE
    <3>1. Rows = {} /\ Rowless \subseteq uncounted'
      BY <2>1, <2>4 DEF BaseInv, ImportStages, Rows, NoRows
    <3> QED
      BY <2>1, <2>4, <3>1 DEF Rowless
  <2>2. \A n \in Chapters \ uncounted' :
          file'[n] # NoFile => n \in Rows' /\ row'[n] = Words(file'[n])
    BY <2>1, <2>3, <2>4
  <2> QED
    BY <1>3, <2>2, OpenedCounts
<1>5. CASE ~ (CreateNovel \/ CloseImport)
  <2>1. imp'.at # "closed"
    <3>1. CASE Parse \/ AnalyzeWithLLM
      <4>1. imp'.at = "novel"
        BY <3>1 DEF Parse, AnalyzeWithLLM
      <4> QED
        BY <4>1
    <3>2. CASE InsertNovel \/ MakeRepo \/ WriteChapters \/ StageAll \/ InsertChapters
      <4>1. Importing /\ ImpOK
        BY <3>2 DEF InsertNovel, MakeRepo, WriteChapters, StageAll, InsertChapters, Importing, BaseInv, TypeOK
      <4>2. \/ imp' = imp
            \/ \E next \in {"novel", "repo", "files", "rows", "done", "failed", "left"} :
                 imp' = [imp EXCEPT !.at = next]
        BY <3>2 DEF InsertNovel, MakeRepo, WriteChapters, StageAll, InsertChapters, CleanupImport
      <4> QED
        BY <1>1, <4>1, <4>2, ImportGoesOn
    <3> QED
      BY <1>5, <3>1, <3>2
  <2> QED
    BY <2>1 DEF Counted, Open
<1> QED
  BY <1>4, <1>5

LEMMA CrashCounts ==
  ASSUME BaseInv, Counted, Crash
  PROVE  Counted'
<1>1. /\ tool' = AtRest /\ editor' = AtRest /\ list' = AtRest
      /\ imp' = IF imp.at \in {"rest", "kept", "closed"} THEN imp ELSE Dismissed
      /\ UNCHANGED <<listed, file, row>>
      /\ uncounted' = uncounted \cup {n \in Chapters : \E h \in {tool, editor, list} : Busy(h, n)}
                              \cup IF imp.at = "closed" THEN {} ELSE Rowless
  BY DEF Crash, novel
<1>2. CASE imp.at = "closed"
  <2>1. ASSUME Open', NEW n \in Chapters \ uncounted', file'[n] # NoFile
        PROVE  n \in Rows' /\ row'[n] = Words(file'[n])
    <3>1. Open /\ n \in Chapters \ uncounted /\ \A h \in {tool, editor, list} : ~ Busy(h, n)
      BY <1>1, <1>2, <2>1 DEF Open
    <3> QED
      BY <1>1, <2>1, <3>1 DEF Counted, InStep, Rows
  <2> QED
    BY <1>1, <2>1, NotBusy DEF Counted, InStep
<1>3. CASE imp.at \in {"rest", "novel", "repo", "done", "failed"}
  <2>1. \A n \in Chapters : file'[n] # NoFile => n \in Rows' /\ row'[n] = Words(file'[n])
    BY <1>1, <1>3, ImportDone DEF Rows
  <2> QED
    BY <1>1, <2>1, OpenedCounts
<1>4. CASE imp.at \in {"files", "rows", "left"}
  <2>1. Rows = {} /\ Rowless \subseteq uncounted'
    BY <1>1, <1>4 DEF BaseInv, ImportStages, Rows, NoRows
  <2>2. \A n \in Chapters \ uncounted' : file'[n] = NoFile
    BY <1>1, <2>1 DEF Rowless
  <2> QED
    BY <1>1, <2>2, OpenedCounts
<1>5. CASE imp.at = "kept"
  BY <1>1, <1>5 DEF Counted, Open
<1> QED
  BY <1>2, <1>3, <1>4, <1>5 DEF BaseInv, TypeOK, ImpOK

LEMMA RollBackCounts ==
  ASSUME BaseInv, Counted, RollBack
  PROVE  Counted'
<1>1. NovelOK /\ Open /\ UNCHANGED <<listed, hands, imp>>
  BY DEF BaseInv, TypeOK, RollBack
<1>2. PICK k \in Written, text \in Contents \cup {NoFile} :
        /\ file' = [file EXCEPT ![k] = text]
        /\ row' \in {row, [row EXCEPT ![k] = NoRow]}
        /\ uncounted' = uncounted \cup {k}
  BY DEF RollBack
<1>3. ASSUME NEW n \in Chapters \ uncounted' PROVE InStep(n)'
  <2>1. n # k /\ InStep(n)
    BY <1>1, <1>2 DEF Counted
  <2>2. file'[n] = file[n] /\ row'[n] = row[n]
    BY <1>1, <1>2, <2>1 DEF NovelOK
  <2> QED
    BY <1>1, <2>1, <2>2 DEF InStep, Rows, hands
<1> QED
  BY <1>3 DEF Counted

LEMMA CountedStep ==
  ASSUME BaseInv, Deleting, Counted, [Next]_vars
  PROVE  Counted'
<1>1. CASE UNCHANGED vars
  BY <1>1 DEF vars, Counted, Open, InStep, Rows
<1> QED
  BY <1>1, ListCounts, EditorCounts, ToolCounts, RollBackCounts, ImportCounts, CrashCounts DEF Next

LEMMA DeletingStep ==
  ASSUME BaseInv, Deleting, [Next]_vars
  PROVE  Deleting'
<1>1. CASE list'.at # "unlisted"
  BY <1>1 DEF Deleting
<1>2. CASE DeleteNovel
  BY <1>2 DEF DeleteNovel, Deleting
<1>3. CASE UNCHANGED <<list, listed>>
  BY <1>3 DEF Deleting
<1>4. ASSUME imp.at # "closed", UNCHANGED hands PROVE Deleting'
  BY <1>4, Basics DEF BaseInv, HandsWait, hands, Deleting
<1>5. CASE RemoveDirectory \/ CreateRow \/ CreateFile \/ DeleteFile \/ DeleteRow \/ Crash
  <2>1. list'.at # "unlisted"
    BY <1>5 DEF RemoveDirectory, CreateRow, CreateFile, DeleteFile, DeleteRow, Crash, AtRest
  <2> QED
    BY <1>1, <2>1
<1>6. CASE Type \/ SaveContent \/ CountSaved
  BY <1>3, <1>6 DEF Type, SaveContent, CountSaved, novel
<1>7. CASE Propose \/ Reject \/ KeepRow \/ WriteChapter \/ WriteOutline \/ CountEdited
  BY <1>3, <1>7 DEF Propose, Reject, KeepRow, WriteChapter, WriteOutline, CountEdited, novel
<1>8. CASE CreateNovel \/ Parse \/ AnalyzeWithLLM \/ InsertNovel \/ MakeRepo
  BY <1>4, <1>8 DEF CreateNovel, Parse, AnalyzeWithLLM, InsertNovel, MakeRepo
<1>9. CASE WriteChapters \/ StageAll \/ InsertChapters \/ CloseImport
  BY <1>4, <1>9 DEF WriteChapters, StageAll, InsertChapters, CloseImport
<1>10. CASE UNCHANGED vars
  BY <1>3, <1>10 DEF vars
<1>11. CASE RollBack
  BY <1>3, <1>11 DEF RollBack, hands
<1> QED
  BY <1>2, <1>5, <1>6, <1>7, <1>8, <1>9, <1>10, <1>11 DEF Next

-----------------------------------------------------------------------------
(* The writing log.                                                        *)

LEMMA InColumn ==
  ASSUME NEW r, NEW n, NEW k
  PROVE  <<n, k>> \in Column(r) <=> n \in Chapters /\ k \in 1 .. r[n]
BY DEF Column

\* A column that is nowhere higher has no new words.
LEMMA ColumnShrinks ==
  ASSUME NEW r, NEW q, \A n \in Chapters : 1 .. q[n] \subseteq 1 .. r[n]
  PROVE  Column(q) \subseteq Column(r)
BY DEF Column

LEMMA LoggedFinite ==
  ASSUME NEW h, h.at = "logged" => h.text \in Texts
  PROVE  IsFiniteSet(Logged(h))
<1>1. CASE h.at = "logged"
  <2>1. Words(h.text) \in Int
    BY <1>1, WordsAreNat
  <2>2. IsFiniteSet(1 .. Words(h.text))
    BY <2>1, FS_Interval
  <2>3. IsFiniteSet({h.n})
    BY FS_Singleton
  <2> QED
    BY <1>1, <2>2, <2>3, FS_Product DEF Logged
<1>2. CASE h.at # "logged"
  BY <1>2, FS_EmptySet DEF Logged
<1> QED
  BY <1>1, <1>2

LEMMA CoveredFinite ==
  ASSUME TypeOK
  PROVE  IsFiniteSet(Covered) /\ Cardinality(Covered) \in Nat
<1>1. IsFiniteSet(Column(row))
  BY ColumnFinite DEF TypeOK, NovelOK
<1>2. IsFiniteSet(Logged(tool)) /\ IsFiniteSet(Logged(editor))
  BY HandTypes, LoggedFinite DEF Writing
<1>3. IsFiniteSet(Column(row) \cup Logged(tool))
  BY <1>1, <1>2, FS_Union
<1>4. IsFiniteSet(Covered)
  BY <1>2, <1>3, FS_Union DEF Covered
<1> QED
  BY <1>4, FS_CardinalityType

\* No new words, and nothing taken from the log.
LEMMA CoversStill ==
  ASSUME TypeOK, TypeOK', LogCovers, listed' => listed,
         Covered' \subseteq Covered, UNCHANGED <<logged, missed, imported>>
  PROVE  LogCovers'
<1>1. IsFiniteSet(Covered) /\ Cardinality(Covered) \in Nat
  BY CoveredFinite
<1>2. Cardinality(Covered') \in Nat /\ Cardinality(Covered') <= Cardinality(Covered)
  BY <1>1, FS_Subset, FS_CardinalityType
<1>3. Cardinality(Covered)' = Cardinality(Covered')
  OBVIOUS
<1>4. logged \in Nat /\ missed \in Nat /\ imported \in Nat
  BY DEF TypeOK, NovelOK
<1> QED
  BY <1>1, <1>2, <1>3, <1>4 DEF LogCovers

LEMMA ListCovers ==
  ASSUME BaseInv, BaseInv', LogCovers,
         DeleteNovel \/ RemoveDirectory \/ CreateRow \/ CreateFile \/ DeleteFile \/ DeleteRow
  PROVE  LogCovers'
<1>1. TypeOK /\ NovelOK /\ TypeOK' /\ UNCHANGED <<tool, editor>>
  BY DEF BaseInv, TypeOK, DeleteNovel, RemoveDirectory, CreateRow, CreateFile, DeleteFile, DeleteRow
<1>2. CASE DeleteNovel
  BY <1>2 DEF DeleteNovel, LogCovers
<1>3. ASSUME ~ DeleteNovel PROVE UNCHANGED <<listed, logged, missed, imported>>
  BY <1>3 DEF RemoveDirectory, CreateRow, CreateFile, DeleteFile, DeleteRow, record
<1>4. ASSUME ~ DeleteNovel PROVE Column(row') \subseteq Column(row)
  <2>1. CASE RemoveDirectory \/ CreateFile \/ DeleteFile
    BY <2>1 DEF RemoveDirectory, CreateFile, DeleteFile
  <2>2. CASE CreateRow
    <3> DEFINE k == LatestNumber + 1
    <3>1. k \notin Rows /\ k \in Chapters /\ row' = [row EXCEPT ![k] = 0]
      BY <1>1, <2>2, NextNumber, Basics DEF CreateRow
    <3> HIDE DEF k
    <3>2. \A n \in Chapters : 1 .. row'[n] \subseteq 1 .. row[n]
      BY <1>1, <3>1 DEF NovelOK
    <3> QED
      BY <3>2, ColumnShrinks
  <2>3. CASE DeleteRow
    <3>1. \A n \in Chapters : row'[n] \in {row[n], -1}
      BY <1>1, <2>3 DEF DeleteRow, NovelOK, NoRow
    <3>2. \A n \in Chapters : 1 .. row'[n] \subseteq 1 .. row[n]
      BY <3>1
    <3> QED
      BY <3>2, ColumnShrinks
  <2> QED
    BY <1>4, <2>1, <2>2, <2>3
<1>5. ASSUME ~ DeleteNovel PROVE Covered' \subseteq Covered
  BY <1>1, <1>4, <1>5 DEF Covered
<1> QED
  BY <1>1, <1>2, <1>3, <1>5, CoversStill

\* Counting logs what it will add to the column.
LEMMA LogsCover ==
  ASSUME BaseInv, BaseInv', LogCovers, NEW h, NEW h2, Writing(h), Logs(h, h2),
         UNCHANGED <<listed, imported>>, Covered' \subseteq Covered \cup Logged(h2)
  PROVE  LogCovers'
<1> DEFINE old == OldCount(h)
           w   == Words(h.text)
           more == {h.n} \X (old + 1 .. w)
<1>1. TypeOK /\ NovelOK
  BY DEF BaseInv, TypeOK
<1>2. h.n \in Chapters /\ w \in Nat /\ old \in Nat
  BY <1>1, Gains, WordsAreNat DEF Writing
<1>3. /\ h2.at = "logged" /\ h2.n = h.n /\ Words(h2.text) = w
      /\ logged' + missed' >= logged + missed + Gain(w - old)
  <2>1. \/ logged' = logged + Delta(h, old) /\ UNCHANGED missed
        \/ logged' = logged + Delta(h, 0) /\ UNCHANGED missed
        \/ missed' = missed + Delta(h, old) /\ UNCHANGED logged
    BY DEF Logs
  <2>2. /\ Delta(h, old) \in Nat /\ Delta(h, 0) \in Nat /\ Delta(h, old) <= Delta(h, 0)
        /\ Delta(h, old) = Gain(w - old) /\ logged \in Nat /\ missed \in Nat
    BY <1>1, <1>2, Gains DEF Delta, NovelOK
  <2>3. h2.at = "logged" /\ h2.n = h.n /\ Words(h2.text) = w
    BY DEF Logs
  <2> HIDE DEF old, w
  <2>4. logged' + missed' >= logged + missed + Gain(w - old)
    BY <2>1, <2>2
  <2> QED
    BY <2>3, <2>4
<1>4. Logged(h2) \subseteq Covered \cup more
  <2>1. Logged(h2) = {h.n} \X (1 .. w)
    BY <1>3 DEF Logged
  <2>2. {h.n} \X (1 .. old) \subseteq Column(row)
    <3>1. CASE h.n \in Rows
      BY <1>2, <3>1 DEF Column, OldCount
    <3>2. CASE h.n \notin Rows
      BY <3>2 DEF OldCount
    <3> QED
      BY <3>1, <3>2
  <2> HIDE DEF old, w
  <2>3. 1 .. w \subseteq (1 .. old) \cup (old + 1 .. w)
    BY <1>2
  <2> QED
    BY <2>1, <2>2, <2>3 DEF Covered
<1>5. IsFiniteSet(more) /\ Cardinality(more) = Gain(w - old)
  <2> HIDE DEF old, w
  <2>1. /\ IsFiniteSet(old + 1 .. w)
        /\ Cardinality(old + 1 .. w) = IF old + 1 > w THEN 0 ELSE w - (old + 1) + 1
    <3>1. old + 1 \in Int /\ w \in Int
      BY <1>2
    <3> QED
      BY <3>1, FS_Interval
  <2>2. IsFiniteSet({h.n}) /\ Cardinality({h.n}) = 1
    BY FS_Singleton
  <2>3. IsFiniteSet(more) /\ Cardinality(more) = 1 * Cardinality(old + 1 .. w)
    BY <2>1, <2>2, FS_Product
  <2>4. Cardinality(old + 1 .. w) = Gain(w - old)
    BY <1>2, <2>1 DEF Gain
  <2>5. Gain(w - old) \in Nat
    BY <1>2 DEF Gain
  <2> QED
    BY <2>3, <2>4, <2>5
<1> HIDE DEF old, w, more
<1>6. IsFiniteSet(Covered) /\ Cardinality(Covered) \in Nat
  BY <1>1, CoveredFinite
<1>7. Gain(w - old) \in Nat
  BY <1>2 DEF Gain
<1>8. IsFiniteSet(Covered \cup more)
      /\ Cardinality(Covered \cup more) <= Cardinality(Covered) + Gain(w - old)
  <2>1. IsFiniteSet(Covered \cup more)
        /\ Cardinality(Covered \cup more) =
             Cardinality(Covered) + Cardinality(more) - Cardinality(Covered \cap more)
    BY <1>5, <1>6, FS_Union
  <2>2. Cardinality(Covered \cap more) \in Nat
    BY <1>6, FS_Intersection, FS_CardinalityType
  <2> QED
    BY <1>5, <1>6, <1>7, <2>1, <2>2
<1>9. Covered' \subseteq Covered \cup more
  BY <1>4
<1>10. /\ Cardinality(Covered') \in Nat
       /\ Cardinality(Covered') <= Cardinality(Covered) + Gain(w - old)
  <2>1. IsFiniteSet(Covered') /\ Cardinality(Covered') <= Cardinality(Covered \cup more)
    BY <1>8, <1>9, FS_Subset
  <2>2. Cardinality(Covered') \in Nat /\ Cardinality(Covered \cup more) \in Nat
    BY <1>8, <2>1, FS_CardinalityType
  <2> QED
    BY <1>6, <1>7, <1>8, <2>1, <2>2
<1>11. Cardinality(Covered)' = Cardinality(Covered')
  OBVIOUS
<1>12. /\ logged \in Nat /\ missed \in Nat /\ imported \in Nat
       /\ logged' \in Nat /\ missed' \in Nat
  BY <1>1 DEF NovelOK, BaseInv, TypeOK
<1> QED
  BY <1>3, <1>6, <1>7, <1>10, <1>11, <1>12 DEF LogCovers

\* What the column is set to had been logged.
LEMMA SetsCover ==
  ASSUME BaseInv, NEW h, NEW h2, Writing(h), Sets(h, h2)
  PROVE  Column(row') \subseteq Column(row) \cup Logged(h)
<1>1. NovelOK /\ h.n \in Chapters
  BY DEF BaseInv, TypeOK, Writing
<1>2. Logged(h) = {h.n} \X (1 .. Words(h.text))
  BY DEF Sets, Logged
<1>3. CASE UNCHANGED row
  BY <1>3
<1>4. CASE h.n \in Rows /\ row' = [row EXCEPT ![h.n] = Words(h.text)]
  <2>1. \A n \in Chapters : row'[n] = IF n = h.n THEN Words(h.text) ELSE row[n]
    BY <1>1, <1>4 DEF NovelOK
  <2>2. \A n \in Chapters : {n} \X (1 .. row'[n]) \subseteq Column(row) \cup Logged(h)
    BY <1>2, <2>1 DEF Column
  <2> QED
    BY <2>2 DEF Column
<1> QED
  BY <1>3, <1>4 DEF Sets

LEMMA EditorCovers ==
  ASSUME BaseInv, BaseInv', LogCovers, Type \/ SaveContent \/ CountSaved
  PROVE  LogCovers'
<1>1. TypeOK /\ TypeOK' /\ UNCHANGED <<listed, imported, tool>>
  BY DEF BaseInv, Type, SaveContent, CountSaved, novel, record
<1>2. CASE Type \/ SaveContent
  <2>1. editor'.at # "logged"
    BY <1>1, <1>2, HandTypes, Basics DEF Type, SaveContent
  <2>2. Logged(editor') = {}
    BY <2>1 DEF Logged
  <2>3. UNCHANGED <<row, logged, missed>>
    BY <1>2 DEF Type, SaveContent, novel, record
  <2>4. Covered' \subseteq Covered
    BY <1>1, <2>2, <2>3 DEF Covered
  <2> QED
    BY <1>1, <2>3, <2>4, CoversStill
<1>3. CASE CountSaved
  <2>1. Writing(editor) /\ Counting(editor, editor')
    BY <1>1, <1>3, HandTypes DEF CountSaved, Counting
  <2>2. CASE Logs(editor, editor')
    <3>1. Covered' \subseteq Covered \cup Logged(editor')
      BY <1>1, <2>2 DEF Covered, Logs
    <3> QED
      BY <1>1, <2>1, <2>2, <3>1, LogsCover
  <2>3. CASE Sets(editor, editor')
    <3>1. Logged(editor') = {}
      BY <2>3, Basics DEF Sets, Logged
    <3>2. Column(row') \subseteq Column(row) \cup Logged(editor)
      BY <2>1, <2>3, SetsCover
    <3>3. Covered' \subseteq Covered
      BY <1>1, <3>1, <3>2 DEF Covered
    <3> QED
      BY <1>1, <2>3, <3>3, CoversStill DEF Sets
  <2> QED
    BY <1>1, <2>1, <2>2, <2>3, CountingSteps
<1> QED
  BY <1>2, <1>3

LEMMA ToolCovers ==
  ASSUME BaseInv, BaseInv', LogCovers,
         Propose \/ Reject \/ KeepRow \/ WriteChapter \/ WriteOutline \/ CountEdited
  PROVE  LogCovers'
<1>1. TypeOK /\ NovelOK /\ TypeOK' /\ UNCHANGED <<listed, imported, editor>>
  BY DEF BaseInv, TypeOK, Propose, Reject, KeepRow, WriteChapter, WriteOutline, CountEdited, novel, record
<1>2. CASE ~ CountEdited
  <2>1. tool'.at # "logged"
    <3>1. CASE KeepRow
      <4>1. tool'.at = "checked"
        BY <1>1, <3>1, HandTypes DEF KeepRow
      <4> QED
        BY <4>1
    <3>2. CASE Propose
      <4>1. tool'.at = "waiting"
        BY <3>2 DEF Propose
      <4> QED
        BY <4>1
    <3>3. CASE Reject \/ WriteChapter \/ WriteOutline
      BY <3>3, Basics DEF Reject, WriteChapter, WriteOutline
    <3> QED
      BY <1>2, <3>1, <3>2, <3>3
  <2>2. Logged(tool') = {}
    BY <2>1 DEF Logged
  <2>3. UNCHANGED <<logged, missed>>
    BY <1>2 DEF Propose, Reject, KeepRow, WriteChapter, WriteOutline, record
  <2>4. Column(row') \subseteq Column(row)
    <3>1. CASE KeepRow
      <4>1. \A n \in Chapters : row'[n] = row[n] \/ (row'[n] = 0 /\ n \notin Rows)
        BY <1>1, <3>1 DEF KeepRow, NovelOK
      <4>2. \A n \in Chapters : 1 .. row'[n] \subseteq 1 .. row[n]
        BY <4>1
      <4> QED
        BY <4>2, ColumnShrinks
    <3>2. CASE ~ KeepRow
      BY <1>2, <3>2 DEF Propose, Reject, WriteChapter, WriteOutline, novel
    <3> QED
      BY <3>1, <3>2
  <2>5. Covered' \subseteq Covered
    BY <1>1, <2>2, <2>4 DEF Covered
  <2> QED
    BY <1>1, <2>3, <2>5, CoversStill
<1>3. CASE CountEdited
  <2>1. Writing(tool) /\ Counting(tool, tool')
    BY <1>1, <1>3, HandTypes DEF CountEdited, Counting
  <2>2. CASE Logs(tool, tool')
    <3>1. Covered' \subseteq Covered \cup Logged(tool')
      BY <1>1, <2>2 DEF Covered, Logs
    <3> QED
      BY <1>1, <2>1, <2>2, <3>1, LogsCover
  <2>3. CASE Sets(tool, tool')
    <3>1. Logged(tool') = {}
      BY <2>3, Basics DEF Sets, Logged
    <3>2. Column(row') \subseteq Column(row) \cup Logged(tool)
      BY <2>1, <2>3, SetsCover
    <3>3. Covered' \subseteq Covered
      BY <1>1, <3>1, <3>2 DEF Covered
    <3> QED
      BY <1>1, <2>3, <3>3, CoversStill DEF Sets
  <2> QED
    BY <1>1, <2>1, <2>2, <2>3, CountingSteps
<1> QED
  BY <1>2, <1>3

\* Without a hand at work only the column counts.
LEMMA ColumnOnly ==
  ASSUME tool = AtRest, editor = AtRest
  PROVE  Covered = Column(row)
BY Basics DEF Covered, Logged

LEMMA NoColumn ==
  Column(NoRows) = {}
BY DEF Column, NoRows, NoRow

LEMMA ImportCovers ==
  ASSUME BaseInv, BaseInv', LogCovers,
         \/ CreateNovel \/ Parse \/ AnalyzeWithLLM \/ InsertNovel \/ MakeRepo \/ WriteChapters
         \/ StageAll \/ InsertChapters \/ CloseImport
  PROVE  LogCovers'
<1>1. imp.at # "closed"
  BY DEF CreateNovel, Parse, AnalyzeWithLLM, InsertNovel, MakeRepo, WriteChapters, StageAll,
     InsertChapters, CloseImport
<1>2. UNCHANGED <<logged, missed, hands>>
  BY DEF CreateNovel, Parse, AnalyzeWithLLM, InsertNovel, MakeRepo, WriteChapters, StageAll,
     InsertChapters, CloseImport, record
<1>3. /\ tool = AtRest /\ editor = AtRest /\ tool' = AtRest /\ editor' = AtRest
      /\ TypeOK /\ NovelOK /\ TypeOK' /\ NovelOK' /\ ImportStages
  BY <1>1, <1>2 DEF BaseInv, TypeOK, HandsWait, hands
<1>4. Covered' = Column(row')
  BY <1>3, Basics DEF Covered, Logged
<1>5. CASE row' = NoRows
  <2>1. Cardinality(Covered') = 0
    BY <1>4, <1>5, NoColumn, FS_EmptySet
  <2>2. \A l, m, i \in Nat : 0 <= l + m + i
    OBVIOUS
  <2>3. logged' \in Nat /\ missed' \in Nat /\ imported' \in Nat
    BY <1>3 DEF NovelOK
  <2>4. 0 <= logged' + missed' + imported'
    BY <2>2, <2>3
  <2> QED
    BY <2>1, <2>4 DEF LogCovers
<1>6. CASE row' # NoRows
  <2>1. CASE CloseImport
    <3>1. UNCHANGED <<listed, row, logged, missed, imported>>
      BY <2>1 DEF CloseImport, novel
    <3>2. Covered' \subseteq Covered
      BY <1>3, <1>4, <3>1, ColumnOnly
    <3> QED
      BY <1>3, <3>1, <3>2, CoversStill
  <2>2. CASE ~ CloseImport
    <3>1. CASE UNCHANGED row
      <4>1. row = NoRows
        BY <1>3, <2>2 DEF ImportStages, Nothing, CreateNovel, Parse, AnalyzeWithLLM, InsertNovel,
           MakeRepo, WriteChapters, StageAll, InsertChapters
      <4> QED
        BY <1>6, <3>1, <4>1
    <3>2. CASE ~ UNCHANGED row
      <4>1. InsertChapters /\ imported' = WordsIn(row') /\ logged = 0 /\ missed = 0
        BY <1>3, <2>2, <3>2 DEF ImportStages, CreateNovel, Parse, AnalyzeWithLLM, InsertNovel,
           MakeRepo, WriteChapters, StageAll, InsertChapters, novel
      <4>2. /\ imported' = Cardinality(Covered') /\ imported' \in Nat
            /\ logged' = 0 /\ missed' = 0
        BY <1>2, <1>3, <1>4, <4>1, ColumnFinite DEF NovelOK
      <4>3. Cardinality(Covered)' = Cardinality(Covered')
        OBVIOUS
      <4> QED
        BY <4>2, <4>3 DEF LogCovers
    <3> QED
      BY <3>1, <3>2
  <2> QED
    BY <2>1, <2>2
<1> QED
  BY <1>5, <1>6

LEMMA RollBackCovers ==
  ASSUME BaseInv, BaseInv', LogCovers, RollBack
  PROVE  LogCovers'
<1>1. TypeOK /\ NovelOK /\ TypeOK' /\ UNCHANGED <<listed, logged, missed, imported, tool, editor>>
  BY DEF BaseInv, TypeOK, RollBack, hands
<1>2. \A n \in Chapters : row'[n] \in {row[n], -1}
  BY <1>1 DEF RollBack, NovelOK, NoRow
<1>3. \A n \in Chapters : 1 .. row'[n] \subseteq 1 .. row[n]
  BY <1>2
<1>4. Column(row') \subseteq Column(row)
  BY <1>3, ColumnShrinks
<1>5. Covered' \subseteq Covered
  BY <1>1, <1>4 DEF Covered
<1> QED
  BY <1>1, <1>5, CoversStill

LEMMA LogCoversStep ==
  ASSUME BaseInv, BaseInv', LogCovers, [Next]_vars
  PROVE  LogCovers'
<1>1. TypeOK /\ TypeOK'
  BY DEF BaseInv
<1>2. CASE UNCHANGED vars
  <2>1. UNCHANGED <<listed, row, tool, editor, logged, missed, imported>>
    BY <1>2 DEF vars
  <2>2. Covered' \subseteq Covered
    BY <2>1 DEF Covered
  <2> QED
    BY <1>1, <2>1, <2>2, CoversStill
<1>3. CASE Crash
  <2>1. UNCHANGED <<listed, row, logged, missed, imported>> /\ tool' = AtRest /\ editor' = AtRest
    BY <1>3 DEF Crash, novel
  <2>2. Covered' \subseteq Covered
    BY <2>1, Basics DEF Covered, Logged
  <2> QED
    BY <1>1, <2>1, <2>2, CoversStill
<1> QED
  BY <1>2, <1>3, ListCovers, EditorCovers, ToolCovers, RollBackCovers, ImportCovers DEF Next

-----------------------------------------------------------------------------
(* The theorems.                                                           *)

LEMMA ManuscriptInit == Init => ManuscriptInv
<1> SUFFICES ASSUME Init PROVE ManuscriptInv
  OBVIOUS
<1>1. NovelOK
  BY Basics DEF Init, NovelOK
<1>2. ToolOK /\ EditorOK /\ ListOK /\ ImpOK
  BY Basics DEF Init, ToolOK, EditorOK, ListOK, ImpOK, Importing
<1>3. HandsWait /\ Deleting /\ ImportStages /\ Counted /\ LogCovers
  BY Basics DEF Init, HandsWait, Deleting, ImportStages, Nothing, Counted, Open, LogCovers
<1> QED
  BY <1>1, <1>2, <1>3 DEF ManuscriptInv, TypeOK

\* The types, how far an import is, that every hand at work has its text in the file and
\* without a hand the row counts the file, but where the count was missed, and that what
\* is logged, or failed to be, covers what will be in the column.
THEOREM ManuscriptInvariant == Spec => []ManuscriptInv
<1>1. Init => ManuscriptInv
  BY ManuscriptInit
<1>2. ManuscriptInv /\ [Next]_vars => ManuscriptInv'
  <2> SUFFICES ASSUME ManuscriptInv, [Next]_vars PROVE ManuscriptInv'
    OBVIOUS
  <2>1. BaseInv /\ Deleting /\ Counted /\ LogCovers
    BY DEF ManuscriptInv, BaseInv
  <2>2. BaseInv'
    BY <2>1, BaseStep
  <2>3. Deleting' /\ Counted' /\ LogCovers'
    BY <2>1, <2>2, DeletingStep, CountedStep, LogCoversStep
  <2> QED
    BY <2>2, <2>3 DEF ManuscriptInv, BaseInv
<1> QED
  BY <1>1, <1>2, PTL DEF Spec

\* The word count check, which reads the chapter's column, says what the text says but
\* where two hands crossed, the process ended, an update failed, a rollback put the file
\* back or an import broke off (src/internal/mcp_tools/novel_tools.go:84).
THEOREM CountCheckTrueHolds == Spec => []CountCheckTrue
<1>1. ManuscriptInv => CountCheckTrue
  <2> SUFFICES ASSUME ManuscriptInv, Open, NEW n \in Rows \ uncounted, file[n] # NoFile,
                      ~ \E h \in {tool, editor, list} : Busy(h, n)
               PROVE  WordCountOk(n) <=> Words(file[n]) \in MinWords .. MaxWords
    BY DEF CountCheckTrue
  <2>1. n \in Chapters \ uncounted
    BY DEF Rows
  <2>2. row[n] = Words(file[n])
    BY <2>1 DEF ManuscriptInv, Counted, InStep
  <2> QED
    BY <2>2 DEF WordCountOk
<1> QED
  BY <1>1, ManuscriptInvariant, PTL

\* The words the statistics add up from the log are never less than those the chapters
\* hold without the imported ones and those whose entry failed
\* (src/internal/writing/store.go:66).
THEOREM ProgressCoversHolds == Spec => []ProgressCovers
<1>1. ManuscriptInv => ProgressCovers
  <2> SUFFICES ASSUME ManuscriptInv, listed PROVE WordsIn(row) <= logged + missed + imported
    BY DEF ProgressCovers
  <2>1. TypeOK /\ NovelOK
    BY DEF ManuscriptInv, TypeOK
  <2>2. /\ WordsIn(row) = Cardinality(Column(row)) /\ WordsIn(row) \in Nat
        /\ IsFiniteSet(Covered) /\ Cardinality(Covered) \in Nat
    BY <2>1, ColumnFinite, CoveredFinite DEF NovelOK
  <2>3. Column(row) \subseteq Covered
    BY DEF Covered
  <2>4. Cardinality(Column(row)) <= Cardinality(Covered)
    BY <2>2, <2>3, FS_Subset
  <2> QED
    BY <2>1, <2>2, <2>4 DEF ManuscriptInv, LogCovers, NovelOK
<1> QED
  BY <1>1, ManuscriptInvariant, PTL

\* An import that is over has made the whole novel, with every line of the text from the
\* first heading on, or nothing; where its clean-up failed too, no chapter row and no
\* other text (src/internal/import/import.go:70, :181).
THEOREM ImportWholeHolds == Spec => []ImportWhole
<1>1. ManuscriptInv => ImportWhole
  <2> SUFFICES ASSUME ManuscriptInv PROVE ImportWhole
    OBVIOUS
  <2>1. ImportStages /\ ImpOK
    BY DEF ManuscriptInv, TypeOK
  <2>2. ASSUME imp.at = "done", NEW n \in Chapters
        PROVE  IF n \in DOMAIN imp.chapters
               THEN file[n] = imp.chapters[n] /\ row[n] = Words(file[n])
               ELSE file[n] = NoFile /\ row[n] = NoRow
    BY <2>1, <2>2 DEF ImportStages
  <2>3. imp.at = "done" => Importing
    BY DEF Importing
  <2> QED
    BY <2>1, <2>2, <2>3 DEF ImportWhole, ImportStages, Nothing, ImpOK
<1> QED
  BY <1>1, ManuscriptInvariant, PTL
=============================================================================
