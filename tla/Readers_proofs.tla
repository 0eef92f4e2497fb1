--------------------------- MODULE Readers_proofs ---------------------------
(***************************************************************************)
(* Two parts that read what the chapters and the tables hold and share     *)
(* nothing else.  First, what the run of the checks and windows shows on   *)
(* four chapters, proved for any number of chapters, people, items,        *)
(* threads, nodes and changes and for every window, lag and tolerance.     *)
(* Then what the pattern pipeline's run shows on three chapters, proved    *)
(* for every novel, every window and budget and every answer of the model: *)
(* no extraction writes over a summary that is there, and what the last    *)
(* call is given fits.  How chapters, summaries and blocks are cut into    *)
(* batches plays no part in either.                                        *)
(***************************************************************************)
EXTENDS Windows, Pattern, FiniteSetTheorems, SequenceTheorems, WellFoundedInduction, TLAPS

-----------------------------------------------------------------------------
(* The invariant: types, and what the rows have to do with each other.     *)

ChapterRow == [num : 1 .. MaxChapter,
               body : [people : SUBSET People, action : BOOLEAN, promised : BOOLEAN]]

RowsTyped ==
  /\ nextId \in Nat \ {0}
  /\ DOMAIN chapters \subseteq 1 .. nextId - 1
  /\ chapters \in [DOMAIN chapters -> ChapterRow]
  /\ DOMAIN files \subseteq Nat /\ files \in [DOMAIN files -> Seq(STRING)]

RecordsTyped ==
  /\ scenes \in Seq(Nat \X People) /\ uses \subseteq Nat \X Items
  /\ people \in [People -> [status : {"alive", "dead"}, changed : Nat]]
  /\ items \in [Items -> [status : {"active", "lost", "destroyed"}, changed : Nat]]
  /\ threads \in [Threads -> [status : {"pending", "resolved", "abandoned"}, chapter : Nat,
                              target : Nat]]
  /\ nodes \in [Nodes -> [status : {"pending", "completed", "abandoned"}, actual : Nat,
                          target : Nat]]
  /\ plan \in Plans
  /\ told \in [People -> Nat]

\* A number is one chapter's, though others may have had it before.
NumbersDiffer ==
  \A i, j \in DOMAIN chapters : chapters[i].num = chapters[j].num => i = j

\* The row that says when somebody died names a chapter there was, and as long as it is
\* there it has the number that was told: an id comes with its number and is not used
\* again.
DeathsTold ==
  \A p \in People :
    /\ people[p].changed < nextId
    /\ people[p].changed \in DOMAIN chapters => told[p] = chapters[people[p].changed].num

ChecksInv == RowsTyped /\ RecordsTyped /\ NumbersDiffer /\ DeathsTold

-----------------------------------------------------------------------------
(* The first and the last of some numbers.                                 *)

LEMMA Least ==
  ASSUME NEW S \in SUBSET Nat, S # {}
  PROVE  \E x \in S : \A y \in S : x <= y
<1>1. PICK x \in S : \A y \in S : <<y, x>> \notin OpToRel(<, Nat)
  BY NatLessThanWellFounded, WFMin
<1>2. ASSUME NEW y \in Nat, <<y, x>> \notin OpToRel(<, Nat), x \in Nat
      PROVE  x <= y
  BY <1>2 DEF OpToRel
<1> QED
  BY <1>1, <1>2

LEMMA MinOf ==
  ASSUME NEW S \in SUBSET Nat, S # {}
  PROVE  Min(S) \in S /\ \A x \in S : Min(S) <= x
BY Least DEF Min

\* Numbers that are bounded have a last one.
LEMMA MaxOf ==
  ASSUME NEW S \in SUBSET Nat, S # {}, NEW high \in Nat, \A x \in S : x <= high
  PROVE  Max(S) \in S /\ \A x \in S : x <= Max(S)
<1> DEFINE T == {n \in Nat : high - n \in S}
<1>1. \A x \in S : high - x \in T
  OBVIOUS
<1>2. PICK n \in T : \A k \in T : n <= k
  <2>1. T \in SUBSET Nat /\ T # {}
    BY <1>1
  <2> HIDE DEF T
  <2> QED
    BY <2>1, Least
<1>3. high - n \in S /\ n \in Nat
  BY <1>2
<1>4. ASSUME NEW x \in S PROVE high - n >= x
  <2>1. n <= high - x
    BY <1>1, <1>2
  <2> QED
    BY <1>3, <2>1
<1> HIDE DEF T
<1>5. \E m \in S : \A x \in S : m >= x
  BY <1>3, <1>4
<1>6. Max(S) \in S /\ \A x \in S : Max(S) >= x
  BY <1>5 DEF Max
<1> QED
  BY <1>6

-----------------------------------------------------------------------------
(* What the queries return.                                                *)

LEMMA Constants ==
  /\ Vanish \in Nat /\ Lookback \in Nat /\ MinGap \in Nat /\ MinGap > 0 /\ Tolerance \in Nat
  /\ DriftWindow \in Nat /\ DriftSample \in Nat /\ DriftActions \in Nat /\ Window \in Nat
  /\ Lag \in Nat /\ Lead \in Nat /\ Begun \in Nat /\ MaxChapter \in Nat /\ MaxChanges \in Nat
  /\ LedgerCap \in Nat /\ ScopeCap \in Nat /\ SceneCap \in Nat /\ Targets \subseteq Nat
  /\ Begun <= MaxChapter /\ Lookback <= DriftWindow /\ DriftSample <= DriftWindow
  /\ None = 0
BY ChecksConstants DEF None

LEMMA RowsAreIds ==
  /\ IsFiniteSet(Threads) /\ IsFiniteSet(Nodes)
  /\ Threads \subseteq Nat /\ Nodes \subseteq Nat
<1>1. Threads \in SUBSET (Threads \cup Nodes) /\ Nodes \in SUBSET (Threads \cup Nodes)
  OBVIOUS
<1> QED
  BY <1>1, FS_Subset, ChecksConstants

\* The number of an id is that of its row, 0 only if there is none.
LEMMA NumberFacts ==
  ASSUME ChecksInv
  PROVE  /\ \A id \in DOMAIN chapters :
              /\ NumberOf(id) = chapters[id].num /\ chapters[id].num \in 1 .. MaxChapter
              /\ chapters[id].body.people \subseteq People
              /\ chapters[id].body.action \in BOOLEAN
         /\ \A id : NumberOf(id) \in 0 .. MaxChapter
         /\ \A id : NumberOf(id) # 0 => id \in DOMAIN chapters
<1>1. \A id \in DOMAIN chapters : chapters[id] \in ChapterRow
  BY DEF ChecksInv, RowsTyped
<1>2. \A id \in DOMAIN chapters :
        /\ NumberOf(id) = chapters[id].num /\ chapters[id].num \in 1 .. MaxChapter
        /\ chapters[id].body.people \subseteq People
        /\ chapters[id].body.action \in BOOLEAN
  BY <1>1 DEF NumberOf, ChapterRow
<1>3. \A id : id \notin DOMAIN chapters => NumberOf(id) = 0
  BY DEF NumberOf
<1> QED
  BY <1>2, <1>3, Constants

LEMMA LastChapter ==
  ASSUME ChecksInv
  PROVE  /\ MaxChapterNumber \in 0 .. MaxChapter
         /\ \A id \in DOMAIN chapters : chapters[id].num <= MaxChapterNumber
<1> DEFINE S == Numbers \cup {0}
<1>1. S \subseteq 0 .. MaxChapter /\ S # {}
  BY NumberFacts, Constants DEF Numbers
<1>2. \A id \in DOMAIN chapters : chapters[id].num \in S
  BY DEF Numbers
<1> HIDE DEF S
<1>3. Max(S) \in S /\ \A x \in S : x <= Max(S)
  <2>1. S \in SUBSET Nat /\ \A x \in S : x <= MaxChapter
    BY <1>1
  <2> QED
    BY <1>1, <2>1, MaxOf, Constants
<1> QED
  BY <1>1, <1>2, <1>3 DEF MaxChapterNumber, S

-----------------------------------------------------------------------------
(* The invariant holds.                                                    *)

LEMMA ChecksInit == Init => ChecksInv
<1> SUFFICES ASSUME Init PROVE ChecksInv
  OBVIOUS
<1>1. RowsTyped
  <2>1. \A id \in 1 .. Begun : Row(id, Blank) \in ChapterRow
    BY Constants DEF Row, Blank, ChapterRow
  <2>2. DOMAIN files \subseteq Nat /\ files \in [DOMAIN files -> Seq(STRING)]
    BY Constants DEF Init
  <2> QED
    BY <2>1, <2>2, Constants DEF Init, RowsTyped
<1>2. RecordsTyped
  <2>1. scenes \in Seq(Nat \X People)
    BY EmptySeq DEF Init
  <2>2. /\ ThreadTargets \in [Threads -> Nat \ {0}] /\ NodeTargets \in [Nodes -> Nat \ {0}]
        /\ None \in Nat
    BY ChecksConstants DEF None
  <2>3. threads \in [Threads -> [status : {"pending", "resolved", "abandoned"}, chapter : Nat,
                                 target : Nat]]
    BY <2>2 DEF Init
  <2>4. nodes \in [Nodes -> [status : {"pending", "completed", "abandoned"}, actual : Nat,
                             target : Nat]]
    BY <2>2 DEF Init
  <2> QED
    BY <2>1, <2>2, <2>3, <2>4 DEF Init, RecordsTyped
<1>3. NumbersDiffer
  BY DEF Init, NumbersDiffer, Row
<1>4. DeathsTold
  BY Constants DEF Init, DeathsTold
<1> QED
  BY <1>1, <1>2, <1>3, <1>4 DEF ChecksInv

LEMMA CreateChapterStep ==
  ASSUME ChecksInv, CreateChapter
  PROVE  ChecksInv'
<1> DEFINE number == MaxChapterNumber + 1
<1>1. /\ number \in 1 .. MaxChapter
      /\ chapters' = [id \in DOMAIN chapters \cup {nextId} |->
                        IF id = nextId THEN Row(number, Blank) ELSE chapters[id]]
      /\ files' = [n \in DOMAIN files \cup {number} |-> IF n = number THEN << >> ELSE files[n]]
      /\ nextId' = nextId + 1
      /\ UNCHANGED <<records, told>>
  BY LastChapter, Constants DEF CreateChapter
<1>2. nextId \in Nat \ {0} /\ nextId \notin DOMAIN chapters
  BY DEF ChecksInv, RowsTyped
<1>3. /\ DOMAIN chapters' = DOMAIN chapters \cup {nextId}
      /\ chapters'[nextId] = Row(number, Blank)
      /\ \A id \in DOMAIN chapters : chapters'[id] = chapters[id]
      /\ chapters' = [id \in DOMAIN chapters' |-> chapters'[id]]
  BY <1>1, <1>2
<1>4. Row(number, Blank) \in ChapterRow
  BY <1>1 DEF Row, Blank, ChapterRow
<1>5. RowsTyped'
  <2>1. \A id \in DOMAIN chapters' : chapters'[id] \in ChapterRow
    BY <1>3, <1>4 DEF ChecksInv, RowsTyped
  <2>2. chapters' \in [DOMAIN chapters' -> ChapterRow]
    BY <1>3, <2>1
  <2>3. DOMAIN files' \subseteq Nat /\ files' \in [DOMAIN files' -> Seq(STRING)]
    <3>1. /\ DOMAIN files' = DOMAIN files \cup {number}
          /\ files' = [n \in DOMAIN files' |-> IF n = number THEN << >> ELSE files[n]]
      BY <1>1
    <3>2. << >> \in Seq(STRING) /\ number \in Nat
      BY <1>1
    <3> QED
      BY <3>1, <3>2 DEF ChecksInv, RowsTyped
  <2>4. DOMAIN chapters' \subseteq 1 .. nextId' - 1 /\ nextId' \in Nat \ {0}
    BY <1>1, <1>2, <1>3 DEF ChecksInv, RowsTyped
  <2> QED
    BY <2>2, <2>3, <2>4 DEF RowsTyped
<1>6. RecordsTyped'
  BY <1>1 DEF records, ChecksInv, RecordsTyped
<1>7. NumbersDiffer'
  <2>1. \A id \in DOMAIN chapters : chapters'[id].num # chapters'[nextId].num
    BY <1>3, LastChapter, NumberFacts, Constants DEF Row
  <2> QED
    BY <1>3, <2>1 DEF ChecksInv, NumbersDiffer
<1>8. DeathsTold'
  <2> SUFFICES ASSUME NEW p \in People
               PROVE  /\ people'[p].changed < nextId'
                      /\ people'[p].changed \in DOMAIN chapters'
                           => told'[p] = chapters'[people'[p].changed].num
    BY DEF DeathsTold
  <2>1. people' = people /\ told' = told /\ people[p].changed \in Nat
    BY <1>1 DEF records, ChecksInv, RecordsTyped
  <2> QED
    BY <1>1, <1>2, <1>3, <2>1 DEF ChecksInv, DeathsTold
<1> QED
  BY <1>5, <1>6, <1>7, <1>8 DEF ChecksInv

LEMMA DeleteChapterStep ==
  ASSUME ChecksInv, NEW id \in DOMAIN chapters, DeleteChapter(id)
  PROVE  ChecksInv'
<1>1. /\ DOMAIN chapters' = DOMAIN chapters \ {id}
      /\ \A k \in DOMAIN chapters \ {id} : chapters'[k] = chapters[k]
      /\ chapters' = [k \in DOMAIN chapters' |-> chapters[k]]
      /\ files' = [n \in DOMAIN files \ {NumberOf(id)} |-> files[n]]
      /\ UNCHANGED <<nextId, records, told>>
  BY DEF DeleteChapter
<1>2. RowsTyped'
  <2>1. DOMAIN files' \subseteq Nat /\ files' \in [DOMAIN files' -> Seq(STRING)]
    BY <1>1 DEF ChecksInv, RowsTyped
  <2> QED
    BY <1>1, <2>1 DEF ChecksInv, RowsTyped
<1>3. RecordsTyped'
  BY <1>1 DEF records, ChecksInv, RecordsTyped
<1>4. NumbersDiffer'
  BY <1>1 DEF ChecksInv, NumbersDiffer
<1>5. DeathsTold'
  BY <1>1 DEF records, ChecksInv, DeathsTold
<1> QED
  BY <1>2, <1>3, <1>4, <1>5 DEF ChecksInv

LEMMA UpdateChapterMetaStep ==
  ASSUME ChecksInv, NEW id \in DOMAIN chapters, UpdateChapterMeta(id)
  PROVE  ChecksInv'
<1>1. PICK body \in Bodies : chapters' = [chapters EXCEPT ![id].body = body]
  BY DEF UpdateChapterMeta
<1>2. UNCHANGED <<files, nextId, records, told>>
  BY DEF UpdateChapterMeta
<1>3. body \in [people : SUBSET People, action : BOOLEAN, promised : BOOLEAN]
  BY ChecksConstants
<1>4. \A k \in DOMAIN chapters : chapters[k] \in ChapterRow
  BY DEF ChecksInv, RowsTyped
<1>5. /\ DOMAIN chapters' = DOMAIN chapters
      /\ \A k \in DOMAIN chapters : chapters'[k].num = chapters[k].num /\ chapters'[k] \in ChapterRow
      /\ chapters' = [k \in DOMAIN chapters' |-> chapters'[k]]
  <2>1. chapters' = [k \in DOMAIN chapters |->
                       IF k = id THEN [chapters[id] EXCEPT !.body = body] ELSE chapters[k]]
    BY <1>1 DEF ChecksInv, RowsTyped
  <2>2. [chapters[id] EXCEPT !.body = body].num = chapters[id].num
        /\ [chapters[id] EXCEPT !.body = body] \in ChapterRow
    BY <1>3, <1>4 DEF ChapterRow
  <2> QED
    BY <1>4, <2>1, <2>2
<1>6. RowsTyped'
  BY <1>2, <1>5 DEF ChecksInv, RowsTyped
<1>7. RecordsTyped'
  BY <1>2 DEF records, ChecksInv, RecordsTyped
<1>8. NumbersDiffer'
  BY <1>5 DEF ChecksInv, NumbersDiffer
<1>9. DeathsTold'
  BY <1>2, <1>5 DEF records, ChecksInv, DeathsTold
<1> QED
  BY <1>6, <1>7, <1>8, <1>9 DEF ChecksInv

LEMMA SaveContentStep ==
  ASSUME ChecksInv, NEW id \in DOMAIN chapters, SaveContent(id)
  PROVE  ChecksInv'
<1>1. PICK lines \in Texts : files' = [files EXCEPT ![NumberOf(id)] = lines]
  BY DEF SaveContent
<1>2. UNCHANGED <<chapters, nextId, records, told>>
  BY DEF SaveContent
<1>3. lines \in Seq(STRING)
  BY ChecksConstants
<1>4. RowsTyped'
  BY <1>1, <1>2, <1>3 DEF ChecksInv, RowsTyped
<1> QED
  BY <1>2, <1>4 DEF records, ChecksInv, RecordsTyped, NumbersDiffer, DeathsTold

\* The records name ids of chapters there were.
LEMMA RecordStep ==
  ASSUME ChecksInv, UNCHANGED text, RecordsTyped',
         \A p \in People : \/ people'[p] = people[p] /\ told'[p] = told[p]
                           \/ /\ people'[p].changed \in DOMAIN chapters
                              /\ told'[p] = NumberOf(people'[p].changed)
  PROVE  ChecksInv'
<1>1. UNCHANGED <<chapters, files, nextId>>
  BY DEF text
<1>2. RowsTyped' /\ NumbersDiffer'
  BY <1>1 DEF ChecksInv, RowsTyped, NumbersDiffer
<1>3. \A id \in DOMAIN chapters : id < nextId
  BY DEF ChecksInv, RowsTyped
<1>4. DeathsTold'
  BY <1>1, <1>3 DEF ChecksInv, DeathsTold, NumberOf
<1> QED
  BY <1>2, <1>4 DEF ChecksInv

LEMMA ChapterIds ==
  ASSUME ChecksInv
  PROVE  \A id \in DOMAIN chapters : id \in Nat /\ id # None /\ NumberOf(id) \in Nat
<1>1. \A id \in DOMAIN chapters : id \in Nat /\ id # None
  BY Constants DEF ChecksInv, RowsTyped
<1> QED
  BY <1>1, NumberFacts

LEMMA ThreadRows ==
  ASSUME ChecksInv, NEW k \in Threads, UpdateTimelineEntry(k)
  PROVE  threads' \in [Threads -> [status : {"pending", "resolved", "abandoned"}, chapter : Nat,
                                   target : Nat]]
<1> DEFINE Rows == [status : {"pending", "resolved", "abandoned"}, chapter : Nat, target : Nat]
<1>1. threads \in [Threads -> Rows] /\ nextId \in Nat
  BY DEF ChecksInv, RowsTyped, RecordsTyped
<1>2. Moved(threads[k]) \subseteq Rows
  BY <1>1, Constants DEF Moved
<1>3. \A s \in {"pending", "resolved", "abandoned"} : [threads[k] EXCEPT !.status = s] \in Rows
  BY <1>1
<1>4. \A c \in DOMAIN chapters \cup {nextId} :
        [threads[k] EXCEPT !.status = "resolved", !.chapter = c] \in Rows
  BY <1>1, ChapterIds
<1>5. PICK row \in Moved(threads[k])
        \cup {[threads[k] EXCEPT !.status = s] : s \in {"pending", "resolved", "abandoned"}}
        \cup {[threads[k] EXCEPT !.status = "resolved", !.chapter = c] :
                c \in DOMAIN chapters \cup {nextId}} :
       threads' = [threads EXCEPT ![k] = row]
  BY DEF UpdateTimelineEntry
<1>6. row \in Rows
  BY <1>2, <1>3, <1>4
<1> HIDE DEF Rows
<1>7. threads' \in [Threads -> Rows]
  BY <1>1, <1>5, <1>6
<1> QED
  BY <1>7 DEF Rows

LEMMA NodeRows ==
  ASSUME ChecksInv, NEW n \in Nodes, UpdateArcNode(n)
  PROVE  nodes' \in [Nodes -> [status : {"pending", "completed", "abandoned"}, actual : Nat,
                               target : Nat]]
<1> DEFINE Rows == [status : {"pending", "completed", "abandoned"}, actual : Nat, target : Nat]
<1>1. nodes \in [Nodes -> Rows]
  BY DEF ChecksInv, RecordsTyped
<1>2. Moved(nodes[n]) \subseteq Rows
  BY <1>1, Constants DEF Moved
<1>3. \A s \in {"pending", "abandoned"} : [nodes[n] EXCEPT !.status = s] \in Rows
  BY <1>1
<1>4. \A number \in None .. MaxChapter + 1 :
        [nodes[n] EXCEPT !.status = "completed", !.actual = number] \in Rows
  <2>1. \A number \in None .. MaxChapter + 1 : number \in Nat
    BY Constants
  <2> QED
    BY <1>1, <2>1
<1>5. PICK row \in Moved(nodes[n])
        \cup {[nodes[n] EXCEPT !.status = s] : s \in {"pending", "abandoned"}}
        \cup {[nodes[n] EXCEPT !.status = "completed", !.actual = number] :
                number \in None .. MaxChapter + 1} :
       nodes' = [nodes EXCEPT ![n] = row]
  BY DEF UpdateArcNode
<1>6. row \in Rows
  BY <1>2, <1>3, <1>4
<1> HIDE DEF Rows
<1>7. nodes' \in [Nodes -> Rows]
  BY <1>1, <1>5, <1>6
<1> QED
  BY <1>7 DEF Rows

LEMMA ChecksStep == ChecksInv /\ [Next]_vars => ChecksInv'
<1> SUFFICES ASSUME ChecksInv, [Next]_vars PROVE ChecksInv'
  OBVIOUS
<1>1. CASE CreateChapter
  BY <1>1, CreateChapterStep
<1>2. ASSUME NEW id \in DOMAIN chapters,
             DeleteChapter(id) \/ UpdateChapterMeta(id) \/ SaveContent(id)
      PROVE  ChecksInv'
  BY <1>2, DeleteChapterStep, UpdateChapterMetaStep, SaveContentStep
<1>3. ASSUME NEW id \in DOMAIN chapters, NEW p \in People, CreateScene(id, p)
      PROVE  ChecksInv'
  <2>1. scenes' \in Seq(Nat \X People)
    <3>1. scenes \in Seq(Nat \X People) /\ <<id, p>> \in Nat \X People
      BY ChapterIds DEF ChecksInv, RecordsTyped
    <3> QED
      BY <1>3, <3>1, AppendProperties DEF CreateScene
  <2>2. RecordsTyped'
    BY <1>3, <2>1 DEF CreateScene, ChecksInv, RecordsTyped
  <2> QED
    BY <1>3, <2>2, RecordStep DEF CreateScene
<1>4. ASSUME NEW id \in DOMAIN chapters, NEW p \in People, UpdateCharacter(id, p)
      PROVE  ChecksInv'
  <2>1. RecordsTyped'
    BY <1>4, ChapterIds DEF UpdateCharacter, ChecksInv, RecordsTyped
  <2>2. \A q \in People : \/ people'[q] = people[q] /\ told'[q] = told[q]
                          \/ /\ people'[q].changed \in DOMAIN chapters
                             /\ told'[q] = NumberOf(people'[q].changed)
    BY <1>4 DEF UpdateCharacter, ChecksInv, RecordsTyped
  <2> QED
    BY <1>4, <2>1, <2>2, RecordStep DEF UpdateCharacter
<1>5. ASSUME NEW id \in DOMAIN chapters, NEW i \in Items, CreateItemOccurrence(id, i)
      PROVE  ChecksInv'
  <2>1. RecordsTyped'
    BY <1>5, ChapterIds DEF CreateItemOccurrence, ChecksInv, RecordsTyped
  <2> QED
    BY <1>5, <2>1, RecordStep DEF CreateItemOccurrence
<1>6. ASSUME NEW id \in DOMAIN chapters, NEW i \in Items, UpdateItem(id, i)
      PROVE  ChecksInv'
  <2>1. RecordsTyped'
    BY <1>6, ChapterIds, Constants DEF UpdateItem, ChecksInv, RecordsTyped
  <2> QED
    BY <1>6, <2>1, RecordStep DEF UpdateItem
<1>7. ASSUME NEW k \in Threads, UpdateTimelineEntry(k)
      PROVE  ChecksInv'
  <2>1. RecordsTyped'
    BY <1>7, ThreadRows DEF UpdateTimelineEntry, ChecksInv, RecordsTyped
  <2> QED
    BY <1>7, <2>1, RecordStep DEF UpdateTimelineEntry
<1>8. ASSUME NEW n \in Nodes, UpdateArcNode(n)
      PROVE  ChecksInv'
  <2>1. RecordsTyped'
    BY <1>8, NodeRows DEF UpdateArcNode, ChecksInv, RecordsTyped
  <2> QED
    BY <1>8, <2>1, RecordStep DEF UpdateArcNode
<1>9. CASE ChangePlan
  <2>1. RecordsTyped'
    BY <1>9 DEF ChangePlan, ChecksInv, RecordsTyped
  <2> QED
    BY <1>9, <2>1, RecordStep DEF ChangePlan
<1>10. CASE UNCHANGED vars
  BY <1>10 DEF vars, ChecksInv, RowsTyped, RecordsTyped, NumbersDiffer, DeathsTold
<1> QED
  BY <1>1, <1>2, <1>3, <1>4, <1>5, <1>6, <1>7, <1>8, <1>9, <1>10 DEF Next

\* The rows of a novel keep together whatever chapters are made and deleted.
THEOREM ChecksInvariant == Spec => []ChecksInv
<1> QED
  BY ChecksInit, ChecksStep, PTL DEF Spec

-----------------------------------------------------------------------------
(* What is reported is so, and what is so is reported.                     *)

LEMMA LossesTrue == ChecksInv => UsedAfterLoss
<1> SUFFICES ASSUME ChecksInv, NEW i \in ItemConflicts, NumberOf(items[i].changed) # 0
             PROVE  \E u \in uses : u[2] = i /\ NumberOf(u[1]) > NumberOf(items[i].changed)
  BY DEF UsedAfterLoss
<1> DEFINE lostIn == {items[k].changed : k \in {k \in Items : Gone(k)}} \ {None}
           known  == lostIn \cap DOMAIN chapters
           later  == {id \in DOMAIN chapters : \A k \in known : chapters[id].num > chapters[k].num}
<1>1. i \in Items /\ Gone(i) /\ \E u \in uses : u[1] \in later /\ u[2] = i
  BY DEF ItemConflicts
<1>2. PICK u \in uses : u[1] \in later /\ u[2] = i
  BY <1>1
<1>3. items[i].changed \in DOMAIN chapters /\ items[i].changed # None
  BY NumberFacts, ChapterIds
<1>4. items[i].changed \in known
  BY <1>1, <1>3
<1> QED
  BY <1>2, <1>3, <1>4, NumberFacts

\* The bound for all is one of the losses.
LEMMA LossesFound == ChecksInv => LossReported
<1> SUFFICES ASSUME ChecksInv, NEW u \in uses,
                    Gone(u[2]), NumberOf(items[u[2]].changed) # 0,
                    NumberOf(u[1]) > NumberOf(items[u[2]].changed),
                    u[2] \notin ItemConflicts
             PROVE  \E i \in Items \ {u[2]} :
                      Gone(i) /\ NumberOf(items[i].changed) >= NumberOf(u[1])
  BY DEF LossReported
<1> DEFINE lostIn == {items[k].changed : k \in {k \in Items : Gone(k)}} \ {None}
           known  == lostIn \cap DOMAIN chapters
           later  == {id \in DOMAIN chapters : \A k \in known : chapters[id].num > chapters[k].num}
<1>1. u[2] \in Items
  BY DEF ChecksInv, RecordsTyped
<1>2. items[u[2]].changed \in DOMAIN chapters /\ items[u[2]].changed # None
  BY NumberFacts, ChapterIds
<1>3. items[u[2]].changed \in known
  BY <1>1, <1>2
<1>4. NumberOf(u[1]) \in Nat /\ NumberOf(items[u[2]].changed) \in Nat
  BY NumberFacts, Constants
<1>5. u[1] \in DOMAIN chapters
  BY <1>4, NumberFacts, Constants
<1>6. u[1] \notin later
  <2>1. ItemConflicts = IF known = {} THEN {}
                        ELSE {i \in Items : Gone(i) /\ \E v \in uses : v[1] \in later /\ v[2] = i}
    BY DEF ItemConflicts
  <2> HIDE DEF later, known
  <2> QED
    BY <1>1, <1>3, <2>1
<1>7. PICK k \in known : ~ (chapters[u[1]].num > chapters[k].num)
  BY <1>5, <1>6
<1>8. PICK i \in Items : Gone(i) /\ items[i].changed = k
  BY <1>7
<1>9. NumberOf(items[i].changed) >= NumberOf(u[1])
  <2>1. k \in DOMAIN chapters /\ NumberOf(k) = chapters[k].num /\ NumberOf(u[1]) = chapters[u[1]].num
    BY <1>5, NumberFacts
  <2>2. NumberOf(k) \in Nat
    BY <2>1, NumberFacts, Constants
  <2> QED
    BY <1>4, <1>7, <1>8, <2>1, <2>2
<1>10. i # u[2]
  BY <1>4, <1>9
<1> QED
  BY <1>8, <1>9, <1>10

\* A death that counts is the one told.
LEMMA DeathIsTold ==
  ASSUME ChecksInv, NEW p \in Deaths
  PROVE  DeathOf(p) = told[p] /\ DeathOf(p) \in 1 .. MaxChapter
<1>1. p \in People /\ people[p].changed \in DOMAIN chapters
  BY NumberFacts DEF Deaths
<1> QED
  BY <1>1, NumberFacts DEF DeathOf, ChecksInv, DeathsTold

\* The numbers of the chapters in which somebody who is dead is named.
Sightings(current, p) ==
  {chapters[id].num : id \in {id \in Between(FirstDeath(current), current) :
                                /\ p \in chapters[id].body.people
                                /\ chapters[id].num > DeathOf(p)}}

LEMMA SightingFacts ==
  ASSUME ChecksInv, NEW current \in Nat, NEW p \in Deaths
  PROVE  /\ Sightings(current, p) \in SUBSET Nat
         /\ \A n \in Sightings(current, p) : \E id \in DOMAIN chapters :
              /\ p \in chapters[id].body.people
              /\ chapters[id].num = n /\ n \in DeathOf(p) + 1 .. current
         /\ FirstDeath(current) \in Nat /\ FirstDeath(current) <= DeathOf(p)
<1> DEFINE S == {DeathOf(q) : q \in Deaths} \cup {current}
<1>1. \A q \in Deaths : DeathOf(q) \in Nat
  BY DeathIsTold, Constants
<1>2. S \in SUBSET Nat /\ S # {} /\ DeathOf(p) \in S
  BY <1>1
<1> HIDE DEF S
<1>3. Min(S) \in S /\ Min(S) <= DeathOf(p)
  BY <1>2, MinOf
<1>4. FirstDeath(current) \in Nat /\ FirstDeath(current) <= DeathOf(p)
  BY <1>2, <1>3 DEF FirstDeath, S
<1>5. ASSUME NEW n \in Sightings(current, p)
      PROVE  \E id \in DOMAIN chapters : /\ p \in chapters[id].body.people
                                         /\ chapters[id].num = n /\ n \in DeathOf(p) + 1 .. current
  <2>1. PICK id \in Between(FirstDeath(current), current) :
          p \in chapters[id].body.people /\ chapters[id].num > DeathOf(p) /\ chapters[id].num = n
    BY DEF Sightings
  <2>2. id \in DOMAIN chapters /\ n \in FirstDeath(current) .. current
    BY <2>1 DEF Between
  <2> QED
    BY <1>1, <1>4, <2>1, <2>2
<1>6. Sightings(current, p) \subseteq Nat
  BY <1>1, <1>5
<1> QED
  BY <1>4, <1>5, <1>6

LEMMA DeadAppearedIs ==
  ASSUME NEW current
  PROVE  DeadAppeared(current) =
           {[person |-> p, death |-> DeathOf(p), seen |-> Min(Sightings(current, p))] :
              p \in {q \in Deaths : Sightings(current, q) # {}}}
BY DEF DeadAppeared, Sightings

LEMMA DeadTrue ==
  ASSUME ChecksInv, NEW current \in Nat
  PROVE  SeenDead(current)
<1> SUFFICES ASSUME NEW d \in DeadAppeared(current)
             PROVE  /\ told[d.person] = d.death
                    /\ \E id \in DOMAIN chapters :
                         /\ d.person \in chapters[id].body.people
                         /\ chapters[id].num = d.seen /\ d.seen \in d.death + 1 .. current
  BY DEF SeenDead
<1>1. PICK p \in Deaths :
        /\ Sightings(current, p) # {}
        /\ d = [person |-> p, death |-> DeathOf(p), seen |-> Min(Sightings(current, p))]
  BY DeadAppearedIs
<1>2. Min(Sightings(current, p)) \in Sightings(current, p)
  BY <1>1, SightingFacts, MinOf
<1> QED
  BY <1>1, <1>2, SightingFacts, DeathIsTold

LEMMA DeadFound ==
  ASSUME ChecksInv, NEW current \in Nat
  PROVE  DeathReported(current)
<1> SUFFICES ASSUME NEW p \in Deaths, NEW id \in Between(1, current),
                    p \in chapters[id].body.people, chapters[id].num > told[p]
             PROVE  \E d \in DeadAppeared(current) : d.person = p /\ d.seen <= chapters[id].num
  BY DEF DeathReported
<1>1. id \in DOMAIN chapters /\ chapters[id].num <= current /\ chapters[id].num \in Nat
  BY NumberFacts DEF Between
<1>2. chapters[id].num > DeathOf(p) /\ DeathOf(p) \in Nat
  BY DeathIsTold, Constants
<1>3. chapters[id].num \in FirstDeath(current) .. current
  BY <1>1, <1>2, SightingFacts
<1>4. chapters[id].num \in Sightings(current, p)
  BY <1>1, <1>2, <1>3 DEF Sightings, Between
<1>5. Min(Sightings(current, p)) <= chapters[id].num
  BY <1>4, SightingFacts, MinOf
<1> DEFINE d == [person |-> p, death |-> DeathOf(p), seen |-> Min(Sightings(current, p))]
<1>6. d \in DeadAppeared(current)
  BY <1>4, DeadAppearedIs
<1> QED
  BY <1>5, <1>6

\* The numbers of the chapters with a scene of p.
SceneNumbers(p) == {NumberOf(s[1]) : s \in {s \in ToSet(scenes) : s[2] = p}}

LEMMA LastSeenFacts ==
  ASSUME ChecksInv, NEW p
  PROVE  /\ SceneNumbers(p) \subseteq 0 .. MaxChapter
         /\ LastSeen(p) \in SceneNumbers(p) \cup {0}
         /\ \A n \in SceneNumbers(p) : n <= LastSeen(p)
<1> DEFINE S == SceneNumbers(p) \cup {0}
<1>1. SceneNumbers(p) \subseteq 0 .. MaxChapter
  BY NumberFacts DEF SceneNumbers
<1>2. S \in SUBSET Nat /\ S # {} /\ \A n \in S : n <= MaxChapter
  BY <1>1, Constants
<1> HIDE DEF S
<1>3. Max(S) \in S /\ \A n \in S : n <= Max(S)
  BY <1>2, MaxOf, Constants
<1>4. LastSeen(p) = Max(S)
  BY DEF LastSeen, S, SceneNumbers
<1> QED
  BY <1>1, <1>3, <1>4 DEF S

LEMMA AtLeastIs ==
  ASSUME NEW n \in Int
  PROVE  AtLeast(n, 1) \in Nat /\ AtLeast(n, 1) >= 1 /\ AtLeast(n, 1) >= n
         /\ (n >= 1 => AtLeast(n, 1) = n)
BY DEF AtLeast

\* Who has no scene from some chapter on.
LEMMA VanishedIs ==
  ASSUME ChecksInv, NEW current \in Nat, NEW p
  PROVE  p \in VanishedCharacters(current) <=>
           /\ p \in People
           /\ \A n \in SceneNumbers(p) : ~ (n >= AtLeast(current - Vanish, 1))
           /\ LastSeen(p) \in 1 .. current - Vanish
BY DEF VanishedCharacters, SceneNumbers

LEMMA AbsenceTrue ==
  ASSUME ChecksInv, NEW current \in Nat
  PROVE  AbsenceReported(current)
<1> SUFFICES ASSUME NEW p \in People
             PROVE  p \in VanishedCharacters(current) <=> LastSeen(p) \in 1 .. current - Vanish - 1
  BY DEF AbsenceReported
<1>1. /\ LastSeen(p) \in Nat /\ LastSeen(p) \in SceneNumbers(p) \cup {0}
      /\ \A n \in SceneNumbers(p) : n \in Nat /\ n <= LastSeen(p)
  BY LastSeenFacts, Constants
<1>2. current - Vanish \in Int
  BY Constants
<1>3. ASSUME p \in VanishedCharacters(current) PROVE LastSeen(p) \in 1 .. current - Vanish - 1
  BY <1>1, <1>2, <1>3, VanishedIs, AtLeastIs
<1>4. ASSUME LastSeen(p) \in 1 .. current - Vanish - 1 PROVE p \in VanishedCharacters(current)
  BY <1>1, <1>2, <1>4, VanishedIs, AtLeastIs
<1> QED
  BY <1>3, <1>4

-----------------------------------------------------------------------------
(* Paragraphs.                                                             *)

\* What is collected after a line, from what was before it.
Collect(cur, line) == IF line = BlankLine THEN << >> ELSE Append(cur, line)

\* cur holds what is collected after each of the lines up to n.
Collects(cur, lines, n) ==
  /\ DOMAIN cur = 0 .. n /\ cur = [i \in 0 .. n |-> cur[i]]
  /\ cur[0] = << >>
  /\ \A i \in 1 .. n : cur[i] = Collect(cur[i - 1], lines[i])

CanCollect(lines, n) == \E cur : Collects(cur, lines, n)

LEMMA CollectorExists ==
  ASSUME NEW lines \in Seq(STRING)
  PROVE  CanCollect(lines, Len(lines))
<1> DEFINE Bad == {n \in 0 .. Len(lines) : ~ CanCollect(lines, n)}
<1>0. Len(lines) \in 0 .. Len(lines) /\ Bad \in SUBSET Nat
  BY LenProperties
<1>1. SUFFICES ASSUME Bad # {} PROVE FALSE
  BY <1>0
<1>2. PICK n \in Bad : \A k \in Bad : n <= k
  <2> HIDE DEF Bad
  <2> QED
    BY <1>0, <1>1, Least
<1>3. n \in 0 .. Len(lines) /\ ~ CanCollect(lines, n)
  BY <1>2
<1>4. n # 0
  <2> DEFINE none == [i \in 0 .. 0 |-> << >>]
  <2>1. none[0] = << >> /\ DOMAIN none = 0 .. 0 /\ none = [i \in 0 .. 0 |-> none[i]]
    OBVIOUS
  <2> HIDE DEF none
  <2>2. Collects(none, lines, 0)
    BY <2>1 DEF Collects
  <2> QED
    BY <1>3, <2>2 DEF CanCollect
<1>5. n - 1 \in 0 .. Len(lines) /\ CanCollect(lines, n - 1)
  BY <1>0, <1>2, <1>3, <1>4
<1>6. PICK cur : Collects(cur, lines, n - 1)
  BY <1>5 DEF CanCollect
<1> DEFINE more == [i \in 0 .. n |-> IF i = n THEN Collect(cur[n - 1], lines[n]) ELSE cur[i]]
<1>7. /\ DOMAIN more = 0 .. n /\ more = [i \in 0 .. n |-> more[i]]
      /\ more[n] = Collect(cur[n - 1], lines[n])
      /\ \A i \in 0 .. n - 1 : more[i] = cur[i]
  BY <1>3, <1>4
<1> HIDE DEF more
<1>8. more[0] = << >>
  <2>1. 0 \in 0 .. n - 1 /\ cur[0] = << >>
    BY <1>0, <1>3, <1>4, <1>6 DEF Collects
  <2> QED
    BY <1>7, <2>1
<1>9. ASSUME NEW i \in 1 .. n PROVE more[i] = Collect(more[i - 1], lines[i])
  <2>1. CASE i = n
    BY <1>3, <1>4, <1>7, <2>1
  <2>2. CASE i # n
    <3>1. i \in 1 .. n - 1 /\ i - 1 \in 0 .. n - 1 /\ i \in 0 .. n - 1
      BY <1>3, <2>2
    <3> QED
      BY <1>6, <1>7, <3>1 DEF Collects
  <2> QED
    BY <2>1, <2>2
<1>10. Collects(more, lines, n)
  BY <1>7, <1>8, <1>9 DEF Collects
<1> QED
  BY <1>3, <1>10 DEF CanCollect

\* The collector is what its recursive definition says.
LEMMA CollectedIs ==
  ASSUME NEW lines \in Seq(STRING)
  PROVE  Collects(Collected(lines), lines, Len(lines))
<1> DEFINE Step(cur) == [i \in 0 .. Len(lines) |->
                           IF i = 0 THEN << >>
                           ELSE IF lines[i] = BlankLine THEN << >> ELSE Append(cur[i - 1], lines[i])]
<1>0. Len(lines) \in Nat
  BY LenProperties
<1>1. Collected(lines) = CHOOSE cur : cur = Step(cur)
  BY DEF Collected
<1>2. PICK cur : Collects(cur, lines, Len(lines))
  BY CollectorExists DEF CanCollect
<1>3. cur = Step(cur)
  <2>1. \A i \in 0 .. Len(lines) :
          cur[i] = IF i = 0 THEN << >>
                   ELSE IF lines[i] = BlankLine THEN << >> ELSE Append(cur[i - 1], lines[i])
    <3> TAKE i \in 0 .. Len(lines)
    <3>1. CASE i = 0
      BY <1>2, <3>1 DEF Collects
    <3>2. CASE i # 0
      <4>1. i \in 1 .. Len(lines)
        BY <1>0, <3>2
      <4> QED
        BY <1>2, <3>2, <4>1 DEF Collects, Collect
    <3> QED
      BY <3>1, <3>2
  <2>2. cur = [i \in 0 .. Len(lines) |-> cur[i]]
    BY <1>2 DEF Collects
  <2> QED
    BY <2>1, <2>2
<1>4. Collected(lines) = Step(Collected(lines))
  BY <1>1, <1>3
<1> DEFINE c == Collected(lines)
<1>5. /\ DOMAIN c = 0 .. Len(lines) /\ c = [i \in 0 .. Len(lines) |-> c[i]]
      /\ \A i \in 0 .. Len(lines) :
          c[i] = IF i = 0 THEN << >>
                 ELSE IF lines[i] = BlankLine THEN << >> ELSE Append(c[i - 1], lines[i])
  BY <1>4
<1> HIDE DEF c
<1>6. c[0] = << >>
  <2>1. 0 \in 0 .. Len(lines)
    BY <1>0
  <2> QED
    BY <1>5, <2>1, Zenon
<1>7. ASSUME NEW i \in 1 .. Len(lines) PROVE c[i] = Collect(c[i - 1], lines[i])
  <2>1. i \in 0 .. Len(lines) /\ i # 0
    BY <1>0
  <2> QED
    BY <1>5, <2>1 DEF Collect
<1>8. Collects(c, lines, Len(lines))
  BY <1>5, <1>6, <1>7 DEF Collects
<1> QED
  BY <1>8 DEF c

\* cur are the lines up to line i since the last blank one.
Since(cur, lines, i) ==
  /\ cur \in Seq(STRING) /\ Len(cur) <= i
  /\ \A k \in 1 .. Len(cur) : /\ cur[k] = lines[i - Len(cur) + k]
                              /\ lines[i - Len(cur) + k] # BlankLine
  /\ Len(cur) = i \/ lines[i - Len(cur)] = BlankLine

LEMMA NothingSince ==
  ASSUME NEW lines, NEW n \in Nat, n = 0 \/ lines[n] = BlankLine,
         NEW none \in Seq(STRING), Len(none) = 0
  PROVE  Since(none, lines, n)
<1>1. n - 0 = n /\ 0 <= n /\ \A k \in 1 .. 0 : FALSE
  OBVIOUS
<1>2. Len(none) = n \/ lines[n - Len(none)] = BlankLine
  BY <1>1
<1> QED
  BY <1>1, <1>2 DEF Since

LEMMA SinceStep ==
  ASSUME NEW lines \in Seq(STRING), NEW n \in 1 .. Len(lines), NEW cur, Since(cur, lines, n - 1)
  PROVE  Since(Collect(cur, lines[n]), lines, n)
<1>0. n \in Nat /\ n >= 1 /\ lines[n] \in STRING /\ cur \in Seq(STRING) /\ Len(cur) \in Nat
  <2>1. lines[n] \in STRING /\ Len(lines) \in Nat
    BY ElementOfSeq, LenProperties
  <2>2. cur \in Seq(STRING)
    BY DEF Since
  <2> QED
    BY <2>1, <2>2, LenProperties
<1>1. CASE lines[n] = BlankLine
  <2>1. Since(<< >>, lines, n)
    BY <1>0, <1>1, NothingSince, EmptySeq
  <2> QED
    BY <1>1, <2>1 DEF Collect
<1>2. CASE lines[n] # BlankLine
  <2> DEFINE more == Append(cur, lines[n])
             m == Len(cur)
  <2>1. /\ more \in Seq(STRING) /\ Len(more) = m + 1 /\ more[m + 1] = lines[n]
        /\ \A k \in 1 .. m : more[k] = cur[k]
    BY <1>0, AppendProperties
  <2>2. m <= n - 1 /\ m \in Nat
    BY <1>0 DEF Since
  <2> HIDE DEF more
  <2>3. ASSUME NEW k \in 1 .. Len(more)
        PROVE  more[k] = lines[n - Len(more) + k] /\ lines[n - Len(more) + k] # BlankLine
    <3>1. CASE k = m + 1
      <4>1. n - Len(more) + k = n
        BY <1>0, <2>1, <2>2, <3>1
      <4> QED
        BY <1>2, <2>1, <3>1, <4>1
    <3>2. CASE k # m + 1
      <4>1. k \in 1 .. m /\ n - Len(more) + k = (n - 1) - m + k
        BY <1>0, <2>1, <2>2, <3>2
      <4> QED
        BY <2>1, <4>1 DEF Since
    <3> QED
      BY <3>1, <3>2
  <2>4. Len(more) <= n /\ (Len(more) = n \/ lines[n - Len(more)] = BlankLine)
    <3>1. n - Len(more) = (n - 1) - m /\ (m = n - 1 => Len(more) = n) /\ Len(more) <= n
      BY <1>0, <2>1, <2>2
    <3>2. m = n - 1 \/ lines[(n - 1) - m] = BlankLine
      BY DEF Since
    <3> QED
      BY <3>1, <3>2
  <2> QED
    BY <1>2, <2>1, <2>3, <2>4 DEF Since, Collect, more
<1> QED
  BY <1>1, <1>2

LEMMA CollectedSince ==
  ASSUME NEW lines \in Seq(STRING)
  PROVE  \A i \in 0 .. Len(lines) : Since(Collected(lines)[i], lines, i)
<1> DEFINE cur == Collected(lines)
           Bad == {i \in 0 .. Len(lines) : ~ Since(cur[i], lines, i)}
<1>0. Len(lines) \in Nat /\ Collects(cur, lines, Len(lines)) /\ Bad \in SUBSET Nat
  BY CollectedIs, LenProperties
<1>1. SUFFICES ASSUME Bad # {} PROVE FALSE
  OBVIOUS
<1>2. PICK n \in Bad : \A k \in Bad : n <= k
  <2> HIDE DEF Bad
  <2> QED
    BY <1>0, <1>1, Least
<1>3. n \in 0 .. Len(lines) /\ ~ Since(cur[n], lines, n)
  BY <1>2
<1>4. Since(cur[0], lines, 0)
  <2>1. cur[0] = << >>
    BY <1>0 DEF Collects
  <2>2. Since(<< >>, lines, 0)
    BY NothingSince, EmptySeq
  <2> QED
    BY <2>1, <2>2
<1>5. n \in 1 .. Len(lines) /\ n - 1 \in 0 .. Len(lines)
  BY <1>0, <1>3, <1>4
<1>6. Since(cur[n - 1], lines, n - 1)
  BY <1>2, <1>5
<1>7. cur[n] = Collect(cur[n - 1], lines[n])
  BY <1>0, <1>5 DEF Collects
<1> HIDE DEF cur
<1> QED
  BY <1>3, <1>5, <1>6, <1>7, SinceStep

\* A paragraph is a block of lines between blank ones, and conversely.
LEMMA ParagraphIsBlock ==
  ASSUME NEW lines \in Seq(STRING), NEW j \in Paragraphs(lines)
  PROVE  \E i \in 1 .. j : Block(lines, i, j) /\ SubSeq(lines, i, j) = Collected(lines)[j]
<1> DEFINE c == Collected(lines)[j]
           m == Len(c)
           b == j - m + 1
<1>1. /\ j \in 1 .. Len(lines) /\ Len(lines) \in Nat
      /\ j = Len(lines) \/ lines[j + 1] = BlankLine
      /\ c # << >> /\ c # <<"-">> /\ c[1] # "#"
  BY LenProperties DEF Paragraphs
<1>2. Since(c, lines, j)
  BY <1>1, CollectedSince
<1>3. c \in Seq(STRING) /\ m \in Nat /\ m >= 1 /\ m <= j
  BY <1>1, <1>2, LenProperties, EmptySeq DEF Since
<1>4. b \in 1 .. j
  BY <1>1, <1>3
<1> HIDE DEF c
<1>5. ASSUME NEW k \in b .. j PROVE lines[k] # BlankLine
  <2>1. k - b + 1 \in 1 .. m /\ j - m + (k - b + 1) = k
    BY <1>1, <1>3, <1>4
  <2> QED
    BY <1>2, <2>1 DEF Since
<1>6. b = 1 \/ lines[b - 1] = BlankLine
  <2>1. b - 1 = j - m /\ (m = j => b = 1)
    BY <1>1, <1>3
  <2> QED
    BY <1>2, <2>1 DEF Since
<1>7. lines[b] = c[1]
  <2>1. 1 \in 1 .. m /\ j - m + 1 = b
    BY <1>3
  <2> QED
    BY <1>2, <2>1 DEF Since
<1>8. SubSeq(lines, b, j) = c
  <2>1. /\ SubSeq(lines, b, j) \in Seq(STRING) /\ Len(SubSeq(lines, b, j)) = m
        /\ \A k \in 1 .. m : SubSeq(lines, b, j)[k] = lines[b + k - 1]
    <3>1. j - b + 1 = m
      BY <1>1, <1>3
    <3> QED
      BY <1>1, <1>3, <1>4, <3>1, SubSeqProperties
  <2>2. \A k \in 1 .. m : b + k - 1 = j - m + k
    BY <1>1, <1>3
  <2>3. \A k \in 1 .. m : SubSeq(lines, b, j)[k] = c[k]
    BY <1>2, <2>1, <2>2 DEF Since
  <2> QED
    BY <1>3, <2>1, <2>3, SeqEqual
<1>9. Block(lines, b, j)
  <2>1. b <= j
    BY <1>1, <1>4
  <2>2. lines[b] # "#" /\ SubSeq(lines, b, j) # <<"-">>
    BY <1>1, <1>7, <1>8, Zenon
  <2> QED
    BY <1>1, <1>5, <1>6, <2>1, <2>2, Zenon DEF Block
<1> QED
  BY <1>4, <1>8, <1>9 DEF c

LEMMA BlockIsParagraph ==
  ASSUME NEW lines \in Seq(STRING), NEW i \in DOMAIN lines, NEW j \in DOMAIN lines,
         Block(lines, i, j)
  PROVE  j \in Paragraphs(lines) /\ Collected(lines)[j] = SubSeq(lines, i, j)
<1> DEFINE c == Collected(lines)[j]
           m == Len(c)
<1>1. /\ i \in 1 .. Len(lines) /\ j \in 1 .. Len(lines) /\ Len(lines) \in Nat /\ i <= j
      /\ j = Len(lines) \/ lines[j + 1] = BlankLine
      /\ i = 1 \/ lines[i - 1] = BlankLine
      /\ \A k \in i .. j : lines[k] # BlankLine
      /\ lines[i] # "#" /\ SubSeq(lines, i, j) # <<"-">>
  BY LenProperties DEF Block
<1>2. Since(c, lines, j)
  BY <1>1, CollectedSince
<1>3. c \in Seq(STRING) /\ m \in Nat /\ m <= j
  BY <1>2, LenProperties DEF Since
<1> HIDE DEF c
<1>4. m >= j - i + 1
  <2>1. m = j \/ lines[j - m] = BlankLine
    BY <1>2 DEF Since
  <2>2. ASSUME m < j - i + 1 PROVE FALSE
    <3>1. j - m \in i .. j /\ m # j
      BY <1>1, <1>3, <2>2
    <3> QED
      BY <1>1, <2>1, <3>1
  <2> QED
    BY <1>1, <1>3, <2>2
<1>5. m <= j - i + 1
  <2>1. SUFFICES ASSUME m > j - i + 1 PROVE FALSE
    BY <1>1, <1>3
  <2>2. i # 1 /\ m - (j - i + 1) \in 1 .. m /\ j - m + (m - (j - i + 1)) = i - 1
    <3>1. i \in Nat /\ j \in Nat /\ i <= j
      BY <1>1
    <3> QED
      BY <1>3, <2>1, <3>1
  <2>3. lines[i - 1] # BlankLine
    BY <1>2, <2>2 DEF Since
  <2> QED
    BY <1>1, <2>2, <2>3
<1>6. m = j - i + 1 /\ m >= 1
  BY <1>1, <1>3, <1>4, <1>5
<1>7. c = SubSeq(lines, i, j)
  <2>1. /\ SubSeq(lines, i, j) \in Seq(STRING) /\ Len(SubSeq(lines, i, j)) = m
        /\ \A k \in 1 .. m : SubSeq(lines, i, j)[k] = lines[i + k - 1]
    <3>1. i \in Int /\ j \in Int /\ \A k \in i .. j : lines[k] \in STRING
      <4>1. \A k \in 1 .. Len(lines) : lines[k] \in STRING
        BY ElementOfSeq
      <4> QED
        BY <1>1, <4>1
    <3>2. /\ SubSeq(lines, i, j) \in Seq(STRING)
          /\ Len(SubSeq(lines, i, j)) = IF i <= j THEN j - i + 1 ELSE 0
          /\ \A k \in 1 .. j - i + 1 : SubSeq(lines, i, j)[k] = lines[i + k - 1]
      BY <3>1, SubSeqProperties
    <3> QED
      BY <1>1, <1>6, <3>2
  <2>2. \A k \in 1 .. m : i + k - 1 = j - m + k
    BY <1>1, <1>6
  <2>3. \A k \in 1 .. m : SubSeq(lines, i, j)[k] = c[k]
    BY <1>2, <2>1, <2>2 DEF Since
  <2> QED
    BY <1>3, <2>1, <2>3, SeqEqual
<1>8. c[1] = lines[i]
  <2>1. 1 \in 1 .. m /\ j - m + 1 = i
    BY <1>1, <1>6
  <2> QED
    BY <1>2, <2>1 DEF Since
<1>9. c # << >>
  BY <1>3, <1>6, EmptySeq
<1> QED
  BY <1>1, <1>7, <1>8, <1>9 DEF Paragraphs, c

\* A paragraph ends before a later one begins.
LEMMA ParagraphsApart ==
  ASSUME NEW lines \in Seq(STRING), NEW j \in Paragraphs(lines), NEW l \in Paragraphs(lines),
         j < l, NEW k \in 1 .. l, Block(lines, k, l)
  PROVE  j < k
<1>1. j \in 1 .. Len(lines) /\ l \in 1 .. Len(lines) /\ Len(lines) \in Nat
  BY LenProperties DEF Paragraphs
<1>2. lines[j + 1] = BlankLine
  BY <1>1 DEF Paragraphs
<1>3. \A n \in k .. l : lines[n] # BlankLine
  BY DEF Block
<1>4. j + 1 \notin k .. l
  BY <1>2, <1>3
<1> QED
  BY <1>1, <1>4

LEMMA DuplicatesTrue ==
  ASSUME ChecksInv, NEW current
  PROVE  DuplicatesReported(current)
<1> SUFFICES ASSUME current \in DOMAIN files
             PROVE  DupParagraphs(current) # {} <=>
                      \E i, j, k, l \in DOMAIN files[current] :
                        /\ Block(files[current], i, j) /\ Block(files[current], k, l) /\ j < k
                        /\ SubSeq(files[current], i, j) = SubSeq(files[current], k, l)
  BY DEF DuplicatesReported
<1> DEFINE lines == files[current]
<1>1. lines \in Seq(STRING)
  BY DEF ChecksInv, RowsTyped
<1>2. DupParagraphs(current) = {i \in Paragraphs(lines) :
        \E j \in Paragraphs(lines) : j < i /\ Collected(lines)[j] = Collected(lines)[i]}
  BY DEF DupParagraphs
<1> HIDE DEF lines
<1>3. DOMAIN lines = 1 .. Len(lines) /\ Len(lines) \in Nat
  BY <1>1, LenProperties
<1>4. ASSUME NEW l \in Paragraphs(lines), NEW j \in Paragraphs(lines),
             j < l, Collected(lines)[j] = Collected(lines)[l]
      PROVE  \E i, k \in DOMAIN lines :
               /\ Block(lines, i, j) /\ Block(lines, k, l) /\ j < k
               /\ SubSeq(lines, i, j) = SubSeq(lines, k, l)
  <2>1. /\ j \in 1 .. Len(lines) /\ l \in 1 .. Len(lines)
        /\ j = Len(lines) \/ lines[j + 1] = BlankLine
    BY <1>3 DEF Paragraphs
  <2>2. PICK i \in 1 .. j : Block(lines, i, j) /\ SubSeq(lines, i, j) = Collected(lines)[j]
    BY <1>1, ParagraphIsBlock
  <2>3. PICK k \in 1 .. l : Block(lines, k, l) /\ SubSeq(lines, k, l) = Collected(lines)[l]
    BY <1>1, ParagraphIsBlock
  <2>4. j < k
    BY <1>1, <1>4, <2>3, ParagraphsApart
  <2>5. i \in DOMAIN lines /\ k \in DOMAIN lines
    <3>1. j \in 1 .. Len(lines) /\ l \in 1 .. Len(lines) /\ Len(lines) \in Nat
      BY <1>3, <2>1
    <3>2. i \in 1 .. Len(lines) /\ k \in 1 .. Len(lines)
      BY <3>1
    <3> QED
      BY <1>3, <3>2
  <2> QED
    BY <1>4, <2>2, <2>3, <2>4, <2>5
<1>5. ASSUME NEW i \in DOMAIN lines, NEW j \in DOMAIN lines, NEW k \in DOMAIN lines,
             NEW l \in DOMAIN lines, Block(lines, i, j), Block(lines, k, l), j < k,
             SubSeq(lines, i, j) = SubSeq(lines, k, l)
      PROVE  l \in DupParagraphs(current)
  <2>1. j < l
    BY <1>3, <1>5 DEF Block
  <2>2. j \in Paragraphs(lines) /\ Collected(lines)[j] = SubSeq(lines, i, j)
    BY <1>1, <1>5, BlockIsParagraph
  <2>3. l \in Paragraphs(lines) /\ Collected(lines)[l] = SubSeq(lines, k, l)
    BY <1>1, <1>5, BlockIsParagraph
  <2> QED
    BY <1>2, <1>5, <2>1, <2>2, <2>3
<1>6. ASSUME DupParagraphs(current) # {}
      PROVE  \E i, j, k, l \in DOMAIN lines :
               /\ Block(lines, i, j) /\ Block(lines, k, l) /\ j < k
               /\ SubSeq(lines, i, j) = SubSeq(lines, k, l)
  <2>1. PICK l \in Paragraphs(lines), j \in Paragraphs(lines) :
          j < l /\ Collected(lines)[j] = Collected(lines)[l]
    BY <1>2, <1>6
  <2>2. j \in DOMAIN lines /\ l \in DOMAIN lines
    BY DEF Paragraphs
  <2>3. PICK i \in DOMAIN lines, k \in DOMAIN lines :
          /\ Block(lines, i, j) /\ Block(lines, k, l) /\ j < k
          /\ SubSeq(lines, i, j) = SubSeq(lines, k, l)
    BY <1>4, <2>1
  <2> QED
    BY <2>2, <2>3
<1> QED
  BY <1>5, <1>6 DEF lines

\* What the report says of deaths, losses, absences and repeated paragraphs is so, and what
\* is so it says, but for a use of a lost item no later than another item's loss, after
\* any changes in any order (findDeadAppeared, findItemConflicts,
\* findVanishedCharacters, detectDupParagraphs).
THEOREM ContradictionsReportedHolds == Spec => []ContradictionsReported
<1>1. ChecksInv => ContradictionsReported
  <2> SUFFICES ASSUME ChecksInv PROVE ContradictionsReported
    OBVIOUS
  <2>1. \A current \in Currents : current \in Nat
    BY Constants DEF Currents
  <2> QED
    BY <2>1, LossesTrue, LossesFound, DeadTrue, DeadFound, AbsenceTrue, DuplicatesTrue
       DEF ContradictionsReported
<1> QED
  BY <1>1, ChecksInvariant, PTL

-----------------------------------------------------------------------------
(* Nothing slips between the checks.                                       *)

\* There are no more chapters than numbers.
LEMMA Numbered ==
  ASSUME ChecksInv, NEW S \in SUBSET DOMAIN chapters, NEW a \in Int, NEW b \in Int,
         \A id \in S : chapters[id].num \in a .. b
  PROVE  /\ IsFiniteSet(S) /\ Cardinality(S) \in Nat
         /\ Cardinality(S) <= (IF a > b THEN 0 ELSE b - a + 1)
<1> DEFINE f == [id \in S |-> chapters[id].num]
<1>1. f \in Injection(S, a .. b)
  <2>1. f \in [S -> a .. b]
    OBVIOUS
  <2>2. \A x, y \in S : f[x] = f[y] => x = y
    BY DEF ChecksInv, NumbersDiffer
  <2> QED
    BY <2>1, <2>2 DEF Injection, IsInjective
<1>2. IsFiniteSet(a .. b) /\ Cardinality(a .. b) = IF a > b THEN 0 ELSE b - a + 1
  BY FS_Interval
<1> HIDE DEF f
<1>3. IsFiniteSet(S) /\ Cardinality(S) <= Cardinality(a .. b)
  BY <1>1, <1>2, FS_Injection
<1> QED
  BY <1>2, <1>3, FS_CardinalityType

\* The chapters without action at the end of a window, and how many they are.
Trailing(ids) ==
  {id \in ids : \A a \in {a \in ids : chapters[a].body.action} : chapters[id].num > chapters[a].num}

LEMMA StreakFacts ==
  ASSUME ChecksInv, NEW low \in Nat, NEW current \in Nat
  PROVE  LET ids == Between(low, current) IN
         /\ Streak(ids) = Cardinality(Trailing(ids)) /\ Streak(ids) \in Nat
         /\ Trailing(ids) \subseteq ids /\ ids \subseteq DOMAIN chapters
         /\ \A id \in Trailing(ids) : ~ chapters[id].body.action
         /\ \A a \in ids : chapters[a].body.action => Streak(ids) <= current - chapters[a].num
         /\ Streak(ids) <= (IF low > current THEN 0 ELSE current - low + 1)
<1> DEFINE ids == Between(low, current)
<1>1. /\ ids \subseteq DOMAIN chapters
      /\ \A id \in ids : chapters[id].num \in low .. current /\ chapters[id].num \in Nat
  BY NumberFacts DEF Between
<1>2. Streak(ids) = Cardinality(Trailing(ids)) /\ Trailing(ids) \subseteq ids
  BY DEF Streak, Trailing
<1> HIDE DEF ids
<1>3. \A id \in Trailing(ids) : ~ chapters[id].body.action
  BY <1>1 DEF Trailing
<1>4. Streak(ids) \in Nat /\ Streak(ids) <= (IF low > current THEN 0 ELSE current - low + 1)
  BY <1>1, <1>2, Numbered
<1>5. ASSUME NEW a \in ids, chapters[a].body.action
      PROVE  Streak(ids) <= current - chapters[a].num
  <2>1. chapters[a].num \in Nat /\ chapters[a].num <= current
    BY <1>1
  <2>2. \A id \in Trailing(ids) : chapters[id].num > chapters[a].num
    BY <1>5 DEF Trailing
  <2>3. PICK next \in Int : next = chapters[a].num + 1
    BY <2>1
  <2>4. \A id \in Trailing(ids) : chapters[id].num \in next .. current
    BY <1>1, <1>2, <2>1, <2>2, <2>3
  <2>5. Trailing(ids) \in SUBSET DOMAIN chapters /\ current \in Int
    BY <1>1, <1>2
  <2>6. Cardinality(Trailing(ids)) <= (IF next > current THEN 0 ELSE current - next + 1)
    BY <2>3, <2>4, <2>5, Numbered
  <2>7. Cardinality(Trailing(ids)) <= current - chapters[a].num
    BY <1>2, <1>4, <2>1, <2>3, <2>6
  <2> QED
    BY <1>2, <2>7
<1> QED
  BY <1>1, <1>2, <1>3, <1>4, <1>5 DEF ids

\* The window of the pacing check, and what it finds there.
PacingLow(current) == AtLeast(current - Lookback + 1, 1)
Pause(current) == Streak(Between(PacingLow(current), current))

LEMMA DriftStreakIs ==
  ASSUME NEW current \in Nat
  PROVE  TypeDriftStreak(current + 1) = Pause(current)
<1>1. PICK before : before = current + 1
  OBVIOUS
<1>2. before - Lookback = current - Lookback + 1 /\ before - 1 = current
  BY <1>1, Constants
<1>3. TypeDriftStreak(before) = Pause(current)
  BY <1>2 DEF TypeDriftStreak, Pause, PacingLow
<1> QED
  BY <1>1, <1>3

LEMMA PacingFacts ==
  ASSUME ChecksInv, NEW current \in Nat
  PROVE  /\ PacingLow(current) \in Nat /\ PacingLow(current) >= 1
         /\ PacingLow(current) >= current - Lookback + 1
         /\ Pause(current) \in Nat
         /\ PacingGap(current) = IF Pause(current) >= MinGap
                                 THEN current - Pause(current) + 1 .. current ELSE {}
         /\ TypeDriftStreak(current + 1) = Pause(current)
<1>1. /\ PacingLow(current) \in Nat /\ PacingLow(current) >= 1
      /\ PacingLow(current) >= current - Lookback + 1
  BY AtLeastIs, Constants DEF PacingLow
<1>2. PacingGap(current) = IF Pause(current) >= MinGap
                           THEN current - Pause(current) + 1 .. current ELSE {}
  BY DEF PacingGap, Pause, PacingLow
<1>3. TypeDriftStreak(current + 1) = Pause(current)
  BY DriftStreakIs
<1>4. Pause(current) \in Nat
  BY <1>1, StreakFacts DEF Pause
<1> QED
  BY <1>1, <1>2, <1>3, <1>4

LEMMA GapIsReminded ==
  ASSUME ChecksInv, NEW current \in Nat
  PROVE  PacingGap(current) # {} <=> TypeDriftStreak(current + 1) >= MinGap
<1>1. ASSUME Pause(current) >= MinGap PROVE current \in PacingGap(current)
  <2>1. Pause(current) >= 1 /\ Pause(current) \in Nat
    BY <1>1, PacingFacts, Constants
  <2>2. current \in current - Pause(current) + 1 .. current
    BY <2>1
  <2> QED
    BY <1>1, <2>2, PacingFacts
<1> QED
  BY <1>1, PacingFacts

LEMMA GapIsIdle ==
  ASSUME ChecksInv, NEW current \in Nat, NEW id \in DOMAIN chapters,
         chapters[id].num \in PacingGap(current)
  PROVE  ~ chapters[id].body.action
<1> DEFINE low == PacingLow(current)
           idle == Pause(current)
           n == chapters[id].num
<1>1. /\ low \in Nat /\ idle \in Nat /\ n \in Nat /\ low >= 1
      /\ n >= current - idle + 1 /\ n <= current /\ idle >= MinGap
  <2>1. low \in Nat /\ idle \in Nat /\ low >= 1
    BY PacingFacts
  <2>2. n \in Nat
    BY NumberFacts
  <2>3. idle >= MinGap /\ n \in current - idle + 1 .. current
    BY PacingFacts
  <2> HIDE DEF low, idle, n
  <2> QED
    BY <2>1, <2>2, <2>3
<1>2. idle <= (IF low > current THEN 0 ELSE current - low + 1)
  BY PacingFacts, StreakFacts DEF Pause
<1>3. n \in low .. current
  BY <1>1, <1>2, Constants
<1>4. id \in Between(low, current)
  BY <1>3 DEF Between
<1>5. chapters[id].body.action => idle <= current - n
  BY <1>1, <1>4, StreakFacts DEF Pause
<1> QED
  BY <1>1, <1>5

LEMMA GapIsShort ==
  ASSUME ChecksInv, NEW current \in Nat, current >= DriftSample, ~ TypeDrift(current)
  PROVE  Cardinality(PacingGap(current)) <= DriftWindow - DriftActions
<1> DEFINE first  == AtLeast(current - DriftWindow + 1, 1)
           acting == {id \in Between(first, current) : chapters[id].body.action}
           idle   == Trailing(Between(PacingLow(current), current))
<1>1. /\ first \in Nat /\ first >= 1 /\ first >= current - DriftWindow + 1
      /\ (current - DriftWindow + 1 >= 1 => first = current - DriftWindow + 1)
  BY AtLeastIs, Constants
<1>2. first = 1 \/ first = current - DriftWindow + 1
  BY DEF AtLeast
<1>3. current - first + 1 >= DriftSample
  BY <1>1, <1>2, Constants
<1>4. ~ (Cardinality(acting) < DriftActions)
  BY <1>3 DEF TypeDrift
<1>5. PacingLow(current) >= first
  <2>1. /\ PacingLow(current) \in Nat /\ PacingLow(current) >= 1
        /\ PacingLow(current) >= current - Lookback + 1
    BY PacingFacts
  <2>2. current - Lookback + 1 >= current - DriftWindow + 1
    BY Constants
  <2> HIDE DEF first
  <2>3. CASE first = 1
    BY <2>1, <2>3
  <2>4. CASE first = current - DriftWindow + 1
    BY <2>1, <2>2, <2>4, Constants
  <2> QED
    BY <1>2, <2>3, <2>4
<1>6. /\ idle \subseteq Between(PacingLow(current), current)
      /\ \A id \in idle : ~ chapters[id].body.action
      /\ Pause(current) = Cardinality(idle)
  BY PacingFacts, StreakFacts DEF Pause
<1>7. /\ acting \in SUBSET DOMAIN chapters /\ idle \in SUBSET DOMAIN chapters
      /\ \A id \in acting \cup idle : chapters[id].num \in first .. current
  <2>1. /\ Between(PacingLow(current), current) \subseteq DOMAIN chapters
        /\ \A id \in Between(PacingLow(current), current) :
             chapters[id].num \in first .. current
    <3>1. /\ PacingLow(current) \in Nat
          /\ \A n \in PacingLow(current) .. current : n \in first .. current
      <4> HIDE DEF first
      <4> QED
        BY <1>1, <1>5, PacingFacts
    <3> QED
      BY <3>1 DEF Between
  <2>2. /\ acting \subseteq DOMAIN chapters
        /\ \A id \in acting : chapters[id].num \in first .. current
    BY DEF Between
  <2> QED
    BY <1>6, <2>1, <2>2
<1>8. acting \cap idle = {}
  BY <1>6
<1> HIDE DEF acting, idle, first
<1>9. /\ IsFiniteSet(acting) /\ Cardinality(acting) \in Nat
      /\ IsFiniteSet(idle) /\ Cardinality(idle) \in Nat
  <2>1. first \in Int /\ current \in Int
    BY <1>1
  <2>2. IsFiniteSet(acting) /\ Cardinality(acting) \in Nat
    BY <1>7, <2>1, Numbered
  <2>3. IsFiniteSet(idle) /\ Cardinality(idle) \in Nat
    BY <1>7, <2>1, Numbered
  <2> QED
    BY <2>2, <2>3
<1>10. Cardinality(acting \cup idle) <= (IF first > current THEN 0 ELSE current - first + 1)
  <2>1. acting \cup idle \in SUBSET DOMAIN chapters
    BY <1>7
  <2> QED
    BY <1>1, <1>7, <2>1, Numbered
<1>11. Cardinality(acting \cup idle) = Cardinality(acting) + Cardinality(idle)
  <2>1. Cardinality(acting \cup idle)
          = Cardinality(acting) + Cardinality(idle) - Cardinality(acting \cap idle)
    BY <1>9, FS_Union
  <2>2. Cardinality(acting \cap idle) = 0
    BY <1>8, FS_EmptySet
  <2> QED
    BY <1>9, <2>1, <2>2
<1>12. Cardinality(idle) <= DriftWindow - DriftActions
  BY <1>1, <1>4, <1>9, <1>10, <1>11, Constants
<1>13. CASE Pause(current) >= MinGap
  <2>1. PacingGap(current) = current - Pause(current) + 1 .. current
        /\ Pause(current) \in Nat /\ Pause(current) >= 1
    BY <1>13, PacingFacts, Constants
  <2>2. /\ current - Pause(current) + 1 \in Int /\ current \in Int
        /\ current - Pause(current) + 1 <= current
        /\ current - (current - Pause(current) + 1) + 1 = Pause(current)
    BY <2>1
  <2>3. Cardinality(PacingGap(current)) = Pause(current)
    BY <2>1, <2>2, FS_Interval
  <2> QED
    BY <1>6, <1>12, <2>3
<1>14. CASE ~ (Pause(current) >= MinGap)
  <2>1. PacingGap(current) = {}
    BY <1>14, PacingFacts
  <2>2. Cardinality(PacingGap(current)) = 0
    BY <2>1, FS_EmptySet
  <2> QED
    BY <1>9, <1>12, <2>2, Constants
<1> QED
  BY <1>13, <1>14

\* Rows no more than the list holds are all in it.
LEMMA FirstThreads ==
  ASSUME NEW rows, IsFiniteSet(rows), rows \subseteq Nat, NEW limit \in Nat,
         Cardinality(rows) <= limit
  PROVE  {x \in rows : Cardinality({y \in rows : y < x}) < limit} = rows
<1> SUFFICES ASSUME NEW x \in rows PROVE Cardinality({y \in rows : y < x}) < limit
  OBVIOUS
<1> DEFINE before == {y \in rows : y < x}
<1>1. before \in SUBSET rows /\ x \notin before
  OBVIOUS
<1> HIDE DEF before
<1>2. Cardinality(before) < Cardinality(rows)
  <2>1. IsFiniteSet(before) /\ Cardinality(before) <= Cardinality(rows)
    BY <1>1, FS_Subset
  <2>2. Cardinality(before) # Cardinality(rows)
    BY <1>1, FS_Subset
  <2> QED
    BY <2>1, <2>2, FS_CardinalityType
<1>3. Cardinality(before) < limit
  <2>1. Cardinality(before) \in Nat /\ Cardinality(rows) \in Nat
    BY <1>1, FS_Subset, FS_CardinalityType
  <2> QED
    BY <1>2, <2>1
<1> QED
  BY <1>3 DEF before

LEMMA FirstNodes ==
  ASSUME ChecksInv, NEW rows \in SUBSET Nodes, NEW limit \in Nat,
         Cardinality(rows) <= limit
  PROVE  {x \in rows : Cardinality({y \in rows : SoonerNode(y, x)}) < limit} = rows
<1>1. IsFiniteSet(rows)
  BY RowsAreIds, FS_Subset
<1> SUFFICES ASSUME NEW x \in rows PROVE Cardinality({y \in rows : SoonerNode(y, x)}) < limit
  OBVIOUS
<1> DEFINE before == {y \in rows : SoonerNode(y, x)}
<1>2. before \in SUBSET rows /\ x \notin before
  <2>1. nodes[x].target \in Nat /\ x \in Nat
    BY RowsAreIds DEF ChecksInv, RecordsTyped
  <2> QED
    BY <2>1 DEF SoonerNode
<1> HIDE DEF before
<1>3. Cardinality(before) < Cardinality(rows)
  <2>1. IsFiniteSet(before) /\ Cardinality(before) <= Cardinality(rows)
    BY <1>1, <1>2, FS_Subset
  <2>2. Cardinality(before) # Cardinality(rows)
    BY <1>1, <1>2, FS_Subset
  <2> QED
    BY <1>1, <2>1, <2>2, FS_CardinalityType
<1>4. Cardinality(before) < limit
  <2>1. Cardinality(before) \in Nat /\ Cardinality(rows) \in Nat
    BY <1>1, <1>2, FS_Subset, FS_CardinalityType
  <2> QED
    BY <1>3, <2>1
<1> QED
  BY <1>4 DEF before

LEMMA ThreadsWatched ==
  ASSUME ChecksInv, NEW current \in Nat, NEW k \in Threads
  PROVE  ThreadWatched(current, k)
<1> SUFFICES ASSUME threads[k].target \in 1 .. current - 1,
                    threads[k].status # "abandoned",
                    ~ (threads[k].status = "resolved" /\ threads[k].chapter \in DOMAIN chapters),
                    ~ (threads[k].status = "resolved" /\ threads[k].chapter = None),
                    ~ (k \in BrokenThreads /\ Cardinality(BrokenThreads) > LedgerCap)
             PROVE  {<<"foreshadow_overdue", k>>, <<"resolved_chapter", k>>}
                      \cap Errors(current) # {}
  BY DEF ThreadWatched
<1>1. threads[k].status \in {"pending", "resolved"}
  BY DEF ChecksInv, RecordsTyped
<1>2. CASE threads[k].status = "pending"
  <2>1. k \in ForeshadowOverdue(current)
    BY <1>2 DEF ForeshadowOverdue
  <2>2. <<"foreshadow_overdue", k>> \in Errors(current)
    BY <2>1 DEF Errors
  <2> QED
    BY <2>2
<1>3. CASE threads[k].status = "resolved"
  <2>1. k \in BrokenThreads
    BY <1>3 DEF BrokenThreads
  <2>2. IsFiniteSet(BrokenThreads) /\ Cardinality(BrokenThreads) \in Nat
        /\ BrokenThreads \subseteq Nat
    <3>1. BrokenThreads \in SUBSET Threads
      BY DEF BrokenThreads
    <3> QED
      BY <3>1, RowsAreIds, FS_Subset, FS_CardinalityType
  <2>3. {x \in BrokenThreads : Cardinality({y \in BrokenThreads : y < x}) < LedgerCap}
          = BrokenThreads
    <3>1. Cardinality(BrokenThreads) <= LedgerCap
      BY <2>1, <2>2, Constants
    <3> QED
      BY <2>2, <3>1, FirstThreads, Constants
  <2>4. k \in LedgerIntegrity.threads
    BY <2>1, <2>3 DEF LedgerIntegrity, FirstRows
  <2>5. <<"resolved_chapter", k>> \in Errors(current)
    BY <2>4 DEF Errors
  <2> QED
    BY <2>5
<1> QED
  BY <1>1, <1>2, <1>3

LEMMA NodesWatched ==
  ASSUME ChecksInv, NEW current \in Nat, NEW n \in Nodes
  PROVE  NodeWatched(current, n)
<1> SUFFICES ASSUME nodes[n].target \in 1 .. current - Lag - 1,
                    nodes[n].status # "abandoned",
                    ~ (Completed(n) /\ nodes[n].actual \in 1 .. MaxChapterNumber),
                    ~ (n \in LateNodes(current) /\ Cardinality(LateNodes(current)) > ScopeCap),
                    ~ (n \in BrokenNodes /\ Cardinality(BrokenNodes) > LedgerCap)
             PROVE  \/ <<"scope_guard", n>> \in Warnings(current)
                    \/ <<"actual_chapter", n>> \in Errors(current)
  BY DEF NodeWatched
<1>1. nodes[n].status \in {"pending", "completed"} /\ nodes[n].actual \in Nat
  BY DEF ChecksInv, RecordsTyped
<1>2. CASE nodes[n].status = "pending"
  <2>1. n \in LateNodes(current) /\ LateNodes(current) \in SUBSET Nodes
    BY <1>2 DEF LateNodes
  <2>2. Cardinality(LateNodes(current)) \in Nat
    BY <2>1, RowsAreIds, FS_Subset, FS_CardinalityType
  <2>3. {x \in LateNodes(current) :
           Cardinality({y \in LateNodes(current) : SoonerNode(y, x)}) < ScopeCap}
          = LateNodes(current)
    BY <2>1, <2>2, FirstNodes, Constants
  <2>4. n \in ScopeGuard(current).late
    BY <2>1, <2>3 DEF ScopeGuard, FirstRows
  <2> QED
    BY <2>4 DEF Warnings
<1>3. CASE nodes[n].status = "completed"
  <2>1. n \in BrokenNodes
    BY <1>1, <1>3, LastChapter, Constants DEF BrokenNodes, Completed
  <2>2. IsFiniteSet(BrokenNodes) /\ Cardinality(BrokenNodes) \in Nat /\ BrokenNodes \subseteq Nat
    <3>1. BrokenNodes \in SUBSET Nodes
      BY DEF BrokenNodes
    <3> QED
      BY <3>1, RowsAreIds, FS_Subset, FS_CardinalityType
  <2>3. {x \in BrokenNodes : Cardinality({y \in BrokenNodes : y < x}) < LedgerCap}
          = BrokenNodes
    BY <2>1, <2>2, FirstThreads, Constants
  <2>4. n \in LedgerIntegrity.nodes
    BY <2>1, <2>3 DEF LedgerIntegrity, FirstRows
  <2> QED
    BY <2>4 DEF Errors
<1> QED
  BY <1>1, <1>2, <1>3

\* The volumes that have a chapter, by their place in the plan.
VolumesAt(current) ==
  {i \in DOMAIN plan.volumes : current \in plan.volumes[i].start .. plan.volumes[i].end}

LEMMA PromisesWatched ==
  ASSUME ChecksInv, NEW current \in Nat, NEW c \in Promised
  PROVE  PromiseWatched(current, c)
<1> SUFFICES ASSUME plan.beats # << >>, <<"init_consistency", c>> \notin Errors(current)
             PROVE  /\ current \in c - Window .. c - 1 => <<"beat_window", c>> \in Warnings(current)
                    /\ \/ current < c + Tolerance
                       \/ {<<"promise_fulfillment", c>>, <<"volume_range", current>>}
                            \cap (Errors(current) \cup Warnings(current)) # {}
                       \/ \E v \in ToSet(plan.volumes) :
                            current \in v.start .. v.end /\ c \notin v.promised
                       \/ \E n \in Nodes : Completed(n) /\ nodes[n].actual \in c .. current
                       \/ \E id \in DOMAIN chapters : chapters[id].body.promised
  BY DEF PromiseWatched
<1>1. /\ plan.beats \in Seq(Nat)
      /\ plan.volumes \in Seq([start : Nat, end : Nat, promised : SUBSET Nat])
  BY ChecksConstants DEF ChecksInv, RecordsTyped
<1>2. c \in Nat
  <2>1. PICK v \in ToSet(plan.volumes) : c \in v.promised
    BY DEF Promised
  <2>2. PICK i \in DOMAIN plan.volumes : v = plan.volumes[i]
    BY <2>1 DEF ToSet
  <2>3. DOMAIN plan.volumes = 1 .. Len(plan.volumes)
    BY <1>1, LenProperties
  <2>4. plan.volumes[i] \in [start : Nat, end : Nat, promised : SUBSET Nat]
    BY <1>1, <2>2, <2>3, ElementOfSeq
  <2> QED
    BY <2>1, <2>2, <2>4
<1>3. c \in ToSet(plan.beats)
  BY DEF Errors, UnmatchedPromises
<1>4. ASSUME current \in c - Window .. c - 1 PROVE <<"beat_window", c>> \in Warnings(current)
  <2>1. c \in current + 1 .. current + Window
    BY <1>2, <1>4, Constants
  <2>2. c \in BeatWindow(current)
    BY <1>3, <2>1 DEF BeatWindow
  <2>3. <<"beat_window", c>> \in {"beat_window"} \X BeatWindow(current)
    BY <2>2
  <2> QED
    BY <2>3, Zenon DEF Warnings
<1>5. CASE ScopeGuard(current).outside
  <2>1. <<"volume_range", current>> \in Warnings(current)
    BY <1>5 DEF Warnings
  <2> QED
    BY <1>4, <2>1
<1>6. CASE ~ ScopeGuard(current).outside
  <2>1. PICK v \in ToSet(plan.volumes) : current \in v.start .. v.end
    BY <1>6 DEF ScopeGuard
  <2>2. VolumesAt(current) # {} /\ VolumesAt(current) \in SUBSET Nat
    BY <1>1, <2>1, LenProperties DEF VolumesAt, ToSet
  <2>3. Min(VolumesAt(current)) \in VolumesAt(current)
    BY <2>2, MinOf
  <2> DEFINE first == plan.volumes[Min(VolumesAt(current))]
  <2>4. /\ first \in ToSet(plan.volumes) /\ current \in first.start .. first.end
        /\ PromisedHere(current) = first.promised
    BY <2>2, <2>3 DEF VolumesAt, PromisedHere, ToSet
  <2>5. CASE c \notin first.promised
    BY <1>4, <2>4, <2>5
  <2>6. CASE c \in first.promised /\ c + Tolerance <= current
    <3>1. \/ c \in PromiseUnfulfilled(current)
          \/ \E n \in Nodes : Completed(n) /\ nodes[n].actual \in c .. current
          \/ \E id \in Between(current - 3, current) : chapters[id].body.promised
      BY <2>4, <2>6 DEF PromiseUnfulfilled
    <3>2. c \in PromiseUnfulfilled(current) => <<"promise_fulfillment", c>> \in Errors(current)
      BY DEF Errors
    <3>3. Between(current - 3, current) \subseteq DOMAIN chapters
      BY DEF Between
    <3> QED
      BY <1>4, <3>1, <3>2, <3>3
  <2>7. CASE ~ (c + Tolerance <= current)
    BY <1>2, <1>4, <2>7, Constants
  <2> QED
    BY <2>5, <2>6, <2>7
<1> QED
  BY <1>5, <1>6

\* Whatever is planned is announced, late, an error or done, or one of the cases the
\* property names (given up, without a target, resolved in no chapter, past the end of a
\* list that is cut), and the three counts of chapters without action agree, after any
\* changes in any order (findLedgerIntegrity,
\* findScopeGuard, findPromiseUnfulfilled, findPacingGap, TypeDriftStreak).
THEOREM NothingUnwatchedHolds == Spec => []NothingUnwatched
<1>1. ChecksInv => NothingUnwatched
  <2> SUFFICES ASSUME ChecksInv, NEW current \in Currents
               PROVE  /\ RemindersAgree(current)
                      /\ \A k \in Threads : ThreadWatched(current, k)
                      /\ \A n \in Nodes : NodeWatched(current, n)
                      /\ \A c \in Promised : PromiseWatched(current, c)
    BY DEF NothingUnwatched
  <2>1. current \in Nat
    BY Constants DEF Currents
  <2>2. RemindersAgree(current)
    BY <2>1, GapIsReminded, GapIsIdle, GapIsShort DEF RemindersAgree
  <2> QED
    BY <2>1, <2>2, ThreadsWatched, NodesWatched, PromisesWatched
<1> QED
  BY <1>1, ChecksInvariant, PTL

-----------------------------------------------------------------------------
(* The tools show what the checks report.                                  *)

LEMMA ChosenWhole ==
  ASSUME NEW xs, IsFiniteSet(xs), NEW limit \in Nat, Cardinality(xs) <= limit,
         NEW some \in SUBSET xs, Cardinality(some) = Lesser(limit, Cardinality(xs))
  PROVE  some = xs
<1>1. Cardinality(xs) \in Nat
  BY FS_CardinalityType
<1>2. Cardinality(some) = Cardinality(xs)
  BY <1>1 DEF Lesser
<1> QED
  BY <1>2, FS_Subset

LEMMA Limits ==
  Recent \in Nat /\ Cap \in Nat /\ Listed \in Nat /\ Stop \in Nat /\ Stop > 0
BY WindowsConstants

\* A list that is not cut is all its rows.
LEMMA Whole ==
  ASSUME NEW xs \in SUBSET (Threads \cup Nodes), Cardinality(xs) <= Cap, NEW due, NEW some,
         some \in Latest(xs, due, Cap) \cup Earliest(xs, due, Cap)
  PROVE  some = xs
<1>1. IsFiniteSet(xs)
  BY FS_Subset, ChecksConstants
<1>2. some \in SUBSET xs /\ Cardinality(some) = Lesser(Cap, Cardinality(xs))
  BY DEF Latest, Earliest, Chosen
<1> QED
  BY <1>1, <1>2, ChosenWhole, Limits

\* A pending thread is in one list, that of the check when it is late.
LEMMA ThreadsAgree ==
  ASSUME ChecksInv, NEW current \in Nat, ThreadsFit(current)
  PROVE  ThreadsShown(current)
<1> SUFFICES ASSUME NEW w \in Timeline(current)
             PROVE  /\ \A k \in PendingThreads : Cardinality(Lists(w, k)) = 1
                    /\ {k \in w.irregular \cap PendingThreads : threads[k].target # None}
                         = ForeshadowOverdue(current)
                    /\ \A k \in w.irregular \ PendingThreads :
                         threads[k].status = "resolved" /\ threads[k].target >= current
  BY DEF ThreadsShown
<1>1. PICK rows \in TimelineRows(current) : w = FormatTimeline(rows)
  BY DEF Timeline
<1>2. PICK history \in ListBefore(current), pending \in ListPendingBefore(current),
           future \in ListAfter(current) :
        rows = [history |-> history, anomalies |-> pending \cup (future \cap ResolvedThreads),
                future |-> future]
  BY <1>1 DEF TimelineRows
<1> DEFINE late == Past(PendingThreads, ThreadDue, current)
           come == Ahead(Threads, ThreadDue, current)
<1>3. history \subseteq Past(Threads, ThreadDue, current)
  BY DEF ListBefore, Latest, Chosen
<1>4. pending = late /\ future = come
  <2>1. late \in SUBSET (Threads \cup Nodes) /\ come \in SUBSET (Threads \cup Nodes)
    BY DEF Past, Ahead, PendingThreads
  <2>2. Cardinality(late) <= Cap /\ Cardinality(come) <= Cap
    BY DEF ThreadsFit
  <2>3. pending \in Latest(late, ThreadDue, Cap) /\ future \in Earliest(come, ThreadDue, Cap)
    BY DEF ListPendingBefore, ListAfter
  <2> HIDE DEF late, come
  <2> QED
    BY <2>1, <2>2, <2>3, Whole
<1>5. /\ w.past = history \ (late \cup (come \cap ResolvedThreads))
      /\ w.irregular = late \cup (come \cap ResolvedThreads)
      /\ w.ahead = come \ ResolvedThreads
      /\ DOMAIN w = {"past", "irregular", "ahead"}
  BY <1>1, <1>2, <1>4 DEF FormatTimeline
<1>6. \A k \in PendingThreads :
        /\ k \in Threads /\ k \notin ResolvedThreads /\ threads[k].target \in Nat
        /\ k \in late <=> threads[k].target < current
        /\ k \in come <=> threads[k].target >= current
  BY DEF PendingThreads, ResolvedThreads, Past, Ahead, ThreadDue, ChecksInv, RecordsTyped
<1>7. ASSUME NEW k \in PendingThreads PROVE Cardinality(Lists(w, k)) = 1
  <2>1. k \notin w.past
    <3>1. k \in history => threads[k].target < current
      BY <1>3, <1>6 DEF Past, ThreadDue
    <3> QED
      BY <1>5, <1>6, <3>1
  <2>2. CASE threads[k].target < current
    <3>1. k \in w.irregular /\ k \notin w.ahead
      BY <1>5, <1>6, <2>2
    <3>2. Lists(w, k) = {"irregular"}
      BY <1>5, <2>1, <3>1 DEF Lists
    <3> QED
      BY <3>2, FS_Singleton
  <2>3. CASE ~ (threads[k].target < current)
    <3>1. k \in w.ahead /\ k \notin w.irregular
      BY <1>5, <1>6, <2>3
    <3>2. Lists(w, k) = {"ahead"}
      BY <1>5, <2>1, <3>1 DEF Lists
    <3> QED
      BY <3>2, FS_Singleton
  <2> QED
    BY <2>2, <2>3
<1>8. {k \in w.irregular \cap PendingThreads : threads[k].target # None}
        = ForeshadowOverdue(current)
  <2>1. \A k \in PendingThreads : k \in w.irregular <=> threads[k].target < current
    BY <1>5, <1>6
  <2>2. \A k \in PendingThreads :
          (k \in w.irregular /\ threads[k].target # None)
            <=> threads[k].target \in 1 .. current - 1
    BY <1>6, <2>1, Constants
  <2>3. ForeshadowOverdue(current)
          = {k \in PendingThreads : threads[k].target \in 1 .. current - 1}
    BY DEF ForeshadowOverdue, PendingThreads
  <2> QED
    BY <2>2, <2>3
<1>9. \A k \in w.irregular \ PendingThreads :
        threads[k].status = "resolved" /\ threads[k].target >= current
  BY <1>5 DEF Past, Ahead, ThreadDue, ResolvedThreads
<1> QED
  BY <1>7, <1>8, <1>9

\* A paused arc breaks off at nodes no later than any that is late.
LEMMA BreakpointIsLate ==
  ASSUME ChecksInv, NEW current \in Nat
  PROVE  BreakpointShown(current)
<1> SUFFICES ASSUME LateNodes(current) # {},
                    \A n \in PendingNodes : nodes[n].target # None,
                    NEW w \in ArcWindow("paused", current)
             PROVE  w.pending \cap LateNodes(current) # {}
  BY DEF BreakpointShown
<1> DEFINE late == LateNodes(current)
           pending == w.pending
<1>0. pending \in Earliest(PendingNodes, NodeDue, Stop)
  BY DEF ArcWindow, GetBreakpoint
<1>1. /\ late \subseteq PendingNodes
      /\ \A n \in PendingNodes : n \in late <=> nodes[n].target \in 1 .. current - Lag - 1
      /\ \A n \in PendingNodes : NodeDue[n] = nodes[n].target
      /\ \A n \in PendingNodes : nodes[n].target \in Nat /\ nodes[n].target > 0
  <2>1. \A n \in Nodes : nodes[n].target \in Nat
    BY DEF ChecksInv, RecordsTyped
  <2> QED
    BY <2>1, Constants DEF LateNodes, PendingNodes, NodeDue
<1>2. /\ pending \in SUBSET PendingNodes
      /\ Cardinality(pending) = Lesser(Stop, Cardinality(PendingNodes))
      /\ \A x \in pending, y \in PendingNodes \ pending : ~ (NodeDue[y] < NodeDue[x])
  BY <1>0 DEF Earliest, Chosen
<1> HIDE DEF late, pending
<1>3. PICK n \in late : TRUE
  BY DEF late
<1>4. pending # {}
  <2>1. PendingNodes \in SUBSET Nodes
    BY DEF PendingNodes
  <2>2. IsFiniteSet(PendingNodes) /\ Cardinality(PendingNodes) \in Nat
    BY <2>1, RowsAreIds, FS_Subset, FS_CardinalityType
  <2>3. Cardinality(PendingNodes) # 0
    BY <1>1, <1>3, <2>2, FS_EmptySet
  <2>4. Cardinality(pending) # 0
    BY <1>2, <2>2, <2>3, Limits DEF Lesser
  <2> QED
    BY <2>4, FS_EmptySet
<1>5. PICK x \in pending : TRUE
  BY <1>4
<1>6. CASE n \in pending
  BY <1>3, <1>6 DEF late, pending
<1>7. CASE n \notin pending
  <2>1. nodes[x].target <= nodes[n].target /\ x \in PendingNodes /\ n \in PendingNodes
    BY <1>1, <1>2, <1>3, <1>5, <1>7
  <2>2. nodes[x].target \in 1 .. current - Lag - 1
    BY <1>1, <1>3, <2>1, Constants
  <2> QED
    BY <1>1, <1>5, <2>1, <2>2 DEF late, pending
<1> QED
  BY <1>6, <1>7

LEMMA NodesAgree ==
  ASSUME ChecksInv, NEW current \in Nat, NodesFit(current)
  PROVE  NodesShown(current)
<1> DEFINE late == LateNodes(current)
           past == Past(PendingNodes, NodeDue, current)
           come == Ahead(Nodes, NodeDue, current)
<1>1. ASSUME NEW w \in ArcWindow("active", current)
      PROVE  /\ late \subseteq w.irregular
             /\ \A n \in PendingNodes : Cardinality(Lists(w, n) \ {"past"}) = 1
  <2>1. /\ DOMAIN w = {"past", "irregular", "ahead"}
        /\ w.irregular \in Earliest(past, NodeDue, Cap) /\ w.ahead \in Earliest(come, NodeDue, Cap)
    BY DEF ArcWindow, FormatActiveArc, ListPendingNodesBeforeByArc, ListNodesAfterByArc
  <2>2. /\ past \in SUBSET (Threads \cup Nodes) /\ come \in SUBSET (Threads \cup Nodes)
        /\ Cardinality(past) <= Cap /\ Cardinality(come) <= Cap
    BY DEF Past, Ahead, PendingNodes, NodesFit
  <2>3. w.irregular = past /\ w.ahead = come
    <3> HIDE DEF past, come
    <3> QED
      BY <2>1, <2>2, Whole
  <2>4. \A n \in PendingNodes :
          /\ nodes[n].target \in Nat
          /\ n \in past <=> nodes[n].target < current
          /\ n \in come <=> nodes[n].target >= current
    BY DEF PendingNodes, Past, Ahead, NodeDue, ChecksInv, RecordsTyped
  <2>5. late \subseteq w.irregular
    <3>1. \A n \in late : n \in PendingNodes /\ nodes[n].target < current
      BY <2>4, Constants DEF LateNodes, PendingNodes
    <3> QED
      BY <2>3, <2>4, <3>1
  <2>6. ASSUME NEW n \in PendingNodes PROVE Cardinality(Lists(w, n) \ {"past"}) = 1
    <3>1. CASE nodes[n].target < current
      <4>1. n \in w.irregular /\ n \notin w.ahead
        BY <2>3, <2>4, <3>1
      <4>2. Lists(w, n) \ {"past"} = {"irregular"}
        BY <2>1, <4>1 DEF Lists
      <4> QED
        BY <4>2, FS_Singleton
    <3>2. CASE ~ (nodes[n].target < current)
      <4>1. n \notin w.irregular /\ n \in w.ahead
        BY <2>3, <2>4, <3>2
      <4>2. Lists(w, n) \ {"past"} = {"ahead"}
        BY <2>1, <4>1 DEF Lists
      <4> QED
        BY <4>2, FS_Singleton
    <3> QED
      BY <3>1, <3>2
  <2> QED
    BY <2>5, <2>6
<1> QED
  BY <1>1 DEF NodesShown

\* The newest scenes are scenes, and all of them while there are few.
LEMMA NewestAre ==
  ASSUME ChecksInv
  PROVE  /\ NewestScenes \subseteq ToSet(scenes)
         /\ Len(scenes) <= SceneCap => NewestScenes = ToSet(scenes)
<1>1. DOMAIN scenes = 1 .. Len(scenes) /\ Len(scenes) \in Nat
  BY LenProperties DEF ChecksInv, RecordsTyped
<1>2. Len(scenes) <= SceneCap => \A i \in DOMAIN scenes : i > Len(scenes) - SceneCap
  BY <1>1, Constants
<1> QED
  BY <1>2 DEF NewestScenes, ToSet

\* The appearances that are listed end where the check says the person vanished.
LEMMA AppearancesAgree ==
  ASSUME ChecksInv, NEW current \in Nat
  PROVE  AppearancesShown(current)
<1> SUFFICES ASSUME NEW p \in People, NEW list \in CharacterAppearances(p, Listed)
             PROVE  /\ p \in VanishedCharacters(current) => \A n \in list : n < current - Vanish
                    /\ /\ list # {} /\ Cardinality(list) < Listed /\ Len(scenes) <= SceneCap
                       /\ p \notin VanishedCharacters(current)
                       => \E n \in list : n >= current - Vanish
  BY DEF AppearancesShown
<1> DEFINE all   == SceneNumbers(p) \ {0}
           newer == {NumberOf(s[1]) : s \in {s \in NewestScenes : s[2] = p}} \ {0}
<1>1. /\ list \in SUBSET newer
      /\ Cardinality(list) = IF Cardinality(newer) < Listed THEN Cardinality(newer) ELSE Listed
  BY DEF CharacterAppearances, Cut
<1>2. newer \subseteq all /\ (Len(scenes) <= SceneCap => newer = all)
  BY NewestAre DEF SceneNumbers
<1>3. /\ LastSeen(p) \in Nat /\ LastSeen(p) \in SceneNumbers(p) \cup {0}
      /\ \A n \in SceneNumbers(p) : n \in Nat /\ n <= LastSeen(p)
  BY LastSeenFacts, Constants
<1>4. p \in VanishedCharacters(current) <=> LastSeen(p) \in 1 .. current - Vanish - 1
  BY AbsenceTrue DEF AbsenceReported
<1> HIDE DEF newer
<1>5. ASSUME p \in VanishedCharacters(current), NEW n \in list PROVE n < current - Vanish
  BY <1>1, <1>2, <1>3, <1>4, <1>5, Constants
<1>6. ASSUME list # {}, Cardinality(list) < Listed, Len(scenes) <= SceneCap,
             p \notin VanishedCharacters(current)
      PROVE  \E n \in list : n >= current - Vanish
  <2>1. newer = all
    BY <1>2, <1>6
  <2>2. IsFiniteSet(newer) /\ Cardinality(newer) \in Nat
    <3>1. newer \in SUBSET (0 .. MaxChapter)
      BY <2>1, LastSeenFacts
    <3>2. IsFiniteSet(0 .. MaxChapter)
      BY FS_Interval, Constants
    <3> QED
      BY <3>1, <3>2, FS_Subset, FS_CardinalityType
  <2>3. list = newer
    <3>1. Cardinality(list) = Cardinality(newer)
      BY <1>1, <1>6, <2>2, Limits
    <3> QED
      BY <1>1, <2>2, <3>1, FS_Subset
  <2>4. PICK n \in list : n \in Nat /\ n # 0 /\ n <= LastSeen(p)
    BY <1>1, <1>2, <1>3, <1>6
  <2>5. LastSeen(p) \in list
    BY <1>3, <2>1, <2>3, <2>4
  <2>6. LastSeen(p) >= current - Vanish
    BY <1>3, <1>4, <1>6, <2>4, Constants
  <2> QED
    BY <2>5, <2>6
<1> QED
  BY <1>5, <1>6

\* What the model is shown of threads, of nodes and of appearances agrees with what the
\* check reports, where a list is not cut and a target is not zero (get_timeline,
\* get_story_arcs and get_entity_appearances against check_story_consistency).
THEOREM WindowsAgreeHolds == Spec => []WindowsAgree
<1>1. ChecksInv => WindowsAgree
  <2>1. \A current \in Currents : current \in Nat
    BY Constants DEF Currents
  <2> QED
    BY <2>1, ThreadsAgree, NodesAgree, BreakpointIsLate, AppearancesAgree DEF WindowsAgree
<1> QED
  BY <1>1, ChecksInvariant, PTL

-----------------------------------------------------------------------------
(* The extraction of patterns.                                             *)

\* The fields of an extraction.
RunFields ==
  /\ run.window \in Nat
  /\ run = [stage |-> run.stage, chapters |-> run.chapters, hints |-> run.hints,
         batches |-> run.batches, tries |-> run.tries, blank |-> run.blank,
         saving |-> run.saving, chunks |-> run.chunks, next |-> run.next,
         round |-> run.round, again |-> run.again, stall |-> run.stall,
         window |-> run.window]

SavedType == DOMAIN saved = Chapters

\* A chapter that waits for a summary has none, unless others wrote it since it was
\* loaded, and the summaries of an answer still to be saved are of such chapters.
BlankIsBlank ==
  /\ run.blank \subseteq {c \in Chapters : saved[c] = NoSummary \/ c \in others}
  /\ run.saving \subseteq run.blank

\* The blocks of the last call went through a comparison of their tokens.
FinalChecked ==
  run.stage = "final" =>
    \/ TokensOfChunks(run.chunks) <= FinalBudget
    \/ Tolerable(TokensOfChunks(run.chunks))

PatternInv == RunFields /\ SavedType /\ BlankIsBlank /\ FinalChecked

\* What a step of the extraction replaces.
KeepsWritten ==
  run' # run =>
    \A c \in Chapters : saved[c] # NoSummary /\ saved'[c] # saved[c] => c \in others

\* An extraction that is over, or begins its blocks, waits for no summary and holds
\* no block for the last call.
LEMMA IdleFields ==
  /\ Idle.blank = {} /\ Idle.saving = {} /\ Idle.stage = "done"
  /\ DOMAIN Idle = {"stage", "chapters", "hints", "batches", "tries", "blank",
                    "saving", "chunks", "next", "round", "again", "stall", "window"}
BY DEF Idle

\* A step that keeps the summaries and leaves neither blanks nor anything to save
\* behind, or leaves both as they are.
LEMMA KeepsSummaries ==
  ASSUME PatternInv, NEW fields, Keeps(fields),
         \/ fields.blank = {} /\ fields.saving = {}
         \/ fields.blank = run.blank /\ fields.saving = run.saving
  PROVE  SavedType' /\ BlankIsBlank'
BY DEF PatternInv, Keeps, SavedType, BlankIsBlank

LEMMA FailStep ==
  ASSUME PatternInv, Fail
  PROVE  PatternInv' /\ UNCHANGED <<saved, others>>
<1>1. run' = [Idle EXCEPT !.stage = "failed"] /\ UNCHANGED <<saved, others>>
  BY DEF Fail, Keeps
<1>2. RunFields' /\ run'.stage = "failed" /\ run'.blank = {} /\ run'.saving = {}
  BY <1>1 DEF RunFields, Idle
<1> QED
  BY <1>1, <1>2 DEF PatternInv, SavedType, BlankIsBlank, FinalChecked

\* The blocks are given to the last call only if they fit.
LEMMA FinalizeStep ==
  ASSUME PatternInv, NEW chunks, Keeps(Finalize(chunks)),
         TokensOfChunks(chunks) <= FinalBudget \/ Tolerable(TokensOfChunks(chunks))
  PROVE  PatternInv' /\ UNCHANGED <<saved, others>>
<1>1. run' = Finalize(chunks) /\ UNCHANGED <<saved, others>>
  BY DEF Keeps
<1>2. /\ RunFields' /\ run'.blank = {} /\ run'.saving = {} /\ run'.chunks = chunks
      /\ run'.window = run.window
  BY <1>1 DEF PatternInv, RunFields, Finalize, Idle
<1>3. FinalChecked'
  BY <1>2, <1>1 DEF FinalChecked, Tolerable
<1> QED
  BY <1>1, <1>2, <1>3 DEF PatternInv, SavedType, BlankIsBlank

LEMMA RoundsStep ==
  ASSUME PatternInv, run.stage = "chunks", NEW chunks, NEW stall, Rounds(chunks, stall)
  PROVE  PatternInv' /\ UNCHANGED <<saved, others>>
<1>1. CASE TokensOfChunks(chunks) <= FinalBudget
  BY <1>1, FinalizeStep DEF Rounds
<1>2. CASE ~ (TokensOfChunks(chunks) <= FinalBudget)
  <2>1. /\ run' = [run EXCEPT !.chunks = chunks, !.next = << >>,
                              !.round = IF @ < 2 THEN @ + 1 ELSE 2,
                              !.stall = stall, !.again = FALSE, !.tries = 0,
                              !.batches = ChunkBatches(chunks)]
        /\ UNCHANGED <<saved, others>>
    BY <1>2 DEF Rounds, Keeps
  <2>2. RunFields' /\ run'.stage = "chunks" /\ run'.blank = run.blank /\ run'.saving = run.saving
    BY <2>1 DEF PatternInv, RunFields
  <2> QED
    BY <2>1, <2>2 DEF PatternInv, SavedType, BlankIsBlank, FinalChecked
<1> QED
  BY <1>1, <1>2

\* The three ways out of the rounds, and the round that goes on.
LEMMA RoundEndsStep ==
  ASSUME PatternInv, RoundEnds
  PROVE  PatternInv' /\ UNCHANGED <<saved, others>>
<1> DEFINE prev == TokensOfChunks(run.chunks)
           now  == TokensOfChunks(run.next)
<1>0. run.stage = "chunks"
  BY DEF RoundEnds
<1>1. \/ EmptyRound
      \/ \E stall : Rounds(run.next, stall)
      \/ NoReduction(prev)
      \/ LittleReduction(now)
  BY DEF RoundEnds
<1>2. ASSUME EmptyRound PROVE PatternInv' /\ UNCHANGED <<saved, others>>
  <2>1. CASE Fail
    BY <2>1, FailStep
  <2>2. CASE Keeps([run EXCEPT !.again = TRUE, !.tries = 0, !.batches = ChunkBatches(run.chunks)])
    <3>1. RunFields' /\ run'.stage = "chunks" /\ run'.blank = run.blank /\ run'.saving = run.saving
          /\ UNCHANGED <<saved, others>>
      BY <2>2, <1>0 DEF PatternInv, RunFields, Keeps
    <3> QED
      BY <3>1 DEF PatternInv, SavedType, BlankIsBlank, FinalChecked
  <2> QED
    BY <1>2, <2>1, <2>2 DEF EmptyRound
<1>3. ASSUME NoReduction(prev) PROVE PatternInv' /\ UNCHANGED <<saved, others>>
  BY <1>3, FinalizeStep, FailStep DEF NoReduction
<1>4. ASSUME LittleReduction(now) PROVE PatternInv' /\ UNCHANGED <<saved, others>>
  BY <1>0, <1>4, FinalizeStep, FailStep, RoundsStep DEF LittleReduction
<1> HIDE DEF prev, now
<1> QED
  BY <1>0, <1>1, <1>2, <1>3, <1>4, RoundsStep

\* A step that stays before the last call and changes other fields of the
\* extraction only.
LEMMA OtherFields ==
  ASSUME PatternInv, RunFields', run'.stage # "final",
         run'.blank = run.blank, run'.saving = run.saving, UNCHANGED <<saved, others>>
  PROVE  PatternInv' /\ UNCHANGED <<saved, others>>
BY DEF PatternInv, SavedType, BlankIsBlank, FinalChecked

LEMMA SummarizeStep ==
  ASSUME PatternInv, Summarize
  PROVE  PatternInv' /\ UNCHANGED <<saved, others>>
<1>1. PICK answer \in SUBSET ToSet(Head(run.batches)) :
        IF Wanted(answer) = {} THEN Keeps(NextBatch(run))
        ELSE Keeps([run EXCEPT !.saving = Wanted(answer), !.tries = 0])
  BY DEF Summarize
<1>2. CASE Wanted(answer) = {}
  <2>1. RunFields' /\ run'.stage = "summaries" /\ UNCHANGED <<saved, others>>
        /\ run'.blank = run.blank /\ run'.saving = run.saving
    BY <1>1, <1>2 DEF Summarize, PatternInv, RunFields, Keeps, NextBatch
  <2> QED
    BY <2>1, OtherFields
<1>3. CASE Wanted(answer) # {}
  <2>1. RunFields' /\ run'.stage = "summaries" /\ UNCHANGED <<saved, others>>
        /\ run'.blank = run.blank /\ run'.saving = Wanted(answer)
    BY <1>1, <1>3 DEF Summarize, PatternInv, RunFields, Keeps
  <2>2. Wanted(answer) \subseteq run.blank
    BY DEF Wanted, Missing
  <2> QED
    BY <2>1, <2>2 DEF PatternInv, SavedType, BlankIsBlank, FinalChecked
<1> QED
  BY <1>2, <1>3

LEMMA SaveSummaryStep ==
  ASSUME PatternInv, SaveSummary
  PROVE  PatternInv' /\ KeepsWritten
<1>1. PICK c \in run.saving :
        /\ saved' = [saved EXCEPT ![c] = runs] /\ UNCHANGED others
        /\ LET fields == [run EXCEPT !.saving = @ \ {c}, !.blank = @ \ {c}]
           IN run' = IF run.saving = {c} THEN NextBatch(fields) ELSE fields
  BY DEF SaveSummary
<1>2. RunFields' /\ run'.stage = "summaries"
      /\ run'.blank = run.blank \ {c} /\ run'.saving = run.saving \ {c}
  BY <1>1 DEF SaveSummary, PatternInv, RunFields, NextBatch
<1>3. c \in Chapters /\ (saved[c] = NoSummary \/ c \in others)
  BY DEF PatternInv, BlankIsBlank
<1>4. SavedType' /\ UNCHANGED others /\ \A d \in Chapters : d # c => saved'[d] = saved[d]
  BY <1>1 DEF PatternInv, SavedType
<1> QED
  BY <1>2, <1>3, <1>4 DEF PatternInv, BlankIsBlank, FinalChecked, KeepsWritten

LEMMA StartStep ==
  ASSUME PatternInv, Start
  PROVE  PatternInv' /\ UNCHANGED saved
<1>1. PICK chosen \in SUBSET Chapters, window \in ContextWindows :
        run' = [Idle EXCEPT !.stage = "boundaries", !.chapters = SetToSortSeq(chosen, <),
                            !.window = window,
                            !.blank = {c \in chosen : saved[c] = NoSummary}]
  BY DEF Start
<1>2. UNCHANGED saved
  BY DEF Start
<1>3. RunFields' /\ run'.stage = "boundaries" /\ run'.saving = {}
      /\ run'.blank = {c \in chosen : saved[c] = NoSummary}
  BY <1>1, PatternConstants DEF RunFields, Idle
<1> QED
  BY <1>2, <1>3 DEF PatternInv, SavedType, BlankIsBlank, FinalChecked

LEMMA PatternStep ==
  ASSUME PatternInv, [PatternNext]_patternVars
  PROVE  PatternInv' /\ KeepsWritten
<1> SUFFICES ASSUME ~ SaveSummary PROVE PatternInv' /\ (UNCHANGED saved \/ UNCHANGED run)
  BY SaveSummaryStep DEF KeepsWritten
<1>1. CASE Start
  BY <1>1, StartStep
<1>2. CASE Cancel \/ SaveFails \/ FinalFails
  BY <1>2, FailStep DEF Cancel, SaveFails, FinalFails
<1>3. CASE PreAnalyzeBoundaries
  <2>1. RunFields' /\ run'.stage = "summaries" /\ UNCHANGED <<saved, others>>
        /\ run'.blank = run.blank /\ run'.saving = run.saving
    BY <1>3 DEF PreAnalyzeBoundaries, PatternInv, RunFields, Keeps
  <2> QED
    BY <2>1, OtherFields
<1>4. CASE ReuseSummaries
  <2>1. RunFields' /\ run'.stage = "summaries" /\ UNCHANGED <<saved, others>>
        /\ run'.blank = run.blank /\ run'.saving = run.saving
    BY <1>4 DEF ReuseSummaries, PatternInv, RunFields, Keeps, NextBatch
  <2> QED
    BY <2>1, OtherFields
<1>5. CASE Summarize
  BY <1>5, SummarizeStep
<1>6. CASE SummariesReady
  <2>1. CASE Fail
    BY <2>1, FailStep
  <2>2. CASE Keeps([Idle EXCEPT !.stage = "chunks", !.round = 1, !.window = run.window,
                                !.batches = SummaryBatches(Summarized)])
    <3>1. RunFields' /\ run'.stage = "chunks" /\ run'.blank = {} /\ run'.saving = {}
          /\ UNCHANGED <<saved, others>>
      BY <2>2 DEF PatternInv, RunFields, Keeps, Idle
    <3> QED
      BY <3>1 DEF PatternInv, SavedType, BlankIsBlank, FinalChecked
  <2> QED
    BY <1>6, <2>1, <2>2 DEF SummariesReady
<1>7. CASE ReceiveChunks
  <2>1. PICK answer \in Blocks :
          Keeps(NextBatch([run EXCEPT !.next = @ \o NormalizeChunks(answer)]))
    BY <1>7 DEF ReceiveChunks
  <2>2. RunFields' /\ run'.stage = "chunks" /\ UNCHANGED <<saved, others>>
        /\ run'.blank = run.blank /\ run'.saving = run.saving
    BY <1>7, <2>1 DEF ReceiveChunks, PatternInv, RunFields, Keeps, NextBatch
  <2> QED
    BY <2>2, OtherFields
<1>8. CASE RoundEnds
  BY <1>8, RoundEndsStep
<1>9. CASE FinalSkill
  <2>1. RunFields' /\ run'.stage = "done" /\ run'.blank = {} /\ run'.saving = {}
        /\ UNCHANGED <<saved, others>>
    BY <1>9 DEF FinalSkill, RunFields, Keeps, Idle
  <2> QED
    BY <2>1 DEF PatternInv, SavedType, BlankIsBlank, FinalChecked
<1>10. CASE NoAnswer
  <2>1. CASE Fail
    BY <2>1, FailStep
  <2>2. CASE Keeps([run EXCEPT !.tries = @ + 1])
    <3>1. RunFields' /\ run'.stage = run.stage /\ UNCHANGED <<saved, others>>
          /\ run'.blank = run.blank /\ run'.saving = run.saving
      BY <2>2 DEF PatternInv, RunFields, Keeps
    <3>2. run.stage # "final"
      BY <1>10 DEF NoAnswer, Asking
    <3> QED
      BY <3>1, <3>2, OtherFields
  <2> QED
    BY <1>10, <2>1, <2>2 DEF NoAnswer
<1>11. CASE UpdateSummary
  <2>1. PICK c \in Chapters, summary \in {NoSummary, SomeoneElse} :
          saved' = [saved EXCEPT ![c] = summary] /\ others' = others \cup {c}
    BY <1>11 DEF UpdateSummary
  <2>2. UNCHANGED run /\ \A d \in Chapters : d # c => saved'[d] = saved[d]
    BY <1>11, <2>1 DEF UpdateSummary, PatternInv, SavedType
  <2> QED
    BY <2>1, <2>2 DEF PatternInv, RunFields, SavedType, BlankIsBlank, FinalChecked, Tolerable
<1>12. CASE UNCHANGED patternVars
  BY <1>12 DEF patternVars, PatternInv, RunFields, SavedType, BlankIsBlank, FinalChecked,
                 Tolerable
<1> QED
  BY <1>1, <1>2, <1>3, <1>4, <1>5, <1>6, <1>7, <1>8, <1>9, <1>10, <1>11, <1>12 DEF PatternNext, Advance

-----------------------------------------------------------------------------
\* The inductive invariant, from any saved summaries.
THEOREM PatternInvariant == PatternSpec => []PatternInv
<1>1. PatternInit => PatternInv
  BY DEF PatternInit, PatternInv, RunFields, SavedType, BlankIsBlank, FinalChecked, Idle
<1>2. PatternInv /\ [PatternNext]_patternVars => PatternInv'
  BY PatternStep
<1> QED
  BY <1>1, <1>2, PTL DEF PatternSpec

\* What the last call is given fits in four fifths of the window, whichever of its
\* three ways out the loop of Extract took; in a window too small for the final
\* budget it fits that budget.  The sum of the tokens is folded over the blocks:
\* that it is a number takes induction over them, and is a hypothesis here.
THEOREM FinalFitsHolds ==
  PatternSpec => [](TokensOfChunks(run.chunks) \in Nat => FinalFits)
<1>1. PatternInv => (TokensOfChunks(run.chunks) \in Nat => FinalFits)
  <2> SUFFICES ASSUME PatternInv, TokensOfChunks(run.chunks) \in Nat, run.stage = "final"
               PROVE  FinalFits
    BY DEF FinalFits
  <2> DEFINE now == TokensOfChunks(run.chunks)
  <2>1. now \in Nat /\ FinalBudget \in Nat
    BY PatternConstants
  <2>2. run.window \in Nat
    BY DEF PatternInv, RunFields
  <2>3. now <= FinalBudget \/ Tolerable(now)
    BY DEF PatternInv, FinalChecked
  <2> HIDE DEF now
  <2>4. Tolerable(now) \/ (~ Tolerable(FinalBudget) /\ now <= FinalBudget)
    BY <2>1, <2>2, <2>3 DEF Tolerable
  <2> QED
    BY <2>4 DEF FinalFits, now
<1> QED
  BY <1>1, PatternInvariant, PTL

\* No extraction replaces a summary, the user's or one that an earlier, failed or
\* cancelled extraction left, unless others wrote it after the extraction had
\* loaded the chapter.
THEOREM SummariesKeptHolds == PatternSpec => SummariesKept
<1>1. PatternInv /\ [PatternNext]_patternVars
        => [run' # run =>
              \A c \in Chapters :
                saved[c] # NoSummary /\ saved'[c] # saved[c] => c \in others]_patternVars
  BY PatternStep DEF KeepsWritten
<1> QED
  BY <1>1, PatternInvariant, PTL DEF PatternSpec, SummariesKept
=============================================================================
