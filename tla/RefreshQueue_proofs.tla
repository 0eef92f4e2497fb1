------------------------ MODULE RefreshQueue_proofs ------------------------
(***************************************************************************)
(* The safety of module RefreshQueue, for any number of writers, chapters, *)
(* saves, retries and rebuilds: no pending task waits without a timer, and *)
(* a chapter that nothing went wrong with is indexed as its file is.       *)
(***************************************************************************)
EXTENDS RefreshQueue, WellFoundedInduction, SequenceTheorems, TLAPS

-----------------------------------------------------------------------------
(* The inductive invariant.                                                *)

\* The stage of the consumer says what it holds; the timer's flag is never set
\* without the timer.
ConsumerStages ==
  /\ active = armed
  /\ stage \in {"index", "retry"} <=> cur # {}
  /\ \A t, u \in cur : t = u
  /\ stage \in {"select", "stopped"} => work = {}
  /\ stage = "retry" => \A t \in cur : t.chapter \in hist.spoiled

\* A writer holds at most one task, and no text newer than the file's; a file
\* newer than the last submission is about to be submitted.
StoredNext ==
  /\ \A w \in Writers :
       /\ \A t, u \in writer[w] : t = u
       /\ \A t \in writer[w] : t.text <= file[t.chapter]
  /\ \A c \in Chapters \ hist.spoiled :
       hist.last[c] # file[c] =>
         \E w \in Writers : \E t \in writer[w] : t.chapter = c /\ t.text = file[c]

InChannel(c) == \E i \in DOMAIN ch : ch[i].chapter = c
InPending(c) == \E t \in pending : t.chapter = c
InWork(c) == \E t \in work \cup cur : t.chapter = c
InQueue(c) == InChannel(c) \/ InPending(c) \/ InWork(c)

\* Of the tasks of a chapter the one that is reached last holds the text that
\* was submitted last: in the channel, else pending, else in the batch.
LastQueued ==
  \A c \in Chapters \ hist.spoiled :
    /\ \A i \in DOMAIN ch :
         ch[i].chapter = c /\ (\A j \in DOMAIN ch : j > i => ch[j].chapter # c)
           => ch[i].text = hist.last[c]
    /\ ~ InChannel(c) =>
         \A t \in pending : t.chapter = c => t.text = hist.last[c]
    /\ ~ InChannel(c) /\ ~ InPending(c) =>
         \A t \in work \cup cur : t.chapter = c => t.text = hist.last[c]

RebuildStages ==
  /\ ~ rebuilds.running => unread = {} /\ batch = {}
  /\ \A x \in batch : x[1] \notin unread
  /\ \A x, y \in batch : x[1] = y[1] => x = y

Held(c) == \E w \in Writers : \E t \in writer[w] : t.chapter = c

Read(c) == \E x \in batch : x[1] = c

\* During a rebuild a chapter is unread, read or inserted, and what was read of
\* it is its file's text, unless it has been stored again since: then a writer
\* holds a task for it, or the queue does.
RebuildFresh ==
  rebuilds.running =>
    \A c \in Chapters \ hist.spoiled :
      /\ \A t \in cur : t.chapter # c
      /\ c \in unread \/ Read(c) => index[c] = << >>
      /\ \/ InQueue(c) \/ Held(c)
         \/ /\ \A x \in batch : x[1] = c => x[2] = file[c]
            /\ c \notin unread /\ ~ Read(c) => index[c] = <<file[c]>>

\* Without one, the index of a chapter holds the last text submitted unless a
\* task is on its way, and nothing while its refresh is between its two halves.
QueueFresh ==
  ~ rebuilds.running =>
    \A c \in Chapters \ hist.spoiled :
      /\ \A t \in cur : t.chapter = c => index[c] = << >>
      /\ InQueue(c) \/ Held(c) \/ index[c] = <<hist.last[c]>>

QueueInv ==
  /\ TypeOK
  /\ ConsumerStages
  /\ StoredNext
  /\ LastQueued
  /\ RebuildStages
  /\ RebuildFresh
  /\ QueueFresh

-----------------------------------------------------------------------------
(* Newest. *)

\* The number of the last save is the largest one: there is a largest, as the
\* distance to the bound has a least value.
LEMMA NewestIsMax ==
  ASSUME TypeOK, Chapters # {}
  PROVE  Newest \in Texts /\ \A c \in Chapters : file[c] <= Newest
<1> DEFINE T == {MaxSaves - file[c] : c \in Chapters}
<1>1. \A c \in Chapters : file[c] \in Nat /\ file[c] <= MaxSaves
  BY QueueAssumption DEF TypeOK, Texts
<1>2. T \subseteq Nat /\ T # {}
  BY <1>1, QueueAssumption
<1>3. PICK m \in T : \A n \in T : <<n, m>> \notin OpToRel(<, Nat)
  <2> HIDE DEF T
  <2> QED
    BY <1>2, NatLessThanWellFounded, WFMin
<1>4. \A n \in T : m <= n
  <2>1. ASSUME NEW n \in Nat, <<n, m>> \notin OpToRel(<, Nat), m \in Nat
        PROVE  m <= n
    BY <2>1 DEF OpToRel
  <2> HIDE DEF T
  <2> QED
    BY <1>2, <1>3, <2>1
<1>5. PICK d \in Chapters : m = MaxSaves - file[d]
  BY <1>3
<1>6. ASSUME NEW c \in Chapters PROVE file[c] <= file[d]
  <2>1. MaxSaves - file[d] <= MaxSaves - file[c]
    BY <1>4, <1>5
  <2> QED
    BY <1>1, <2>1, QueueAssumption
<1>7. Newest \in {file[c] : c \in Chapters} /\ \A c \in Chapters : file[c] <= Newest
  BY <1>6 DEF Newest
<1> HIDE DEF T
<1> QED
  BY <1>1, <1>7 DEF Texts

-----------------------------------------------------------------------------
(* One step of the specification. *)

\* The fields of a task.
LEMMA TaskFields ==
  \A t \in Task : /\ t.chapter \in Chapters
                  /\ t.text \in Texts
                  /\ t.retried \in 0..MaxRetries
BY DEF Task

\* A retry is a task of the same chapter and text.
LEMMA RetryType ==
  ASSUME NEW t \in Task, t.retried < MaxRetries
  PROVE  /\ [t EXCEPT !.retried = @ + 1] \in Task
         /\ [t EXCEPT !.retried = @ + 1].chapter = t.chapter
BY QueueAssumption DEF Task

\* An index without chunks.
LEMMA DroppedType == Dropped \in [Chapters -> Seq(Texts)]
<1>1. << >> \in Seq(Texts)
  BY EmptySeq
<1> QED
  BY <1>1 DEF Dropped

\* The history of what was spoiled keeps its type.
LEMMA SpoilType ==
  ASSUME TypeOK, NEW S \in SUBSET Chapters, Spoil(S)
  PROVE  /\ hist' \in Hist
         /\ hist'.last = hist.last
         /\ hist'.spoiled = hist.spoiled \cup S
<1>1. hist \in Hist
  BY DEF TypeOK
<1> QED
  BY <1>1 DEF Spoil, Hist

\* Every step keeps the types.
LEMMA TypeStep ==
  ASSUME TypeOK, Next
  PROVE  TypeOK'
<1> USE TaskFields DEF TypeOK, input, queue, consumer, rebuild
<1>1. ASSUME NEW w \in Writers, NEW c \in Chapters, Store(w, c) PROVE TypeOK'
  <2>1. Newest + 1 \in Texts
    BY <1>1, NewestIsMax, QueueAssumption DEF Store, Texts
  <2>2. [chapter |-> c, text |-> Newest + 1, retried |-> 0] \in Task
    BY <2>1, QueueAssumption DEF Task
  <2>3. file' \in [Chapters -> Texts]
    BY <1>1, <2>1 DEF Store
  <2>4. writer' \in [Writers -> SUBSET Task]
    BY <1>1, <2>2 DEF Store
  <2> QED
    BY <1>1, <2>3, <2>4 DEF Store
<1>2. ASSUME NEW w \in Writers, Submit(w) PROVE TypeOK'
  <2>1. PICK t \in writer[w] :
          /\ ch' = Append(ch, t)
          /\ hist' = IF t.text < hist.last[t.chapter]
                     THEN [hist EXCEPT !.spoiled = @ \cup {t.chapter}]
                     ELSE [hist EXCEPT !.last[t.chapter] = t.text]
    BY <1>2 DEF Submit
  <2>2. t \in Task
    BY <1>2
  <2>3. ch' \in Seq(Task) /\ Len(ch') <= Capacity
    BY <1>2, <2>1, <2>2, AppendProperties, QueueAssumption DEF Submit
  <2>4. hist' \in Hist
    BY <2>1, <2>2 DEF Hist
  <2>5. writer' \in [Writers -> SUBSET Task]
    BY <1>2 DEF Submit
  <2> QED
    BY <1>2, <2>3, <2>4, <2>5 DEF Submit
<1>3. ASSUME NEW w \in Writers, SubmitDrops(w) PROVE TypeOK'
  <2>1. hist' \in Hist
    <3>1. {t.chapter : t \in writer[w]} \in SUBSET Chapters
      OBVIOUS
    <3> QED
      BY <1>3, <3>1, SpoilType DEF SubmitDrops
  <2>2. writer' \in [Writers -> SUBSET Task]
    BY <1>3 DEF SubmitDrops
  <2> QED
    BY <1>3, <2>1, <2>2 DEF SubmitDrops
<1>4. CASE Receive
  <2>1. ch' \in Seq(Task) /\ Len(ch') <= Capacity /\ Head(ch) \in Task
    BY <1>4, HeadTailProperties, QueueAssumption DEF Receive
  <2> QED
    BY <1>4, <2>1 DEF Receive
<1>5. CASE Fire
  BY <1>5 DEF Fire
<1>6. CASE Drain
  BY <1>6 DEF Drain
<1>7. CASE SkipTask
  <2>1. hist' \in Hist
    BY <1>7, SpoilType DEF SkipTask
  <2> QED
    BY <1>7, <2>1 DEF SkipTask
<1>8. CASE DeleteChunks
  <2>1. index' \in [Chapters -> Seq(Texts)]
    BY <1>8 DEF DeleteChunks
  <2>2. hist' \in Hist
    BY <1>8, SpoilType DEF DeleteChunks
  <2> QED
    BY <1>8, <2>1, <2>2 DEF DeleteChunks
<1>9. CASE IndexChunks
  <2>1. index' \in [Chapters -> Seq(Texts)]
    BY <1>9, AppendProperties DEF IndexChunks
  <2> QED
    BY <1>9, <2>1 DEF IndexChunks
<1>10. CASE IndexFails
  <2>1. hist' \in Hist
    BY <1>10, SpoilType DEF IndexFails
  <2>2. cur' \subseteq Task
    <3>1. PICK t \in cur : cur' = IF t.retried < MaxRetries
                                  THEN {[t EXCEPT !.retried = @ + 1]} ELSE {}
      BY <1>10 DEF IndexFails
    <3> QED
      BY <3>1, RetryType
  <2> QED
    BY <1>10, <2>1, <2>2 DEF IndexFails
<1>11. CASE Resubmit
  <2>1. PICK t \in cur : ch' = IF Len(ch) < Capacity THEN Append(ch, t) ELSE ch
    BY <1>11 DEF Resubmit
  <2>2. ch' \in Seq(Task) /\ Len(ch') <= Capacity
    BY <2>1, AppendProperties, QueueAssumption
  <2> QED
    BY <1>11, <2>2 DEF Resubmit
<1>12. CASE BatchDone
  BY <1>12 DEF BatchDone
<1>13. CASE Stop
  BY <1>13 DEF Stop
<1>14. CASE RebuildDrops
  <2>1. index' \in [Chapters -> Seq(Texts)]
    BY <1>14, DroppedType DEF RebuildDrops
  <2>2. hist' \in Hist
    BY <1>14, SpoilType DEF RebuildDrops
  <2>3. rebuilds' \in [calls : 0..MaxRebuilds, running : BOOLEAN]
    BY <1>14, QueueAssumption DEF RebuildDrops
  <2> QED
    BY <1>14, <2>1, <2>2, <2>3 DEF RebuildDrops
<1>15. ASSUME NEW c \in Chapters, RebuildReads(c) PROVE TypeOK'
  <2>1. hist' \in Hist
    BY <1>15, SpoilType DEF RebuildReads
  <2>2. batch' \subseteq Chapters \X Texts
    BY <1>15 DEF RebuildReads
  <2> QED
    BY <1>15, <2>1, <2>2 DEF RebuildReads
<1>16. CASE RebuildIndexes
  <2>1. index' \in [Chapters -> Seq(Texts)]
    <3>1. ASSUME NEW c \in Chapters, \E x \in batch : x[1] = c
          PROVE  (CHOOSE x \in batch : x[1] = c)[2] \in Texts
      BY <3>1
    <3> QED
      BY <1>16, <3>1, AppendProperties DEF RebuildIndexes
  <2> QED
    BY <1>16, <2>1 DEF RebuildIndexes
<1>17. CASE RebuildFails
  <2>1. hist' \in Hist
    BY <1>17, SpoilType DEF RebuildFails
  <2>2. index' \in [Chapters -> Seq(Texts)]
    BY <1>17, DroppedType DEF RebuildFails
  <2> QED
    BY <1>17, <2>1, <2>2 DEF RebuildFails
<1>18. CASE RebuildEnds
  BY <1>18 DEF RebuildEnds
<1> QED
  BY <1>1, <1>2, <1>3, <1>4, <1>5, <1>6, <1>7, <1>8, <1>9, <1>10, <1>11, <1>12,
     <1>13, <1>14, <1>15, <1>16, <1>17, <1>18 DEF Next, Consume

\* What the consumer holds follows its stage.
LEMMA StagesStep ==
  ASSUME TypeOK, ConsumerStages, Next
  PROVE  ConsumerStages'
<1> USE TaskFields DEF ConsumerStages, input, queue, consumer, rebuild
<1>1. ASSUME NEW w \in Writers, NEW c \in Chapters, Store(w, c) PROVE ConsumerStages'
  BY <1>1 DEF Store
<1>2. ASSUME NEW w \in Writers, Submit(w) PROVE ConsumerStages'
  <2>1. hist.spoiled \subseteq hist'.spoiled
    BY <1>2 DEF Submit, TypeOK, Hist
  <2> QED
    BY <1>2, <2>1 DEF Submit
<1>3. ASSUME NEW w \in Writers, SubmitDrops(w) PROVE ConsumerStages'
  <2>1. hist.spoiled \subseteq hist'.spoiled
    BY <1>3 DEF SubmitDrops, Spoil, TypeOK, Hist
  <2> QED
    BY <1>3, <2>1 DEF SubmitDrops
<1>4. CASE Receive \/ Fire \/ Drain \/ IndexChunks \/ Resubmit \/ BatchDone \/ Stop
  BY <1>4 DEF TypeOK, Receive, Fire, Drain, IndexChunks, Resubmit, BatchDone, Stop
<1>5. CASE SkipTask
  BY <1>5 DEF SkipTask
<1>6. CASE DeleteChunks
  BY <1>6 DEF DeleteChunks
<1>7. CASE IndexFails
  <2>1. PICK t \in cur :
          /\ stage' = IF t.retried < MaxRetries THEN "retry" ELSE "work"
          /\ cur' = IF t.retried < MaxRetries THEN {[t EXCEPT !.retried = @ + 1]} ELSE {}
          /\ Spoil({t.chapter})
    BY <1>7 DEF IndexFails
  <2>2. t \in Task
    BY DEF TypeOK
  <2>3. t.chapter \in hist'.spoiled
    BY <2>1, <2>2, SpoilType
  <2> QED
    BY <1>7, <2>1, <2>2, <2>3, RetryType DEF IndexFails
<1>8. CASE RebuildDrops \/ RebuildFails \/ RebuildEnds \/ \E c \in Chapters : RebuildReads(c)
  <2>1. hist.spoiled \subseteq hist'.spoiled
    BY <1>8 DEF RebuildDrops, RebuildFails, RebuildEnds, RebuildReads, Spoil, TypeOK, Hist
  <2> QED
    BY <1>8, <2>1 DEF RebuildDrops, RebuildFails, RebuildEnds, RebuildReads
<1>9. CASE RebuildIndexes
  BY <1>9 DEF RebuildIndexes
<1> QED
  BY <1>1, <1>2, <1>3, <1>4, <1>5, <1>6, <1>7, <1>8, <1>9 DEF Next, Consume

\* The batch of a rebuild never holds a chapter twice.
LEMMA RebuildStep ==
  ASSUME TypeOK, RebuildStages, Next
  PROVE  RebuildStages'
<1> USE DEF RebuildStages, input, queue, consumer, rebuild
<1>1. CASE \/ \E w \in Writers :
               (\E c \in Chapters : Store(w, c)) \/ Submit(w) \/ SubmitDrops(w)
           \/ Stop
  BY <1>1 DEF Store, Submit, SubmitDrops, Stop
<1>2. CASE Consume
  BY <1>2 DEF Consume, Receive, Fire, Drain, SkipTask, DeleteChunks, IndexChunks,
     IndexFails, Resubmit, BatchDone
<1>3. CASE RebuildDrops
  BY <1>3 DEF RebuildDrops, TypeOK
<1>4. ASSUME NEW c \in Chapters, RebuildReads(c) PROVE RebuildStages'
  BY <1>4 DEF RebuildReads
<1>5. CASE RebuildIndexes \/ RebuildFails \/ RebuildEnds
  BY <1>5 DEF RebuildIndexes, RebuildFails, RebuildEnds, TypeOK
<1> QED
  BY <1>1, <1>2, <1>3, <1>4, <1>5 DEF Next

\* A text is submitted by the writer that stored it.
LEMMA StoredStep ==
  ASSUME TypeOK, StoredNext, Next
  PROVE  StoredNext'
<1> USE TaskFields DEF input, queue, consumer, rebuild
<1>1. ASSUME NEW w \in Writers, NEW c \in Chapters, Store(w, c) PROVE StoredNext'
  <2> DEFINE t == [chapter |-> c, text |-> Newest + 1, retried |-> 0]
  <2>1. /\ Newest \in Texts
        /\ \A d \in Chapters : file[d] <= Newest
    BY NewestIsMax
  <2>2. /\ writer[w] = {}
        /\ file' = [file EXCEPT ![c] = Newest + 1]
        /\ writer' = [writer EXCEPT ![w] = {t}]
        /\ hist' = hist
    BY <1>1 DEF Store
  <2>3. \A d \in Chapters : file[d] \in Nat /\ file'[d] \in Nat /\ file[d] <= file'[d]
    BY <2>1, <2>2, QueueAssumption DEF TypeOK, Texts
  <2>4. ASSUME NEW v \in Writers
        PROVE  /\ \A x, y \in writer'[v] : x = y
               /\ \A x \in writer'[v] : x.text <= file'[x.chapter]
    <3>1. CASE v = w
      BY <3>1, <2>1, <2>2 DEF TypeOK, Texts
    <3>2. CASE v # w
      <4>1. writer'[v] = writer[v] /\ writer[v] \subseteq Task
        BY <2>2, <3>2 DEF TypeOK
      <4> QED
        BY <4>1, <2>3 DEF StoredNext, Texts
    <3> QED
      BY <3>1, <3>2
  <2>5. ASSUME NEW d \in Chapters \ hist'.spoiled, hist'.last[d] # file'[d]
        PROVE  \E v \in Writers : \E x \in writer'[v] : x.chapter = d /\ x.text = file'[d]
    <3>1. CASE d = c
      BY <3>1, <2>2 DEF TypeOK
    <3>2. CASE d # c
      BY <3>2, <2>2, <2>5 DEF TypeOK, StoredNext
    <3> QED
      BY <3>1, <3>2
  <2> QED
    BY <2>4, <2>5 DEF StoredNext
<1>2. ASSUME NEW w \in Writers, Submit(w) PROVE StoredNext'
  <2>1. PICK t \in writer[w] :
          hist' = IF t.text < hist.last[t.chapter]
                  THEN [hist EXCEPT !.spoiled = @ \cup {t.chapter}]
                  ELSE [hist EXCEPT !.last[t.chapter] = t.text]
    BY <1>2 DEF Submit
  <2>2. /\ writer' = [writer EXCEPT ![w] = {}]
        /\ file' = file
        /\ t \in Task /\ writer[w] = {t}
    BY <1>2, <2>1 DEF Submit, TypeOK, StoredNext
  <2>3. ASSUME NEW d \in Chapters \ hist'.spoiled, hist'.last[d] # file[d]
        PROVE  \E v \in Writers : \E x \in writer'[v] : x.chapter = d /\ x.text = file[d]
    <3>1. d \notin hist.spoiled /\ (d # t.chapter \/ ~ t.text < hist.last[d])
      BY <2>1, <2>2, <2>3 DEF TypeOK, Hist
    <3>2. ~ (t.chapter = d /\ t.text = file[d])
      BY <2>1, <2>2, <2>3, <3>1 DEF TypeOK, Hist
    <3>3. hist.last[d] # file[d]
      <4>1. CASE d # t.chapter
        BY <4>1, <2>1, <2>2, <2>3 DEF TypeOK, Hist
      <4>2. CASE d = t.chapter
        <5>1. t.text <= file[d] /\ ~ t.text < hist.last[d] /\ t.text # file[d]
          BY <4>2, <3>1, <3>2, <2>2 DEF StoredNext
        <5>2. t.text \in Nat /\ file[d] \in Nat /\ hist.last[d] \in Nat
          BY <2>2 DEF TypeOK, Hist, Texts
        <5> QED
          BY <5>1, <5>2
      <4> QED
        BY <4>1, <4>2
    <3>4. PICK v \in Writers : \E x \in writer[v] : x.chapter = d /\ x.text = file[d]
      BY <3>1, <3>3 DEF StoredNext
    <3>5. v # w
      BY <3>2, <3>4, <2>2
    <3> QED
      BY <3>4, <3>5, <2>2 DEF TypeOK
  <2>4. ASSUME NEW v \in Writers
        PROVE  /\ \A x, y \in writer'[v] : x = y
               /\ \A x \in writer'[v] : x.text <= file[x.chapter]
    BY <2>2 DEF StoredNext, TypeOK
  <2> QED
    BY <2>2, <2>3, <2>4 DEF StoredNext
<1>3. ASSUME NEW w \in Writers, SubmitDrops(w) PROVE StoredNext'
  <2>1. {t.chapter : t \in writer[w]} \in SUBSET Chapters
    BY DEF TypeOK
  <2>2. /\ writer' = [writer EXCEPT ![w] = {}]
        /\ file' = file
        /\ hist'.last = hist.last
        /\ hist'.spoiled = hist.spoiled \cup {t.chapter : t \in writer[w]}
    BY <1>3, <2>1, SpoilType DEF SubmitDrops
  <2>3. ASSUME NEW v \in Writers
        PROVE  /\ \A x, y \in writer'[v] : x = y
               /\ \A x \in writer'[v] : x.text <= file[x.chapter]
    BY <2>2 DEF StoredNext, TypeOK
  <2>4. ASSUME NEW d \in Chapters \ hist'.spoiled, hist.last[d] # file[d]
        PROVE  \E v \in Writers : \E x \in writer'[v] : x.chapter = d /\ x.text = file[d]
    <3>1. PICK v \in Writers : \E x \in writer[v] : x.chapter = d /\ x.text = file[d]
      BY <2>2, <2>4 DEF StoredNext
    <3>2. v # w
      BY <3>1, <2>2, <2>4
    <3> QED
      BY <3>1, <3>2, <2>2 DEF TypeOK
  <2> QED
    BY <2>2, <2>3, <2>4 DEF StoredNext
<1>4. CASE \/ Consume \/ Stop
           \/ RebuildDrops \/ (\E c \in Chapters : RebuildReads(c))
           \/ RebuildIndexes \/ RebuildFails \/ RebuildEnds
  <2>1. writer' = writer /\ file' = file
    BY <1>4 DEF Consume, Stop, RebuildDrops, RebuildReads, RebuildIndexes, RebuildFails,
       RebuildEnds, Receive, Fire, Drain, SkipTask, DeleteChunks, IndexChunks,
       IndexFails, Resubmit, BatchDone
  <2>2. hist'.last = hist.last /\ hist.spoiled \subseteq hist'.spoiled
    BY <1>4 DEF Consume, Stop, RebuildDrops, RebuildReads, RebuildIndexes, RebuildFails,
       RebuildEnds, Receive, Fire, Drain, SkipTask, DeleteChunks, IndexChunks,
       IndexFails, Resubmit, BatchDone, Spoil, TypeOK, Hist
  <2> QED
    BY <2>1, <2>2 DEF StoredNext
<1> QED
  BY <1>1, <1>2, <1>3, <1>4 DEF Next

\* A submitted task goes to the end of the channel and its text is the last one
\* submitted; from there the order is kept.
LEMMA LastStep ==
  ASSUME TypeOK, ConsumerStages, LastQueued, Next
  PROVE  LastQueued'
<1> USE TaskFields DEF input, queue, consumer, rebuild, InChannel, InPending
<1>1. ASSUME NEW w \in Writers, Submit(w) PROVE LastQueued'
  <2>1. PICK t \in writer[w] :
          /\ ch' = Append(ch, t)
          /\ hist' = IF t.text < hist.last[t.chapter]
                     THEN [hist EXCEPT !.spoiled = @ \cup {t.chapter}]
                     ELSE [hist EXCEPT !.last[t.chapter] = t.text]
    BY <1>1 DEF Submit
  <2>2. t \in Task /\ pending' = pending /\ work' = work /\ cur' = cur
    BY <1>1, <2>1 DEF Submit, TypeOK
  <2>3. /\ Len(ch') = Len(ch) + 1 /\ Len(ch) \in Nat
        /\ \A i \in 1..Len(ch) : ch'[i] = ch[i]
        /\ ch'[Len(ch) + 1] = t
        /\ DOMAIN ch = 1..Len(ch) /\ DOMAIN ch' = 1..Len(ch')
    BY <2>1, <2>2, AppendProperties, LenProperties DEF TypeOK
  <2>4. SUFFICES ASSUME NEW c \in Chapters \ hist'.spoiled
                 PROVE  /\ \A i \in DOMAIN ch' :
                             ch'[i].chapter = c
                               /\ (\A j \in DOMAIN ch' : j > i => ch'[j].chapter # c)
                               => ch'[i].text = hist'.last[c]
                        /\ InChannel(c)' \/ (t.chapter # c /\ ~ InChannel(c))
                        /\ t.chapter # c => hist'.last[c] = hist.last[c]
                        /\ c \notin hist.spoiled
    BY <2>2, <2>4 DEF LastQueued
  <2>5. c \notin hist.spoiled /\ (t.chapter # c => hist'.last[c] = hist.last[c])
    BY <2>1, <2>2 DEF TypeOK, Hist
  <2>6. t.chapter = c => hist'.last[c] = t.text
    BY <2>1, <2>2 DEF TypeOK, Hist
  <2>7. InChannel(c)' \/ (t.chapter # c /\ ~ InChannel(c))
    <3>1. Len(ch) + 1 \in DOMAIN ch'
      BY <2>3
    <3>2. CASE t.chapter = c
      BY <3>1, <3>2, <2>3
    <3>3. ASSUME NEW i \in DOMAIN ch, ch[i].chapter = c PROVE InChannel(c)'
      <4>1. i \in DOMAIN ch' /\ ch'[i] = ch[i]
        BY <2>3
      <4> QED
        BY <3>3, <4>1
    <3> QED
      BY <3>2, <3>3
  <2>8. ASSUME NEW i \in DOMAIN ch', ch'[i].chapter = c,
               \A j \in DOMAIN ch' : j > i => ch'[j].chapter # c
        PROVE  ch'[i].text = hist'.last[c]
    <3>1. CASE i = Len(ch) + 1
      BY <2>3, <2>6, <2>8, <3>1
    <3>2. CASE i # Len(ch) + 1
      <4>1. i \in DOMAIN ch /\ ch'[i] = ch[i] /\ Len(ch) + 1 \in DOMAIN ch' /\ Len(ch) + 1 > i
        BY <2>3, <3>2
      <4>2. t.chapter # c
        BY <4>1, <2>8, <2>3
      <4>3. \A j \in DOMAIN ch : j > i => ch[j].chapter # c
        BY <2>3, <2>8
      <4> QED
        BY <4>1, <4>2, <4>3, <2>5, <2>8 DEF LastQueued
    <3> QED
      BY <3>1, <3>2
  <2> QED
    BY <2>5, <2>7, <2>8
<1>2. CASE Receive
  <2>1. /\ ch # << >>
        /\ ch' = Tail(ch)
        /\ pending' = {t \in pending : t.chapter # Head(ch).chapter} \cup {Head(ch)}
        /\ work' = work /\ cur' = cur /\ hist' = hist
    BY <1>2 DEF Receive
  <2>2. /\ Len(ch') = Len(ch) - 1 /\ Len(ch) \in Nat \ {0}
        /\ DOMAIN ch = 1..Len(ch) /\ DOMAIN ch' = 1..Len(ch')
        /\ Head(ch) = ch[1] /\ Head(ch) \in Task
        /\ \A i \in DOMAIN ch' : i + 1 \in DOMAIN ch /\ ch'[i] = ch[i + 1]
        /\ \A j \in DOMAIN ch : j > 1 => j - 1 \in DOMAIN ch' /\ ch'[j - 1] = ch[j]
    BY <2>1, HeadTailProperties, LenProperties, EmptySeq DEF TypeOK
  <2>3. ASSUME NEW c \in Chapters \ hist.spoiled, NEW i \in DOMAIN ch', ch'[i].chapter = c,
               \A j \in DOMAIN ch' : j > i => ch'[j].chapter # c
        PROVE  ch'[i].text = hist.last[c]
    <3>1. \A j \in DOMAIN ch : j > i + 1 => ch[j].chapter # c
      <4> SUFFICES ASSUME NEW j \in DOMAIN ch, j > i + 1
                   PROVE  ch[j].chapter # c
        OBVIOUS
      <4>1. j - 1 \in DOMAIN ch' /\ j - 1 > i /\ ch'[j - 1] = ch[j]
        BY <2>2
      <4> QED
        BY <4>1, <2>3
    <3> QED
      BY <2>2, <2>3, <3>1 DEF LastQueued
  <2>4. ASSUME NEW c \in Chapters \ hist.spoiled, ~ InChannel(c)', Head(ch).chapter = c
        PROVE  Head(ch).text = hist.last[c]
    <3>1. \A j \in DOMAIN ch : j > 1 => ch[j].chapter # c
      BY <2>2, <2>4
    <3> QED
      BY <2>2, <2>4, <3>1 DEF LastQueued
  <2>5. ASSUME NEW c \in Chapters, ~ InChannel(c)', Head(ch).chapter # c
        PROVE  ~ InChannel(c)
    <3> SUFFICES ASSUME NEW i \in DOMAIN ch, ch[i].chapter = c PROVE FALSE
      OBVIOUS
    <3>1. i > 1
      BY <2>2, <2>5
    <3> QED
      BY <3>1, <2>2, <2>5
  <2>6. ASSUME NEW c \in Chapters \ hist.spoiled, ~ InChannel(c)',
               NEW t \in pending', t.chapter = c
        PROVE  t.text = hist.last[c]
    <3>1. CASE t = Head(ch)
      BY <2>4, <2>6, <3>1
    <3>2. CASE t # Head(ch)
      BY <2>1, <2>5, <2>6, <3>2 DEF LastQueued
    <3> QED
      BY <3>1, <3>2
  <2>7. ASSUME NEW c \in Chapters \ hist.spoiled, ~ InChannel(c)', ~ InPending(c)',
               NEW t \in work \cup cur, t.chapter = c
        PROVE  t.text = hist.last[c]
    <3>1. Head(ch).chapter # c /\ ~ InPending(c)
      BY <2>1, <2>7
    <3> QED
      BY <3>1, <2>5, <2>7 DEF LastQueued
  <2> QED
    BY <2>1, <2>3, <2>6, <2>7 DEF LastQueued
<1>3. CASE Fire \/ Drain
  BY <1>3 DEF Fire, Drain, LastQueued, ConsumerStages
<1>4. CASE SkipTask
  <2>1. /\ ch' = ch /\ pending' = pending /\ work' \subseteq work /\ cur' = cur
        /\ hist'.last = hist.last /\ hist.spoiled \subseteq hist'.spoiled
    BY <1>4 DEF SkipTask, Spoil, TypeOK, Hist
  <2> QED
    BY <2>1 DEF LastQueued
<1>5. CASE DeleteChunks \/ IndexChunks
  <2>1. /\ ch' = ch /\ pending' = pending /\ work' \cup cur' \subseteq work \cup cur
        /\ hist'.last = hist.last /\ hist.spoiled \subseteq hist'.spoiled
    BY <1>5 DEF DeleteChunks, IndexChunks, Spoil, TypeOK, Hist
  <2> QED
    BY <2>1 DEF LastQueued
<1>6. CASE IndexFails
  <2>1. PICK t \in cur :
          /\ cur' = IF t.retried < MaxRetries THEN {[t EXCEPT !.retried = @ + 1]} ELSE {}
          /\ Spoil({t.chapter})
    BY <1>6 DEF IndexFails
  <2>2. t \in Task
    BY DEF TypeOK
  <2>3. hist'.last = hist.last /\ hist'.spoiled = hist.spoiled \cup {t.chapter}
    BY <2>1, <2>2, SpoilType
  <2>4. \A u \in cur' : u.chapter \in hist'.spoiled
    BY <2>1, <2>2, <2>3, RetryType
  <2>5. ch' = ch /\ pending' = pending /\ work' = work
    BY <1>6 DEF IndexFails
  <2> QED
    BY <2>3, <2>4, <2>5 DEF LastQueued
<1>7. CASE Resubmit
  <2>1. PICK t \in cur : ch' = IF Len(ch) < Capacity THEN Append(ch, t) ELSE ch
    BY <1>7 DEF Resubmit
  <2>2. /\ t \in Task /\ t.chapter \in hist.spoiled
        /\ pending' = pending /\ work' = work /\ cur' = {} /\ hist' = hist
    BY <1>7 DEF Resubmit, ConsumerStages, TypeOK
  <2>3. CASE ch' = ch
    BY <2>2, <2>3 DEF LastQueued
  <2>4. CASE ch' = Append(ch, t)
    <3>1. /\ Len(ch') = Len(ch) + 1 /\ Len(ch) \in Nat
          /\ DOMAIN ch = 1..Len(ch) /\ DOMAIN ch' = 1..Len(ch')
          /\ \A i \in DOMAIN ch : i \in DOMAIN ch' /\ ch'[i] = ch[i]
          /\ \A i \in DOMAIN ch' : i \in DOMAIN ch \/ ch'[i] = t
      BY <2>4, <2>2, AppendProperties, LenProperties DEF TypeOK
    <3>2. \A c \in Chapters \ hist.spoiled : \A i \in DOMAIN ch' :
            ch'[i].chapter = c => i \in DOMAIN ch
      BY <3>1, <2>2
    <3> QED
      BY <3>1, <3>2, <2>2 DEF LastQueued
  <2> QED
    BY <2>1, <2>3, <2>4
<1>8. CASE \/ \E w \in Writers : (\E c \in Chapters : Store(w, c)) \/ SubmitDrops(w)
           \/ BatchDone \/ Stop
           \/ RebuildDrops \/ (\E c \in Chapters : RebuildReads(c))
           \/ RebuildIndexes \/ RebuildFails \/ RebuildEnds
  <2>1. ch' = ch /\ pending' = pending /\ work' = work /\ cur' = cur
    BY <1>8 DEF Store, SubmitDrops, BatchDone, Stop, RebuildDrops, RebuildReads,
       RebuildIndexes, RebuildFails, RebuildEnds
  <2>2. hist'.last = hist.last /\ hist.spoiled \subseteq hist'.spoiled
    BY <1>8 DEF Store, SubmitDrops, BatchDone, Stop, RebuildDrops, RebuildReads,
       RebuildIndexes, RebuildFails, RebuildEnds, Spoil, TypeOK, Hist
  <2> QED
    BY <2>1, <2>2 DEF LastQueued
<1> QED
  BY <1>1, <1>2, <1>3, <1>4, <1>5, <1>6, <1>7, <1>8 DEF Next, Consume

\* A chapter that has a task with a writer or in the queue keeps one, until its
\* refresh is done or something goes wrong with it.
LEMMA OnTheWay ==
  ASSUME TypeOK, ConsumerStages, StoredNext, Next,
         NEW c \in Chapters \ hist'.spoiled,
         InQueue(c) \/ Held(c),
         ~ (IndexChunks /\ \E t \in cur : t.chapter = c)
  PROVE  InQueue(c)' \/ Held(c)'
<1> USE TaskFields DEF input, queue, consumer, rebuild, InQueue, InChannel, InPending,
       InWork, Held
<1>1. ASSUME NEW w \in Writers, NEW d \in Chapters, Store(w, d)
      PROVE  InQueue(c)' \/ Held(c)'
  BY <1>1 DEF Store, TypeOK
<1>2. ASSUME NEW w \in Writers, Submit(w) PROVE InQueue(c)' \/ Held(c)'
  <2>1. PICK t \in writer[w] : ch' = Append(ch, t)
    BY <1>2 DEF Submit
  <2>2. /\ DOMAIN ch' = 1..(Len(ch) + 1) /\ DOMAIN ch = 1..Len(ch) /\ Len(ch) \in Nat
        /\ \A i \in DOMAIN ch : i \in DOMAIN ch' /\ ch'[i] = ch[i]
        /\ Len(ch) + 1 \in DOMAIN ch' /\ ch'[Len(ch) + 1] = t
    BY <2>1, AppendProperties, LenProperties DEF TypeOK
  <2>3. CASE InChannel(c)
    BY <2>2, <2>3
  <2>4. CASE InPending(c) \/ InWork(c)
    BY <1>2, <2>4 DEF Submit
  <2>5. ASSUME NEW v \in Writers, NEW u \in writer[v], u.chapter = c
        PROVE  InQueue(c)' \/ Held(c)'
    <3>1. CASE v = w
      <4>1. u = t
        BY <2>5, <3>1 DEF StoredNext
      <4> QED
        BY <2>2, <2>5, <4>1
    <3>2. CASE v # w
      <4>1. writer'[v] = writer[v]
        BY <1>2, <3>2 DEF Submit, TypeOK
      <4> QED
        BY <4>1, <2>5
    <3> QED
      BY <3>1, <3>2
  <2> QED
    BY <2>3, <2>4, <2>5
<1>3. ASSUME NEW w \in Writers, SubmitDrops(w) PROVE InQueue(c)' \/ Held(c)'
  <2>1. {t.chapter : t \in writer[w]} \in SUBSET Chapters
    BY DEF TypeOK
  <2>2. /\ writer' = [writer EXCEPT ![w] = {}]
        /\ c \notin {t.chapter : t \in writer[w]}
        /\ ch' = ch /\ pending' = pending /\ work' = work /\ cur' = cur
    BY <1>3, <2>1, SpoilType DEF SubmitDrops
  <2>3. ASSUME NEW v \in Writers, NEW u \in writer[v], u.chapter = c
        PROVE  Held(c)'
    <3>1. v # w
      BY <2>2, <2>3
    <3>2. writer'[v] = writer[v]
      BY <2>2, <3>1 DEF TypeOK
    <3> QED
      BY <3>2, <2>3
  <2> QED
    BY <2>2, <2>3
<1>4. CASE Receive
  <2>1. /\ writer' = writer /\ work' = work /\ cur' = cur
        /\ pending' = {t \in pending : t.chapter # Head(ch).chapter} \cup {Head(ch)}
    BY <1>4 DEF Receive
  <2>2. /\ Len(ch) \in Nat \ {0}
        /\ DOMAIN ch = 1..Len(ch)
        /\ Head(ch) = ch[1]
        /\ \A j \in DOMAIN ch : j # 1 => j - 1 \in DOMAIN ch' /\ ch'[j - 1] = ch[j]
    BY <1>4, HeadTailProperties, LenProperties, EmptySeq DEF Receive, TypeOK
  <2>3. ASSUME NEW j \in DOMAIN ch, ch[j].chapter = c PROVE InQueue(c)'
    <3>1. CASE j = 1
      BY <2>1, <2>2, <2>3, <3>1
    <3>2. CASE j # 1
      BY <2>2, <2>3, <3>2
    <3> QED
      BY <3>1, <3>2
  <2> QED
    BY <2>1, <2>3
<1>5. CASE Fire \/ Drain
  BY <1>5 DEF Fire, Drain, ConsumerStages
<1>6. CASE SkipTask
  <2>1. PICK t \in work : work' = work \ {t} /\ Spoil({t.chapter})
    BY <1>6 DEF SkipTask
  <2>2. t \in Task
    BY DEF TypeOK
  <2>3. t.chapter # c
    BY <2>1, <2>2, SpoilType
  <2> QED
    BY <1>6, <2>1, <2>3 DEF SkipTask
<1>7. CASE DeleteChunks
  BY <1>7 DEF DeleteChunks, ConsumerStages
<1>8. CASE IndexChunks
  BY <1>8 DEF IndexChunks
<1>9. CASE IndexFails
  <2>1. PICK t \in cur : Spoil({t.chapter})
    BY <1>9 DEF IndexFails
  <2>2. t \in Task
    BY DEF TypeOK
  <2>3. t.chapter # c
    BY <2>1, <2>2, SpoilType
  <2> QED
    BY <1>9, <2>3 DEF IndexFails, ConsumerStages
<1>10. CASE Resubmit
  <2>1. PICK t \in cur : ch' = IF Len(ch) < Capacity THEN Append(ch, t) ELSE ch
    BY <1>10 DEF Resubmit
  <2>2. \A i \in DOMAIN ch : i \in DOMAIN ch' /\ ch'[i] = ch[i]
    BY <2>1, AppendProperties, LenProperties DEF TypeOK
  <2>3. \A u \in cur : u.chapter # c
    BY <1>10 DEF Resubmit, ConsumerStages
  <2> QED
    BY <1>10, <2>2, <2>3 DEF Resubmit
<1>11. CASE \/ BatchDone \/ Stop
            \/ RebuildDrops \/ (\E d \in Chapters : RebuildReads(d))
            \/ RebuildIndexes \/ RebuildFails \/ RebuildEnds
  BY <1>11 DEF BatchDone, Stop, RebuildDrops, RebuildReads, RebuildIndexes, RebuildFails,
     RebuildEnds
<1> QED
  BY <1>1, <1>2, <1>3, <1>4, <1>5, <1>6, <1>7, <1>8, <1>9, <1>10, <1>11 DEF Next, Consume

\* The first chunks of a chapter.
LEMMA AppendEmpty == \A v : Append(<< >>, v) = <<v>>
OBVIOUS

\* Nothing unspoils a chapter.
LEMMA SpoiledGrows ==
  ASSUME TypeOK, Next
  PROVE  hist.spoiled \subseteq hist'.spoiled
<1>1. hist \in Hist
  BY DEF TypeOK
<1> QED
  BY <1>1 DEF Next, Consume, Store, Submit, SubmitDrops, Receive, Fire, Drain, SkipTask,
     DeleteChunks, IndexChunks, IndexFails, Resubmit, BatchDone, Stop, RebuildDrops,
     RebuildReads, RebuildIndexes, RebuildFails, RebuildEnds, Spoil, Hist, input, queue,
     consumer, rebuild

\* A rebuild beside the queue ends with what the files hold, unless it met a
\* refresh half done.
LEMMA RebuildFreshStep ==
  ASSUME TypeOK, ConsumerStages, StoredNext, RebuildStages, RebuildFresh, Next
  PROVE  RebuildFresh'
<1> SUFFICES ASSUME rebuilds'.running, NEW c \in Chapters \ hist'.spoiled
             PROVE  /\ \A t \in cur' : t.chapter # c
                    /\ c \in unread' \/ Read(c)' => index'[c] = << >>
                    /\ \/ InQueue(c)' \/ Held(c)'
                       \/ /\ \A x \in batch' : x[1] = c => x[2] = file'[c]
                          /\ c \notin unread' /\ ~ Read(c)' => index'[c] = <<file'[c]>>
  BY DEF RebuildFresh
<1> USE TaskFields DEF input, queue, consumer, rebuild, Read
<1>1. c \in Chapters \ hist.spoiled
  BY SpoiledGrows
<1>2. CASE RebuildDrops
  <2>1. {t.chapter : t \in cur} \in SUBSET Chapters
    BY DEF TypeOK
  <2>2. PICK S \in SUBSET Chapters : /\ Spoil(S)
                                   /\ \/ index' = Dropped /\ S = {t.chapter : t \in cur}
                                      \/ S = Chapters
    BY <1>2, <2>1 DEF RebuildDrops
  <2>3. c \notin S
    BY <2>2, SpoilType
  <2> QED
    BY <1>2, <2>2, <2>3 DEF RebuildDrops, Dropped
<1>3. CASE ~ RebuildDrops
  <2>1. rebuilds.running
    <3>1. rebuilds' = rebuilds \/ RebuildFails \/ RebuildEnds
      BY <1>3 DEF Next, Consume, Store, Submit, SubmitDrops, Receive, Fire, Drain, SkipTask,
         DeleteChunks, IndexChunks, IndexFails, Resubmit, BatchDone, Stop, RebuildReads,
         RebuildIndexes
    <3>2. RebuildFails \/ RebuildEnds => ~ rebuilds'.running
      BY DEF RebuildFails, RebuildEnds, TypeOK
    <3> QED
      BY <3>1, <3>2
  <2>2. /\ \A t \in cur : t.chapter # c
        /\ c \in unread \/ Read(c) => index[c] = << >>
        /\ \/ InQueue(c) \/ Held(c)
           \/ /\ \A x \in batch : x[1] = c => x[2] = file[c]
              /\ c \notin unread /\ ~ Read(c) => index[c] = <<file[c]>>
    BY <1>1, <2>1 DEF RebuildFresh
  <2>3. InQueue(c) \/ Held(c) => InQueue(c)' \/ Held(c)'
    BY <2>2, OnTheWay
  <2>4. ASSUME NEW w \in Writers, NEW d \in Chapters, Store(w, d), d = c
        PROVE  Held(c)'
    BY <2>4 DEF Store, TypeOK, Held
  <2>5. CASE \E w \in Writers :
               (\E d \in Chapters : Store(w, d)) \/ Submit(w) \/ SubmitDrops(w)
    <3>1. CASE \E w \in Writers : Store(w, c)
      BY <3>1, <2>2, <2>4 DEF Store
    <3>2. CASE ~ \E w \in Writers : Store(w, c)
      <4>1. /\ file'[c] = file[c] /\ cur' = cur /\ index' = index /\ unread' = unread
            /\ batch' = batch
        BY <2>5, <3>2 DEF Store, Submit, SubmitDrops, TypeOK
      <4> QED
        BY <4>1, <2>2, <2>3
    <3> QED
      BY <3>1, <3>2
  <2>6. CASE Receive \/ Fire \/ Drain \/ SkipTask \/ Resubmit \/ BatchDone \/ Stop
    <3>1. /\ file' = file /\ cur' \subseteq cur /\ index' = index /\ unread' = unread
          /\ batch' = batch
      BY <2>6 DEF Receive, Fire, Drain, SkipTask, Resubmit, BatchDone, Stop
    <3> QED
      BY <3>1, <2>2, <2>3
  <2>7. CASE DeleteChunks
    <3>1. PICK t \in work, deleted \in BOOLEAN :
            /\ cur' = {t}
            /\ index' = IF deleted THEN [index EXCEPT ![t.chapter] = << >>] ELSE index
            /\ Spoil(IF deleted /\ ~ rebuilds.running THEN {} ELSE {t.chapter})
      BY <2>7 DEF DeleteChunks
    <3>2. t.chapter # c
      <4>1. t \in Task
        BY DEF TypeOK
      <4>2. Spoil({t.chapter})
        BY <3>1, <2>1
      <4> QED
        BY <4>1, <4>2, SpoilType
    <3>3. index'[c] = index[c]
      BY <3>1, <3>2 DEF TypeOK
    <3>4. file' = file /\ unread' = unread /\ batch' = batch
      BY <2>7 DEF DeleteChunks
    <3> QED
      BY <3>1, <3>2, <3>3, <3>4, <2>2, <2>3
  <2>8. CASE IndexChunks
    <3>1. index'[c] = index[c]
      BY <2>8, <2>2 DEF IndexChunks, TypeOK
    <3>2. file' = file /\ unread' = unread /\ batch' = batch /\ cur' = {}
      BY <2>8 DEF IndexChunks
    <3> QED
      BY <3>1, <3>2, <2>2, <2>3
  <2>9. CASE IndexFails
    <3>1. PICK t \in cur :
            cur' = IF t.retried < MaxRetries THEN {[t EXCEPT !.retried = @ + 1]} ELSE {}
      BY <2>9 DEF IndexFails
    <3>2. \A u \in cur' : u.chapter # c
      <4>1. t \in Task
        BY DEF TypeOK
      <4>2. CASE t.retried < MaxRetries
        <5>1. cur' = {[t EXCEPT !.retried = @ + 1]}
          BY <3>1, <4>2
        <5>2. [t EXCEPT !.retried = @ + 1].chapter # c
          BY <4>1, <4>2, <2>2, RetryType
        <5> QED
          BY <5>1, <5>2
      <4>3. CASE ~ (t.retried < MaxRetries)
        BY <3>1, <4>3
      <4> QED
        BY <4>2, <4>3
    <3>3. file' = file /\ unread' = unread /\ batch' = batch /\ index' = index
      BY <2>9 DEF IndexFails
    <3> QED
      BY <3>2, <3>3, <2>2, <2>3
  <2>10. ASSUME NEW d \in Chapters, RebuildReads(d)
         PROVE  /\ \A t \in cur' : t.chapter # c
                /\ c \in unread' \/ Read(c)' => index'[c] = << >>
                /\ \/ InQueue(c)' \/ Held(c)'
                   \/ /\ \A x \in batch' : x[1] = c => x[2] = file'[c]
                      /\ c \notin unread' /\ ~ Read(c)' => index'[c] = <<file'[c]>>
    <3>1. /\ d \in unread /\ unread' = unread \ {d}
          /\ \/ batch' = batch \cup {<<d, file[d]>>} /\ hist' = hist
             \/ batch' = batch /\ Spoil({d})
          /\ file' = file /\ cur' = cur /\ index' = index
      BY <2>10 DEF RebuildReads
    <3>2. batch' = batch => d # c
      <4>1. <<d, file[d]>> \notin batch
        BY <3>1 DEF RebuildStages
      <4> QED
        BY <3>1, <4>1, SpoilType
    <3>3. d = c => \A x \in batch : x[1] # c
      BY <3>1 DEF RebuildStages
    <3>4. CASE d = c
      <4>1. batch' = batch \cup {<<c, file[c]>>}
        BY <3>1, <3>2, <3>4
      <4>2. index'[c] = << >> /\ \A t \in cur' : t.chapter # c
        BY <3>1, <3>4, <2>2
      <4>3. Read(c)' /\ \A x \in batch' : x[1] = c => x[2] = file'[c]
        <5>1. <<c, file[c]>> \in batch'
          BY <4>1
        <5>2. \A x \in batch' : x[1] = c => x = <<c, file[c]>>
          BY <4>1, <3>3, <3>4
        <5> QED
          BY <3>1, <5>1, <5>2
      <4> QED
        BY <4>2, <4>3
    <3>5. CASE d # c
      <4>1. /\ c \in unread' <=> c \in unread
            /\ \A x : x[1] = c => (x \in batch' <=> x \in batch)
        BY <3>1, <3>5
      <4> QED
        BY <3>1, <4>1, <2>2, <2>3
    <3> QED
      BY <3>4, <3>5
  <2>11. CASE RebuildIndexes
    <3>1. /\ file' = file /\ cur' = cur /\ unread' = unread /\ batch' = {}
          /\ index'[c] = IF \E x \in batch : x[1] = c
                         THEN Append(index[c], (CHOOSE x \in batch : x[1] = c)[2])
                         ELSE index[c]
      BY <2>11 DEF RebuildIndexes
    <3>2. CASE \E x \in batch : x[1] = c
      <4>1. PICK x \in batch : x[1] = c
        BY <3>2
      <4>2. (CHOOSE y \in batch : y[1] = c) = x
        BY <4>1 DEF RebuildStages
      <4>3. c \notin unread
        BY <4>1 DEF RebuildStages
      <4>4. index'[c] = <<x[2]>>
        <5>1. index[c] = << >>
          BY <4>1, <2>2
        <5> QED
          BY <3>1, <4>1, <4>2, <5>1, AppendEmpty
      <4> QED
        BY <3>1, <4>1, <4>3, <4>4, <2>2, <2>3
    <3>3. CASE ~ \E x \in batch : x[1] = c
      BY <3>1, <3>3, <2>2, <2>3
    <3> QED
      BY <3>2, <3>3
  <2>12. ~ RebuildFails /\ ~ RebuildEnds
    BY DEF RebuildFails, RebuildEnds, TypeOK
  <2> QED
    BY <1>3, <2>5, <2>6, <2>7, <2>8, <2>9, <2>10, <2>11, <2>12 DEF Next, Consume
<1> QED
  BY <1>2, <1>3

\* Beside no rebuild, a refresh leaves the text of the task it worked off, and
\* the last one worked off holds the last text submitted.
LEMMA QueueFreshStep ==
  ASSUME TypeOK, ConsumerStages, StoredNext, LastQueued, RebuildStages, RebuildFresh,
         QueueFresh, Next
  PROVE  QueueFresh'
<1> SUFFICES ASSUME ~ rebuilds'.running, NEW c \in Chapters \ hist'.spoiled
             PROVE  /\ \A t \in cur' : t.chapter = c => index'[c] = << >>
                    /\ InQueue(c)' \/ Held(c)' \/ index'[c] = <<hist'.last[c]>>
  BY DEF QueueFresh
<1> USE TaskFields DEF input, queue, consumer, rebuild
<1>1. c \in Chapters \ hist.spoiled
  BY SpoiledGrows
<1>2. ~ RebuildFails /\ ~ RebuildDrops
  <2>1. RebuildFails => c \in hist'.spoiled
    BY SpoilType DEF RebuildFails
  <2> QED
    BY <2>1 DEF RebuildDrops
<1>3. CASE RebuildEnds
  <2>1. /\ rebuilds.running /\ unread = {} /\ batch = {}
        /\ file' = file /\ hist' = hist /\ cur' = cur /\ index' = index
    BY <1>3 DEF RebuildEnds
  <2>2. /\ \A t \in cur : t.chapter # c
        /\ InQueue(c) \/ Held(c) \/ index[c] = <<file[c]>>
    BY <1>1, <2>1 DEF RebuildFresh, Read
  <2>3. InQueue(c) \/ Held(c) => InQueue(c)' \/ Held(c)'
    BY <2>2, OnTheWay
  <2>4. Held(c) \/ hist.last[c] = file[c]
    BY <1>1 DEF StoredNext, Held
  <2> QED
    BY <2>1, <2>2, <2>3, <2>4
<1>4. CASE ~ RebuildEnds
  <2>1. ~ rebuilds.running
    <3>1. rebuilds' = rebuilds
      BY <1>2, <1>4 DEF Next, Consume, Store, Submit, SubmitDrops, Receive, Fire, Drain,
         SkipTask, DeleteChunks, IndexChunks, IndexFails, Resubmit, BatchDone, Stop,
         RebuildReads, RebuildIndexes
    <3> QED
      BY <3>1
  <2>2. /\ \A t \in cur : t.chapter = c => index[c] = << >>
        /\ InQueue(c) \/ Held(c) \/ index[c] = <<hist.last[c]>>
    BY <1>1, <2>1 DEF QueueFresh
  <2>3. ~ RebuildIndexes /\ \A d \in Chapters : ~ RebuildReads(d)
    BY <2>1 DEF RebuildIndexes, RebuildReads, RebuildStages
  <2>4. (InQueue(c) \/ Held(c)) /\ ~ (IndexChunks /\ \E t \in cur : t.chapter = c)
          => InQueue(c)' \/ Held(c)'
    BY OnTheWay
  <2>5. ASSUME NEW w \in Writers, NEW d \in Chapters, Store(w, d)
        PROVE  cur' = cur /\ index' = index /\ hist' = hist
    BY <2>5 DEF Store
  <2>6. ASSUME NEW w \in Writers, Submit(w)
        PROVE  /\ cur' = cur /\ index' = index
               /\ InQueue(c)' \/ hist'.last[c] = hist.last[c]
    <3>1. PICK t \in writer[w] :
            /\ ch' = Append(ch, t)
            /\ hist' = IF t.text < hist.last[t.chapter]
                       THEN [hist EXCEPT !.spoiled = @ \cup {t.chapter}]
                       ELSE [hist EXCEPT !.last[t.chapter] = t.text]
      BY <2>6 DEF Submit
    <3>2. t \in Task
      BY DEF TypeOK
    <3>3. t.chapter # c => hist'.last[c] = hist.last[c]
      BY <3>1, <3>2 DEF TypeOK, Hist
    <3>4. Len(ch) + 1 \in DOMAIN ch' /\ ch'[Len(ch) + 1] = t
      BY <3>1, <3>2, AppendProperties, LenProperties DEF TypeOK
    <3> QED
      BY <2>6, <3>3, <3>4 DEF Submit, InQueue, InChannel
  <2>7. ASSUME NEW w \in Writers, SubmitDrops(w)
        PROVE  cur' = cur /\ index' = index /\ hist'.last = hist.last
    BY <2>7 DEF SubmitDrops, Spoil, TypeOK, Hist
  <2>8. CASE ~ IndexChunks
             /\ (Receive \/ Fire \/ Drain \/ SkipTask \/ Resubmit \/ BatchDone \/ Stop)
    <3>1. cur' \subseteq cur /\ index' = index /\ hist'.last = hist.last
      BY <2>8 DEF Receive, Fire, Drain, SkipTask, Resubmit, BatchDone, Stop, Spoil, TypeOK,
         Hist
    <3> QED
      BY <2>8, <3>1, <2>2, <2>4
  <2>9. CASE DeleteChunks
    <3>1. PICK t \in work, deleted \in BOOLEAN :
            /\ cur' = {t}
            /\ index' = IF deleted THEN [index EXCEPT ![t.chapter] = << >>] ELSE index
            /\ Spoil(IF deleted /\ ~ rebuilds.running THEN {} ELSE {t.chapter})
      BY <2>9 DEF DeleteChunks
    <3>2. t \in Task
      BY DEF TypeOK
    <3>3. deleted \/ t.chapter # c
      BY <3>1, <3>2, SpoilType
    <3>4. hist'.last = hist.last
      BY <3>1, <3>2, SpoilType
    <3>5. CASE t.chapter = c
      BY <3>1, <3>3, <3>5 DEF TypeOK, InQueue, InWork
    <3>6. CASE t.chapter # c
      <4>1. index'[c] = index[c]
        BY <3>1, <3>2, <3>6 DEF TypeOK
      <4>2. ~ IndexChunks
        BY <2>9 DEF DeleteChunks, IndexChunks
      <4> QED
        BY <3>1, <3>4, <3>6, <4>1, <4>2, <2>2, <2>4
    <3> QED
      BY <3>5, <3>6
  <2>10. CASE IndexChunks
    <3>1. PICK t \in cur : index' = [index EXCEPT ![t.chapter] = Append(@, t.text)]
      BY <2>10 DEF IndexChunks
    <3>2. /\ cur' = {} /\ hist' = hist
          /\ ch' = ch /\ pending' = pending
      BY <2>10 DEF IndexChunks
    <3>3. CASE t.chapter = c
      <4>1. index'[c] = <<t.text>>
        <5>1. index'[c] = Append(index[c], t.text)
          BY <3>1, <3>3 DEF TypeOK
        <5> QED
          BY <5>1, <3>3, <2>2, AppendEmpty
      <4>2. InChannel(c)' \/ InPending(c)' \/ t.text = hist.last[c]
        BY <1>1, <3>2, <3>3 DEF LastQueued, InChannel, InPending
      <4> QED
        BY <3>2, <4>1, <4>2 DEF InQueue
    <3>4. CASE t.chapter # c
      <4>1. \A u \in cur : u.chapter # c
        BY <3>4 DEF ConsumerStages
      <4>2. index'[c] = index[c]
        BY <3>1, <3>4 DEF TypeOK
      <4> QED
        BY <3>2, <4>1, <4>2, <2>2, <2>4
    <3> QED
      BY <3>3, <3>4
  <2>11. CASE IndexFails
    <3>1. PICK t \in cur :
            /\ cur' = IF t.retried < MaxRetries THEN {[t EXCEPT !.retried = @ + 1]} ELSE {}
            /\ Spoil({t.chapter})
      BY <2>11 DEF IndexFails
    <3>2. t \in Task
      BY DEF TypeOK
    <3>3. t.chapter # c /\ hist'.last = hist.last
      BY <3>1, <3>2, SpoilType
    <3>4. \A u \in cur \cup cur' : u.chapter # c
      BY <3>1, <3>2, <3>3, RetryType DEF ConsumerStages
    <3>5. index' = index
      BY <2>11 DEF IndexFails
    <3> QED
      BY <3>3, <3>4, <3>5, <2>2, <2>4
  <2> QED
    <3>1. CASE ~ IndexChunks /\ \E w \in Writers :
                 (\E d \in Chapters : Store(w, d)) \/ Submit(w) \/ SubmitDrops(w)
      BY <3>1, <2>2, <2>4, <2>5, <2>6, <2>7
    <3> QED
      BY <1>2, <1>4, <2>3, <2>8, <2>9, <2>10, <2>11, <3>1 DEF Next, Consume
<1> QED
  BY <1>3, <1>4

\* A step that changes nothing keeps the invariant.
LEMMA Stutter ==
  ASSUME QueueInv, UNCHANGED vars
  PROVE  QueueInv'
<1> USE DEF vars, input, queue, consumer, rebuild
<1>1. TypeOK' /\ ConsumerStages'
  BY DEF QueueInv, TypeOK, ConsumerStages
<1>2. StoredNext' /\ RebuildStages'
  BY DEF QueueInv, StoredNext, RebuildStages
<1>3. /\ \A c \in Chapters : InChannel(c)' <=> InChannel(c)
      /\ \A c \in Chapters : InPending(c)' <=> InPending(c)
      /\ \A c \in Chapters : InWork(c)' <=> InWork(c)
      /\ \A c \in Chapters : Held(c)' <=> Held(c)
      /\ \A c \in Chapters : Read(c)' <=> Read(c)
  BY DEF InChannel, InPending, InWork, Held, Read
<1>4. LastQueued'
  BY <1>3 DEF QueueInv, LastQueued
<1>5. RebuildFresh'
  BY <1>3 DEF QueueInv, RebuildFresh, InQueue
<1>6. QueueFresh'
  BY <1>3 DEF QueueInv, QueueFresh, InQueue
<1> QED
  BY <1>1, <1>2, <1>4, <1>5, <1>6 DEF QueueInv

-----------------------------------------------------------------------------
(* The theorems. *)

\* QueueInv holds of every reachable state.
THEOREM QueueInvariant == Spec => []QueueInv
<1>1. Init => QueueInv
  <2> SUFFICES ASSUME Init PROVE QueueInv
    OBVIOUS
  <2>1. TypeOK
    <3>1. << >> \in Seq(Task) /\ Len(<< >>) = 0
      BY EmptySeq
    <3>2. 0 \in Texts /\ <<0>> \in Seq(Texts)
      BY QueueAssumption DEF Texts
    <3>3. hist \in Hist
      BY <3>2 DEF Init, Hist
    <3>4. rebuilds \in [calls : 0..MaxRebuilds, running : BOOLEAN]
      BY QueueAssumption DEF Init
    <3>5. index \in [Chapters -> Seq(Texts)] /\ file \in [Chapters -> Texts]
      BY <3>2 DEF Init
    <3>6. ch \in Seq(Task) /\ Len(ch) <= Capacity
      BY <3>1, QueueAssumption DEF Init
    <3> QED
      BY <3>3, <3>4, <3>5, <3>6 DEF Init, TypeOK
  <2>2. ConsumerStages /\ StoredNext /\ RebuildStages /\ RebuildFresh
    BY DEF Init, ConsumerStages, StoredNext, RebuildStages, RebuildFresh
  <2>3. DOMAIN ch = {}
    BY DEF Init
  <2>4. LastQueued /\ QueueFresh
    BY <2>3 DEF Init, LastQueued, QueueFresh
  <2> QED
    BY <2>1, <2>2, <2>4 DEF QueueInv
<1>2. QueueInv /\ [Next]_vars => QueueInv'
  BY TypeStep, StagesStep, StoredStep, LastStep, RebuildStep, RebuildFreshStep,
     QueueFreshStep, Stutter DEF QueueInv
<1> QED
  BY <1>1, <1>2, PTL DEF Spec

\* The types of the queue's state: at most one pending task for a chapter, no
\* channel above its capacity, no task tried more often than allowed.
THEOREM TypeCorrect == Spec => []TypeOK
<1>1. QueueInv => TypeOK
  BY DEF QueueInv
<1> QED
  BY <1>1, QueueInvariant, PTL

\* However many writers, chapters, merges, retries and rebuilds there are, and
\* whether the application shuts down meanwhile or not: when nothing is under way
\* for a chapter that nothing went wrong with, its index holds its file's text,
\* once (consumer, doRefreshWithCtx, RebuildNovel).
THEOREM SettledIsFresh == Spec => []SettledFresh
<1>1. QueueInv => SettledFresh
  <2> SUFFICES ASSUME QueueInv, NEW c \in Chapters, Settled(c), c \notin hist.spoiled
               PROVE  index[c] = <<file[c]>>
    BY DEF SettledFresh
  <2>1. ~ InQueue(c) /\ ~ Held(c) /\ ~ rebuilds.running
    BY DEF Settled, Queued, InQueue, InChannel, InPending, InWork, Held
  <2>2. index[c] = <<hist.last[c]>>
    BY <2>1 DEF QueueInv, QueueFresh
  <2>3. hist.last[c] = file[c]
    BY <2>1 DEF QueueInv, StoredNext, Held
  <2> QED
    BY <2>2, <2>3
<1> QED
  BY <1>1, QueueInvariant, PTL

\* A pending task always has a timer that is going to fire: the flag that says it
\* runs is never left set without it (consumer, timerActive).
THEOREM PendingIsArmed == Spec => []PendingArmed
<1> DEFINE Armed == (pending # {} => armed) /\ active = armed
<1>1. Init => Armed
  BY DEF Init
<1>2. Armed /\ [Next]_vars => Armed'
  <2> SUFFICES ASSUME Armed, [Next]_vars PROVE Armed'
    OBVIOUS
  <2>1. CASE Receive \/ Fire \/ Drain
    BY <2>1 DEF Receive, Fire, Drain
  <2>2. CASE UNCHANGED queue
    BY <2>2 DEF queue
  <2>3. Next => Receive \/ Fire \/ Drain \/ UNCHANGED queue
    BY DEF Next, Consume, Store, Submit, SubmitDrops, SkipTask, DeleteChunks, IndexChunks,
       IndexFails, Resubmit, BatchDone, Stop, RebuildDrops, RebuildReads, RebuildIndexes,
       RebuildFails, RebuildEnds
  <2> QED
    BY <2>1, <2>2, <2>3 DEF vars
<1>3. Armed => PendingArmed
  BY DEF PendingArmed
<1> QED
  BY <1>1, <1>2, <1>3, PTL DEF Spec
=============================================================================
