------------------------------ MODULE Pattern ------------------------------
(***************************************************************************)
(* The pattern pipeline of src/internal/pattern/extract.go on one novel:   *)
(* boundary hints from the titles, chapter summaries that are saved as     *)
(* they come, a first round of stage blocks, rounds of compression until   *)
(* the blocks fit, and the skill.  A model call is one attempt with any    *)
(* answer; a text is its number of tokens.  Beside the extraction others   *)
(* write the summary column.  That the chapters are renumbered or deleted  *)
(* meanwhile is left out.                                                  *)
(***************************************************************************)
EXTENDS Integers, Sequences, SequencesExt, FiniteSets

CONSTANTS
  Tokens,        \* the tokens of each chapter, in order; 0: a chapter without text
  MinChapters,   \* the fewest chapters an extraction takes
  ContextWindows,\* the windows of the models one may choose
  LargeWindow,   \* from this window on the budget is LargeBudget (200 000)
  LargeBudget,   \* 100 000
  FinalBudget,   \* finalChunkBudget (80 000)
  MinReduction,  \* percent a round must take off (5)
  MaxStallRounds,
  LookAhead,     \* chapters maybeExtendToBoundary looks at (10)
  SummaryTokens, \* tokens of a summary in a batch
  Blocks,        \* the answers of a chunk call: sequences of block sizes, 0: a blank block
  MaxRuns,       \* bound: extractions
  MaxOthers      \* bound: chapters others write between two loads

Chapters == DOMAIN Tokens

ASSUME PatternConstants ==
  /\ Tokens \in Seq(Nat)
  /\ ContextWindows \subseteq Nat
  /\ {MinChapters, LargeWindow, LargeBudget, FinalBudget, MinReduction, MaxStallRounds,
      LookAhead, SummaryTokens, MaxRuns, MaxOthers} \subseteq Nat
  /\ \A b \in Blocks : b \in Seq(Nat)

VARIABLES
  saved,  \* the summary column of each chapter: NoSummary or who wrote it
  others, \* history: the chapters others wrote since an extraction last loaded
  run,    \* the extraction
  runs    \* how many have begun

patternVars == <<saved, others, run, runs>>

\* The writers of a summary: the n-th extraction, or somebody else.
NoSummary   == 0
SomeoneElse == MaxRuns + 1

Stages == {"boundaries", "summaries", "chunks", "final", "done", "failed"}
Over   == {"done", "failed"}

-----------------------------------------------------------------------------
\* Batches

BatchBudget ==
  IF run.window >= LargeWindow THEN LargeBudget ELSE (run.window * 7) \div 10

Total(Size(_), items) == FoldLeft(LAMBDA sum, x : sum + Size(x), 0, items)

\* Where to cut instead of before items[start]: after the first hinted end, if the
\* items up to it take no more than what remains of the budget.
MaybeExtendToBoundary(items, start, hints, remaining) ==
  LET limit   == IF start + LookAhead <= Len(items) + 1 THEN start + LookAhead ELSE Len(items) + 1
      Fits(i) == Total(LAMBDA c : Tokens[c], SubSeq(items, start, i)) <= remaining
      ends    == {i \in start .. limit - 1 :
                    Fits(i) /\ items[i] \in hints /\ \A j \in start .. i - 1 : items[j] \notin hints}
  IN IF ends = {} THEN start ELSE (CHOOSE i \in ends : TRUE) + 1

\* Items in order, a batch closed when the next would exceed the budget.
Batched(items, Size(_), Cut(_, _)) ==
  LET Add(acc, i) ==
        LET x    == items[i]
            full == acc.tokens + Size(x) > BatchBudget /\ acc.batch # << >>
            cut  == Cut(i, BatchBudget - acc.tokens)
        IN CASE i < acc.next -> acc
             [] i >= acc.next /\ ~ full ->
                  [acc EXCEPT !.batch = Append(@, x), !.tokens = @ + Size(x)]
             [] i >= acc.next /\ full /\ cut > i ->
                  [batches |-> Append(acc.batches, acc.batch \o SubSeq(items, i, cut - 1)),
                   batch |-> << >>, tokens |-> 0, next |-> cut]
             [] OTHER ->
                  [acc EXCEPT !.batches = Append(@, acc.batch), !.batch = <<x>>, !.tokens = Size(x)]
      all == FoldLeft(Add, [batches |-> << >>, batch |-> << >>, tokens |-> 0, next |-> 1],
                      [i \in DOMAIN items |-> i])
  IN IF all.batch = << >> THEN all.batches ELSE Append(all.batches, all.batch)

ChapterBatches(chapters, hints) ==
  Batched(chapters, LAMBDA c : Tokens[c],
          LAMBDA i, remaining : MaybeExtendToBoundary(chapters, i, hints, remaining))

SummaryBatches(chapters) ==
  Batched(chapters, LAMBDA c : SummaryTokens, LAMBDA i, remaining : i)

ChunkBatches(blocks) == Batched(blocks, LAMBDA b : b, LAMBDA i, remaining : i)

-----------------------------------------------------------------------------
\* normalizeBoundaries: pairs of positive numbers, put in order; a batch looks at
\* the ends only.
NormalizeBoundaries(pairs) ==
  {IF p[1] > p[2] THEN p[1] ELSE p[2] : p \in {q \in pairs : q[1] > 0 /\ q[2] > 0}}

\* normalizeChunks drops the blank blocks.
NormalizeChunks(blocks) == SelectSeq(blocks, LAMBDA b : b > 0)

TokensOfChunks(blocks) == Total(LAMBDA b : b, blocks)

\* Less than four fifths of the window.
Tolerable(tokens) == tokens * 10 < run.window * 8

-----------------------------------------------------------------------------
Idle == [stage |-> "done", chapters |-> << >>, hints |-> {}, batches |-> << >>, tries |-> 0,
         blank |-> {}, saving |-> {}, chunks |-> << >>, next |-> << >>, round |-> 0,
         again |-> FALSE, stall |-> 0, window |-> 0]

PatternInit ==
  /\ saved \in [Chapters -> {NoSummary, SomeoneElse}]
  /\ others = {}
  /\ run = Idle
  /\ runs = 0

Keeps(fields) == run' = fields /\ UNCHANGED <<saved, others, runs>>

Fail == Keeps([Idle EXCEPT !.stage = "failed"])

\* callTool: the attempts of a call, thirty seconds apart; each may bring an
\* error or no call of the tool.  The boundaries are asked for once.
Attempts == IF run.stage = "boundaries" THEN 1 ELSE 2

Asking ==
  /\ run.stage \in {"boundaries", "summaries", "chunks"}
  /\ run.saving = {}
  /\ run.stage # "boundaries" => run.batches # << >>

\* Mutant: the attempts are not counted.
NoAnswerUncounted == Asking /\ Keeps([run EXCEPT !.tries = 1 - @])

NoAnswer ==
  /\ Asking
  /\ IF run.tries + 1 < Attempts THEN Keeps([run EXCEPT !.tries = @ + 1]) ELSE Fail

\* Every wait, every batch and every round asks whether it was cancelled.
Cancel == run.stage \notin Over /\ Fail

\* Extract and loadChapters, with the chapters and the model the user chose.
\* ExtractPattern cancels an earlier extraction and does not wait for it: its
\* context is over, so none of its statements begins after this load, and one
\* under way holds the only connection (storage/sqlite.go:35).
Start ==
  /\ runs < MaxRuns
  /\ runs' = runs + 1
  /\ \E chosen \in SUBSET Chapters, window \in ContextWindows :
       /\ Cardinality(chosen) >= MinChapters
       /\ run' = [Idle EXCEPT !.stage = "boundaries", !.chapters = SetToSortSeq(chosen, <),
                              !.window = window,
                              !.blank = {c \in chosen : saved[c] = NoSummary}]
  /\ others' = {}
  /\ UNCHANGED saved

\* update_chapter_meta of a turn, its rollback, or an extraction that began at the
\* same moment writes the column, and asks nobody.
UpdateSummary ==
  /\ \E c \in Chapters, summary \in {NoSummary, SomeoneElse} :
       /\ Cardinality(others \cup {c}) <= MaxOthers
       /\ saved' = [saved EXCEPT ![c] = summary]
       /\ others' = others \cup {c}
  /\ UNCHANGED <<run, runs>>

PreAnalyzeBoundaries ==
  /\ run.stage = "boundaries"
  /\ \E a, b \in 0 .. Len(Tokens) :
       LET hints == NormalizeBoundaries({<<a, b>>}) IN
       Keeps([run EXCEPT !.stage = "summaries", !.hints = hints, !.tries = 0,
                         !.batches = ChapterBatches(run.chapters, hints)])

-----------------------------------------------------------------------------
\* ensureSummaries

Missing == ToSet(Head(run.batches)) \cap run.blank

NextBatch(fields) == [fields EXCEPT !.batches = Tail(@), !.tries = 0]

ReuseSummaries ==
  /\ run.stage = "summaries" /\ run.saving = {} /\ run.batches # << >> /\ Missing = {}
  /\ Keeps(NextBatch(run))

\* Mutant: every summary of the answer is taken.
WantedAll(answer) == answer

\* Of the summaries in the answer the missing ones are taken.
Wanted(answer) == answer \cap Missing

Summarize ==
  /\ run.stage = "summaries" /\ run.saving = {} /\ run.batches # << >> /\ Missing # {}
  /\ \E answer \in SUBSET ToSet(Head(run.batches)) :
       IF Wanted(answer) = {} THEN Keeps(NextBatch(run))
       ELSE Keeps([run EXCEPT !.saving = Wanted(answer), !.tries = 0])

\* The summaries of an answer are saved one statement at a time, whatever the
\* column holds by now.
SaveSummary ==
  /\ run.stage = "summaries"
  /\ \E c \in run.saving :
       LET fields == [run EXCEPT !.saving = @ \ {c}, !.blank = @ \ {c}] IN
       /\ saved' = [saved EXCEPT ![c] = runs]
       /\ run' = IF run.saving = {c} THEN NextBatch(fields) ELSE fields
  /\ UNCHANGED <<others, runs>>

SaveFails == run.stage = "summaries" /\ run.saving # {} /\ Fail

\* A chapter without text counts as summarized; one the model left out is dropped.
Summarized == SelectSeq(run.chapters, LAMBDA c : c \notin run.blank \/ Tokens[c] = 0)

SummariesReady ==
  /\ run.stage = "summaries" /\ run.saving = {} /\ run.batches = << >>
  /\ IF Summarized = << >> THEN Fail
     ELSE Keeps([Idle EXCEPT !.stage = "chunks", !.round = 1, !.window = run.window,
                             !.batches = SummaryBatches(Summarized)])

-----------------------------------------------------------------------------
\* initialChunks and compressChunks: the blocks of a round, batch by batch.
ReceiveChunks ==
  /\ run.stage = "chunks" /\ run.batches # << >>
  /\ \E answer \in Blocks :
       Keeps(NextBatch([run EXCEPT !.next = @ \o NormalizeChunks(answer)]))

Finalize(chunks) == [Idle EXCEPT !.stage = "final", !.chunks = chunks, !.window = run.window]

\* Another round while the blocks are too many for the last call.
Rounds(chunks, stall) ==
  IF TokensOfChunks(chunks) <= FinalBudget THEN Keeps(Finalize(chunks))
  ELSE Keeps([run EXCEPT !.chunks = chunks, !.next = << >>, !.round = IF @ < 2 THEN @ + 1 ELSE 2,
                         !.stall = stall, !.again = FALSE, !.tries = 0,
                         !.batches = ChunkBatches(chunks)])

\* An answer without blocks is asked for again, once, after thirty seconds.
EmptyRound ==
  IF run.round = 1 \/ run.again THEN Fail
  ELSE Keeps([run EXCEPT !.again = TRUE, !.tries = 0, !.batches = ChunkBatches(run.chunks)])

\* A round that saved nothing keeps the old blocks if they can still be sent.
NoReduction(prev) ==
  IF Tolerable(prev) THEN Keeps(Finalize(run.chunks)) ELSE Fail

\* Mutant: a stalled round is final whatever it left.
LittleReductionUnchecked(now) ==
  IF run.stall + 1 < MaxStallRounds THEN Rounds(run.next, run.stall + 1)
  ELSE Keeps(Finalize(run.next))

LittleReduction(now) ==
  IF run.stall + 1 < MaxStallRounds THEN Rounds(run.next, run.stall + 1)
  ELSE IF Tolerable(now) THEN Keeps(Finalize(run.next)) ELSE Fail

RoundEnds ==
  /\ run.stage = "chunks" /\ run.batches = << >>
  /\ LET prev == TokensOfChunks(run.chunks)
         now  == TokensOfChunks(run.next)
     IN CASE run.next = << >> -> EmptyRound
          [] run.next # << >> /\ run.round = 1 -> Rounds(run.next, 0)
          [] run.next # << >> /\ run.round > 1 /\ now >= prev -> NoReduction(prev)
          [] run.next # << >> /\ run.round > 1 /\ now < prev
               /\ (prev - now) * 100 < prev * MinReduction -> LittleReduction(now)
          [] OTHER -> Rounds(run.next, 0)

\* finalSkill and the parsing of the skill: one call, no second attempt.
FinalSkill == run.stage = "final" /\ Keeps(Idle)

FinalFails == run.stage = "final" /\ Fail

-----------------------------------------------------------------------------
Advance ==
  \/ PreAnalyzeBoundaries \/ ReuseSummaries \/ Summarize \/ SaveSummary \/ SaveFails
  \/ SummariesReady \/ ReceiveChunks \/ RoundEnds \/ FinalSkill \/ FinalFails \/ NoAnswer

PatternNext == Start \/ Cancel \/ UpdateSummary \/ Advance

PatternSpec == PatternInit /\ [][PatternNext]_patternVars

\* A stream ends by its idle timeout and a wait by its timer: a running
\* extraction takes its next step.  Nobody has to start or cancel one, or to write
\* a summary.
FairSpec == PatternSpec /\ WF_patternVars(Advance)

-----------------------------------------------------------------------------
TypeOK ==
  /\ saved \in [Chapters -> NoSummary .. SomeoneElse] /\ others \subseteq Chapters
  /\ run.stage \in Stages
  /\ ToSet(run.chapters) \cup run.blank \cup run.saving \subseteq Chapters
  /\ run.tries \in 0 .. 1 /\ run.round \in 0 .. 2 /\ run.stall \in 0 .. MaxStallRounds
  /\ runs \in 0 .. MaxRuns

\* What the last call is given fits in four fifths of the window, by whichever of
\* its three ways the loop of Extract ended.  Exempt is a window too small for the
\* final budget, a number that does not depend on the window: then it is only
\* within that budget (DESIGN.md:41 has one budget for both, from the window).
FinalFits ==
  run.stage = "final" =>
    LET now == TokensOfChunks(run.chunks) IN
    \/ Tolerable(now)
    \/ ~ Tolerable(FinalBudget) /\ now <= FinalBudget

\* No extraction replaces a summary: not the one somebody wrote before it, and not
\* one that an extraction cancelled or failed before it saved.  Exempt is a
\* chapter others wrote after the extraction had loaded it: ensureSummaries saves
\* over it without another look.
SummariesKept ==
  [][run' # run =>
       \A c \in Chapters :
         saved[c] # NoSummary /\ saved'[c] # saved[c] => c \in others]_patternVars

\* Every extraction ends: the rounds lose tokens, or stop.
ExtractionEnds == (run.stage \notin Over) ~> (run.stage \in Over)
=============================================================================
