---------------------------- MODULE RefreshQueue ----------------------------
(***************************************************************************)
(* The asynchronous refresh of the search index of ONE novel               *)
(* (src/internal/rag/refresh_queue.go, vector_store.go): writers store a   *)
(* chapter file and submit it, one consumer merges the submissions of half *)
(* a second and indexes them, RebuildNovel rebuilds everything beside it,  *)
(* Stop ends the consumer at shutdown.                                     *)
(*                                                                         *)
(* Saves are numbered, and a chapter's text is the number of its last one; *)
(* the index of a chapter is the texts it holds chunks of, one entry for   *)
(* each time they were inserted.                                           *)
(***************************************************************************)
EXTENDS Naturals, Sequences, FiniteSets

CONSTANTS
  Writers,     \* SaveContent of the user, the edit tool of the agents
  Chapters,    \* chapter numbers
  MaxSaves,    \* bound: saves of all chapters
  Capacity,    \* of the channel, 256 in the code
  MaxRetries,  \* maxRefreshRetries
  MaxRebuilds, \* bound: calls of RebuildNovel
  CanStop      \* whether the application may shut down

ASSUME QueueAssumption ==
  /\ MaxSaves \in Nat /\ Capacity \in Nat \ {0}
  /\ MaxRetries \in Nat /\ MaxRebuilds \in Nat
  /\ CanStop \in BOOLEAN

VARIABLES
  file,      \* the text of each chapter's file
  writer,    \* what each writer has stored and not submitted yet
  ch,        \* q.ch
  pending,   \* q.pending: at most one task for a chapter
  active,    \* timerActive
  armed,     \* whether the timer is going to fire
  stage,     \* what the consumer is doing
  work,      \* tasks it has taken from pending and not begun
  cur,       \* the task it is refreshing, if any
  draining,  \* it empties pending for the last time
  done,      \* q.ctx has been cancelled
  index,     \* the chunks of each chapter
  unread,    \* chapters RebuildNovel still has to read
  batch,     \* <<chapter, text>> it has read and not inserted
  rebuilds,  \* calls of RebuildNovel so far, and whether one is running
  hist       \* history: chapters met by something that may leave them stale

input    == <<file, writer>>
queue    == <<pending, active, armed>>
consumer == <<stage, work, cur, draining>>
rebuild  == <<unread, batch, rebuilds>>
vars     == <<input, ch, queue, consumer, done, index, rebuild, hist>>

Texts == 0..MaxSaves
Task  == [chapter : Chapters, text : Texts, retried : 0..MaxRetries]

\* `spoiled' holds the chapters for which something went wrong that the queue
\* does not repair: a lost or late submission, a failed statement, a rebuild
\* beside a refresh; `last' is the newest text submitted.
Hist == [spoiled : SUBSET Chapters, last : [Chapters -> Texts]]

TypeOK ==
  /\ file \in [Chapters -> Texts]
  /\ writer \in [Writers -> SUBSET Task]
  /\ ch \in Seq(Task) /\ Len(ch) <= Capacity
  /\ pending \subseteq Task
  /\ \A t, u \in pending : t.chapter = u.chapter => t = u
  /\ active \in BOOLEAN /\ armed \in BOOLEAN
  /\ stage \in {"select", "work", "index", "retry", "stopped"}
  /\ work \subseteq Task /\ cur \subseteq Task
  /\ draining \in BOOLEAN /\ done \in BOOLEAN
  /\ index \in [Chapters -> Seq(Texts)]
  /\ unread \subseteq Chapters /\ batch \subseteq Chapters \X Texts
  /\ rebuilds \in [calls : 0..MaxRebuilds, running : BOOLEAN]
  /\ hist \in Hist

Init ==
  /\ file = [c \in Chapters |-> 0]
  /\ writer = [w \in Writers |-> {}]
  /\ ch = <<>> /\ pending = {} /\ active = FALSE /\ armed = FALSE
  /\ stage = "select" /\ work = {} /\ cur = {} /\ draining = FALSE
  /\ done = FALSE
  /\ index = [c \in Chapters |-> <<0>>]
  /\ unread = {} /\ batch = {} /\ rebuilds = [calls |-> 0, running |-> FALSE]
  /\ hist = [spoiled |-> {}, last |-> [c \in Chapters |-> 0]]

Spoil(S) == hist' = [hist EXCEPT !.spoiled = @ \cup S]

-----------------------------------------------------------------------------
(* Writers.                                                                *)

\* The number of the last save.
Newest == CHOOSE n \in {file[c] : c \in Chapters} : \A c \in Chapters : file[c] <= n

\* The chapter file is written (git.WriteFile in SaveContent and in the edit
\* tool) ...
Store(w, c) ==
  /\ writer[w] = {} /\ Newest < MaxSaves
  /\ file' = [file EXCEPT ![c] = Newest + 1]
  /\ writer' = [writer EXCEPT ![w] =
                  {[chapter |-> c, text |-> Newest + 1, retried |-> 0]}]
  /\ UNCHANGED <<ch, queue, consumer, done, index, rebuild, hist>>

\* ... and then SubmitRefresh is called: nothing orders two writers here.
Submit(w) ==
  /\ Len(ch) < Capacity
  /\ \E t \in writer[w] :
       /\ ch' = Append(ch, t)
       /\ hist' = IF t.text < hist.last[t.chapter]
                  THEN [hist EXCEPT !.spoiled = @ \cup {t.chapter}]
                  ELSE [hist EXCEPT !.last[t.chapter] = t.text]
  /\ writer' = [writer EXCEPT ![w] = {}]
  /\ UNCHANGED <<file, queue, consumer, done, index, rebuild>>

\* The channel has been full for two seconds: the task is dropped.
SubmitDrops(w) ==
  /\ Len(ch) = Capacity
  /\ writer[w] # {}
  /\ Spoil({t.chapter : t \in writer[w]})
  /\ writer' = [writer EXCEPT ![w] = {}]
  /\ UNCHANGED <<file, ch, queue, consumer, done, index, rebuild>>

-----------------------------------------------------------------------------
(* The consumer.  Its select takes any branch that is ready.               *)

\* Mutant: the first task received for a chapter stays.
ReceiveKeepsFirst ==
  /\ stage = "select" /\ ch # <<>>
  /\ ch' = Tail(ch)
  /\ pending' = IF \E t \in pending : t.chapter = Head(ch).chapter
                THEN pending ELSE pending \cup {Head(ch)}
  /\ active' = TRUE
  /\ armed' = (armed \/ ~active)
  /\ UNCHANGED <<input, consumer, done, index, rebuild, hist>>

\* A task replaces the pending one of its chapter and starts the timer, unless
\* it counts as running.
Receive ==
  /\ stage = "select" /\ ch # <<>>
  /\ ch' = Tail(ch)
  /\ pending' = {t \in pending : t.chapter # Head(ch).chapter} \cup {Head(ch)}
  /\ active' = TRUE
  /\ armed' = (armed \/ ~active)
  /\ UNCHANGED <<input, consumer, done, index, rebuild, hist>>

\* The timer fires: everything pending is taken.
Fire ==
  /\ stage = "select" /\ armed
  /\ armed' = FALSE /\ active' = FALSE
  /\ work' = pending /\ pending' = {}
  /\ stage' = "work"
  /\ UNCHANGED <<input, ch, cur, draining, done, index, rebuild, hist>>

\* The context is done: what is pending is taken for the last time, the
\* channel is left as it is.
Drain ==
  /\ stage = "select" /\ done
  /\ work' = pending /\ pending' = {}
  /\ draining' = TRUE
  /\ stage' = "work"
  /\ UNCHANGED <<input, ch, active, armed, cur, done, index, rebuild, hist>>

\* q.ctx is the context of a refresh, except while draining.
Alive == ~ done \/ draining

\* GetByNovelAndNumber fails, or the text gives no chunks: the task is
\* forgotten, and what the index holds stays.
SkipTask ==
  /\ stage = "work"
  /\ \E t \in work :
       /\ work' = work \ {t}
       /\ Spoil({t.chapter})
  /\ UNCHANGED <<input, ch, queue, stage, cur, draining, done, index, rebuild>>

\* DeleteChapterChunks: the chapter's chunks go; a failure is only logged.
DeleteChunks ==
  /\ stage = "work" /\ Alive
  /\ \E t \in work, deleted \in BOOLEAN :
       /\ work' = work \ {t}
       /\ cur' = {t}
       /\ index' = IF deleted THEN [index EXCEPT ![t.chapter] = <<>>] ELSE index
       /\ Spoil(IF deleted /\ ~ rebuilds.running THEN {} ELSE {t.chapter})
  /\ stage' = "index"
  /\ UNCHANGED <<input, ch, queue, draining, done, rebuild>>

\* IndexChunks: one transaction for the chapter.
IndexChunks ==
  /\ stage = "index" /\ Alive
  /\ \E t \in cur : index' = [index EXCEPT ![t.chapter] = Append(@, t.text)]
  /\ cur' = {}
  /\ stage' = "work"
  /\ UNCHANGED <<input, ch, queue, work, draining, done, rebuild, hist>>

\* Mutant: the attempts are not counted.
IndexFailsUncounted ==
  /\ stage = "index"
  /\ \E t \in cur :
       /\ stage' = IF t.retried < MaxRetries THEN "retry" ELSE "work"
       /\ cur' = IF t.retried < MaxRetries THEN cur ELSE {}
       /\ Spoil({t.chapter})
  /\ UNCHANGED <<input, ch, queue, work, draining, done, index, rebuild>>

\* IndexChunks fails and refreshRetry is called: the old chunks are gone.
IndexFails ==
  /\ stage = "index"
  /\ \E t \in cur :
       /\ stage' = IF t.retried < MaxRetries THEN "retry" ELSE "work"
       /\ cur' = IF t.retried < MaxRetries
                 THEN {[t EXCEPT !.retried = @ + 1]} ELSE {}
       /\ Spoil({t.chapter})
  /\ UNCHANGED <<input, ch, queue, work, draining, done, index, rebuild>>

\* Mutant: the consumer waits for room in the channel only it empties.
ResubmitBlocks ==
  /\ stage = "retry" /\ Len(ch) < Capacity
  /\ \E t \in cur : ch' = Append(ch, t)
  /\ cur' = {}
  /\ stage' = "work"
  /\ UNCHANGED <<input, queue, work, draining, done, index, rebuild, hist>>

\* The consumer submits to its own channel; when that is full nobody makes
\* room and the two seconds pass.
Resubmit ==
  /\ stage = "retry"
  /\ \E t \in cur : ch' = IF Len(ch) < Capacity THEN Append(ch, t) ELSE ch
  /\ cur' = {}
  /\ stage' = "work"
  /\ UNCHANGED <<input, queue, work, draining, done, index, rebuild, hist>>

\* The batch is over.
BatchDone ==
  /\ stage = "work" /\ work = {}
  /\ stage' = IF draining THEN "stopped" ELSE "select"
  /\ UNCHANGED <<input, ch, queue, work, cur, draining, done, index, rebuild, hist>>

\* Stop cancels the context; it returns when the consumer has stopped.
Stop ==
  /\ CanStop /\ ~ done
  /\ done' = TRUE
  /\ UNCHANGED <<input, ch, queue, consumer, index, rebuild, hist>>

-----------------------------------------------------------------------------
(* RebuildNovel, from the settings or at the first start.                  *)

\* DeleteNovel drops the tables, or fails, which is logged at most.
Dropped == [c \in Chapters |-> <<>>]

RebuildDrops ==
  /\ ~ rebuilds.running /\ rebuilds.calls < MaxRebuilds
  /\ rebuilds' = [calls |-> rebuilds.calls + 1, running |-> TRUE]
  /\ unread' = Chapters /\ batch' = {}
  /\ \/ index' = Dropped /\ Spoil({t.chapter : t \in cur})
     \/ UNCHANGED index /\ Spoil(Chapters)
  /\ UNCHANGED <<input, ch, queue, consumer, done>>

\* A chapter's file is read, or cannot be read and is left out.
RebuildReads(c) ==
  /\ c \in unread
  /\ unread' = unread \ {c}
  /\ \/ batch' = batch \cup {<<c, file[c]>>} /\ UNCHANGED hist
     \/ UNCHANGED batch /\ Spoil({c})
  /\ UNCHANGED <<input, ch, queue, consumer, done, index, rebuilds>>

\* A batch is inserted: it was full or the last.
RebuildIndexes ==
  /\ rebuilds.running /\ batch # {}
  /\ index' = [c \in Chapters |->
                 IF \E x \in batch : x[1] = c
                 THEN Append(index[c], (CHOOSE x \in batch : x[1] = c)[2])
                 ELSE index[c]]
  /\ batch' = {}
  /\ UNCHANGED <<input, ch, queue, consumer, done, unread, rebuilds, hist>>

\* A batch fails or the context is done: cleanupAfterRebuildFail drops what has
\* been built, unless the context it is given is done too.
RebuildFails ==
  /\ rebuilds.running /\ unread # Chapters
  /\ rebuilds' = [rebuilds EXCEPT !.running = FALSE]
  /\ unread' = {} /\ batch' = {}
  /\ index' \in {Dropped, index}
  /\ Spoil(Chapters)
  /\ UNCHANGED <<input, ch, queue, consumer, done>>

RebuildEnds ==
  /\ rebuilds.running /\ unread = {} /\ batch = {}
  /\ rebuilds' = [rebuilds EXCEPT !.running = FALSE]
  /\ UNCHANGED <<input, ch, queue, consumer, done, index, unread, batch, hist>>

-----------------------------------------------------------------------------
Consume ==
  \/ Receive \/ Fire \/ Drain
  \/ SkipTask \/ DeleteChunks \/ IndexChunks \/ IndexFails \/ Resubmit
  \/ BatchDone

Next ==
  \/ \E w \in Writers :
       (\E c \in Chapters : Store(w, c)) \/ Submit(w) \/ SubmitDrops(w)
  \/ Consume
  \/ Stop
  \/ RebuildDrops \/ (\E c \in Chapters : RebuildReads(c))
  \/ RebuildIndexes \/ RebuildFails \/ RebuildEnds

\* The consumer goroutine keeps running and the timer fires in the end.
Fairness == WF_vars(Consume)

Spec == Init /\ [][Next]_vars

FairSpec == Spec /\ Fairness

-----------------------------------------------------------------------------
(* Properties.                                                             *)

Queued == {ch[i] : i \in DOMAIN ch} \cup pending \cup work \cup cur

\* Nothing is under way for a chapter.
Settled(c) ==
  /\ \A t \in Queued : t.chapter # c
  /\ \A w \in Writers : \A t \in writer[w] : t.chapter # c
  /\ ~ rebuilds.running

\* A pending task has a timer that will fire: none waits for the next
\* submission to be noticed (consumer, the timerActive flag).
PendingArmed == stage # "stopped" /\ pending # {} => armed

\* When all is quiet a chapter's index holds its file's text, once, however the
\* submissions were merged, dropped from the middle of a burst by a newer one,
\* or met a rebuild reading the file, unless a statement failed, a submission
\* was lost or late, or a refresh ran inside a rebuild (consumer,
\* doRefreshWithCtx, RebuildNovel).
SettledFresh ==
  \A c \in Chapters :
    Settled(c) /\ c \notin hist.spoiled => index[c] = <<file[c]>>

\* Every submitted task is worked off: the consumer neither waits for itself
\* nor retries for ever, though it feeds its own channel (refreshRetry, Submit).
WorkedOff == Queued # {} ~> (Queued = {} \/ stage = "stopped")

\* Stop returns, whatever the select prefers to the cancelled context.
StopReturns == done ~> stage = "stopped"
=============================================================================
