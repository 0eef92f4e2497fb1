----------------------------- MODULE AgentLoop ------------------------------
(* One Run of the agent (internal/agent/agent.go): it asks the model, reads the
   streamed answer, performs its tool calls one by one as they arrive, stores
   the answer and the results, and asks again, until an answer needs no tool.
   Around that loop: retries of a failed stream, cancellation at any moment,
   compression of the conversation, and the gate's reminders.

   Messages are reduced to what the protocol with the model depends on: who
   speaks, which calls a message makes or answers, and what was streamed into it.
   The system messages (identity, skills, state of the novel) do neither and are
   left out: a compression writes them anew around the conversation.
   What the gate decides is PhaseGate's subject: here a call may be refused or
   let through, and a phase may advance.  Tools and compression are one step. *)
EXTENDS Stream, SequencesExt

CONSTANTS
  MaxTurns,       \* RunOptions.MaxTurns
  MaxLLMRetries,  \* maxLLMRetries (10)
  FailLimit,      \* system failures in a row that disable a tool (3)
  StuckAfter,     \* turns before repetition is looked for (6)
  UserRetain,     \* maxUserRetain (15)
  MinTurns,       \* minConversationTurns (4)
  MaxAdvances,    \* bound: automatic moves of the gate in one Run
  MaxCompressions \* bound: compressions in one Run

ASSUME LoopConstants ==
  /\ {MaxTurns, FailLimit, UserRetain, MinTurns} \subseteq Nat \ {0}
  /\ {MaxLLMRetries, StuckAfter, MaxAdvances, MaxCompressions} \subseteq Nat

VARIABLES
  agentType,      \* "main", or "sub" for a Run that run_subagent started
  pc,             \* "top" of the loop, reading the "stream", "sleep", "done"
  messages,       \* opts.Messages: what the next request will hold
  buffer,         \* responseBuffer and thinkingBuffer: what was streamed
  toolOutputs,    \* the calls of this answer met so far, and what became of them
  executedTools, interrupted, retryCount, loopCount,
  failCnt,        \* system failures in a row (of the one tool that can fail)
  ended,          \* how the Run returned, or "no"
  spent,          \* the bounded counters: advances, compressions
  taken,          \* history: the calls the loop has taken from the stream
  told,           \* history: the calls whose results have been stored
  stored          \* history: the text of the last assistant message stored

loopVars == <<toolOutputs, executedTools, interrupted, retryCount, loopCount,
              failCnt, buffer>>
history == <<taken, told, stored>>
vars == <<svars, agentType, pc, messages, loopVars, ended, spent, history>>

User(tag) == [role |-> tag, calls |-> << >>, answers |-> 0]
Assistant(calls) == [role |-> "assistant", calls |-> calls, answers |-> 0]
Result(c) == [role |-> "tool", calls |-> << >>, answers |-> c]

\* The messages of role user: the request, the reminders of the gate and of the
\* loop, the one about overthinking, and the summary.
UserRoles == {"ask", "reminder", "overthink", "summary"}

Message ==
  [role : UserRoles \cup {"assistant", "tool"},
   calls : Seq(1 .. MaxCalls), answers : 0 .. MaxCalls]

\* executed: by the registry; unrun: set_phase, or refused by the gate, the path
\* check, the review guard or for its failures; cut: the Run was interrupted.
Outputs == [id : 1 .. MaxCalls, how : {"executed", "unrun", "cut"}]

TypeOK ==
  /\ StreamType
  /\ agentType \in {"main", "sub"}
  /\ pc \in {"top", "stream", "sleep", "done"}
  /\ messages \in Seq(Message)
  /\ buffer \in Seq(Pieces)
  /\ toolOutputs \in Seq(Outputs)
  /\ executedTools \in BOOLEAN /\ interrupted \in BOOLEAN
  /\ retryCount \in 0 .. MaxLLMRetries
  /\ loopCount \in 0 .. MaxTurns
  /\ failCnt \in 0 .. FailLimit
  /\ ended \in {"no", "answered", "interrupted", "turns", "error", "dropped"}
  /\ spent \in [advances : 0 .. MaxAdvances, compressions : 0 .. MaxCompressions]
  /\ taken \in Seq(1 .. MaxCalls) /\ told \in Seq(1 .. MaxCalls)
  /\ stored \in Seq(Pieces)

Init ==
  /\ StreamInit
  /\ agentType \in {"main", "sub"}
  /\ pc = "top"
  /\ messages = <<User("ask")>>
  /\ buffer = << >> /\ toolOutputs = << >>
  /\ executedTools = FALSE /\ interrupted = FALSE
  /\ retryCount = 0 /\ loopCount = 0 /\ failCnt = 0
  /\ ended = "no"
  /\ spent = [advances |-> 0, compressions |-> 0]
  /\ taken = << >> /\ told = << >> /\ stored = << >>

-----------------------------------------------------------------------------
(* Compression.                                                            *)

IsUser(m) == m.role \in UserRoles

\* A mutant: the last UserRetain messages, whoever speaks.
CutAnywhere(history_) ==
  IF Len(history_) > UserRetain THEN Len(history_) - UserRetain + 1 ELSE 1

\* The last message with n user messages from it on: the n-th of them from the end.
NthFromEnd(history_, n) ==
  Max({i \in DOMAIN history_ : Cardinality({j \in i .. Len(history_) : IsUser(history_[j])}) >= n})

\* retainMessages: from the UserRetain-th user message from the end, and at
\* least MinTurns of them.  The cut falls on a user message, whichever it is.
Cut(history_) ==
  LET users   == Cardinality({j \in DOMAIN history_ : IsUser(history_[j])})
      byCount == IF users > UserRetain THEN NthFromEnd(history_, UserRetain) ELSE 1
      byTurns == IF users >= MinTurns THEN NthFromEnd(history_, MinTurns) ELSE byCount
  IN IF byTurns < byCount THEN byTurns ELSE byCount

RetainMessages(history_) == SubSeq(history_, Cut(history_), Len(history_))

\* The reminder and the summary stand before what is retained, whether the
\* conversation is rewritten through the database (Compress) or in memory.  A
\* compression begins with a request of its own, which a cancelled context fails,
\* and a failure leaves the conversation as it was.
Compressed(msgs) == <<User("reminder"), User("summary")>> \o RetainMessages(msgs)

CompressionAsked ==
  \/ UNCHANGED <<messages, spent>>
  \/ /\ ctx = "live"
     /\ spent.compressions < MaxCompressions
     /\ messages' = Compressed(messages)
     /\ spent' = [spent EXCEPT !.compressions = @ + 1]

-----------------------------------------------------------------------------
(* The top of the loop: a fresh attempt at an answer.                      *)

Return(how) == pc' = "done" /\ ended' = how

BeginRequest ==
  /\ pc = "top"
  /\ loopCount < MaxTurns
  /\ CompressionAsked
  /\ toolOutputs' = << >> /\ executedTools' = FALSE
  /\ source' = Opened /\ chan' = << >>
  /\ pc' = "stream"
  /\ UNCHANGED <<ctx, made, faults, agentType, interrupted, retryCount, loopCount,
                 failCnt, buffer, ended, history>>

TurnsUsedUp ==
  /\ pc = "top"
  /\ loopCount = MaxTurns
  /\ Return(IF interrupted THEN "interrupted" ELSE "turns")
  /\ UNCHANGED <<svars, agentType, messages, loopVars, spent, history>>

-----------------------------------------------------------------------------
(* Reading the stream.                                                     *)

Received(e) == pc = "stream" /\ chan # << >> /\ Head(chan) = e /\ chan' = Tail(chan)

ReceivePiece ==
  /\ \E p \in Pieces :
       /\ Received(Piece(p))
       /\ buffer' = Append(buffer, p)
       /\ retryCount' = IF p = "text" THEN 0 ELSE retryCount
  /\ UNCHANGED <<ctx, source, made, faults, agentType, pc, messages, toolOutputs,
                 executedTools, interrupted, loopCount, failCnt, ended, spent, history>>

\* set_phase, and a call the gate refuses: no tool runs, and a reminder may be
\* stored at once, ahead of the assistant message the call belongs to.
\* submit_review outside a review and a disabled tool leave no reminder.
ReceiveUnrun ==
  /\ \E c \in 1 .. made :
       /\ Received(CallEnd(c))
       /\ toolOutputs' = Append(toolOutputs, [id |-> c, how |-> "unrun"])
       /\ taken' = Append(taken, c)
  /\ \/ UNCHANGED messages
     \/ messages' = Append(messages, User("reminder"))
  /\ UNCHANGED <<ctx, source, made, faults, agentType, pc, executedTools, interrupted,
                 retryCount, loopCount, failCnt, buffer, ended, spent, told, stored>>

\* Registry.Execute: an unknown or forbidden tool and arguments that do not fit
\* come back as answers to learn from; an error, a panic or the three minutes
\* running out as failures of the system.
Outcomes == {"answer", "system"}

\* The registry runs the tool, whose approval and sub-agents are their own
\* modules' subject: the one that can fail until it is disabled, or another.  Only
\* failures of the system are counted, and the last one allowed leaves a reminder,
\* as a verdict or an error in an answer does while there is no gate.
ReceiveExecuted ==
  /\ \E c \in 1 .. made :
       /\ Received(CallEnd(c))
       /\ toolOutputs' = Append(toolOutputs, [id |-> c, how |-> "executed"])
       /\ taken' = Append(taken, c)
  /\ executedTools' = TRUE
  /\ \/ /\ failCnt < FailLimit
        /\ \E outcome \in Outcomes :
             failCnt' = IF outcome = "system" THEN failCnt + 1 ELSE 0
     \/ UNCHANGED failCnt
  /\ \/ failCnt' \in {failCnt} \cup 0 .. FailLimit - 1 /\ UNCHANGED messages
     \/ messages' = Append(messages, User("reminder"))
  /\ UNCHANGED <<ctx, source, made, faults, agentType, pc, interrupted, retryCount,
                 loopCount, buffer, ended, spent, told, stored>>

ReceivedError == Received(Error(TRUE)) \/ Received(Error(FALSE))

MayRetry ==
  /\ Head(chan) = Error(TRUE)
  /\ retryCount < MaxLLMRetries
  /\ ~executedTools

\* A retry: what was streamed is thrown away, the stream is left behind, and
\* the Run sleeps, whatever happens meanwhile.
Retry ==
  /\ pc = "stream" /\ chan # << >>
  /\ MayRetry
  /\ retryCount' = retryCount + 1
  /\ buffer' = << >>
  /\ chan' = << >> /\ source' = NoSource
  /\ pc' = "sleep"
  /\ UNCHANGED <<ctx, made, faults, agentType, messages, toolOutputs, executedTools,
                 interrupted, loopCount, failCnt, ended, spent, history>>

\* Awake: a cancelled Run returns at once, with its buffers empty.
Wake ==
  /\ pc = "sleep"
  /\ IF ctx = "cancelled"
     THEN Return("dropped") /\ UNCHANGED source
     ELSE pc' = "stream" /\ source' = Opened /\ UNCHANGED ended
  /\ UNCHANGED <<ctx, chan, made, faults, agentType, messages, loopVars, spent, history>>

\* A mutant: the error path returns without storing anything.
FailSilently ==
  /\ ReceivedError
  /\ ~MayRetry
  /\ Return("error")
  /\ UNCHANGED <<ctx, source, made, faults, agentType, messages, loopVars, spent, history>>

\* The end of the retries, and an error that is not to be retried: what was
\* streamed is stored, the outputs of calls are not.
FailWithPartial ==
  /\ ReceivedError
  /\ ~MayRetry
  /\ IF buffer = << >> THEN UNCHANGED <<messages, stored>>
     ELSE messages' = Append(messages, Assistant(<< >>)) /\ stored' = buffer
  /\ Return("error")
  /\ UNCHANGED <<ctx, source, made, faults, agentType, loopVars, spent, taken, told>>

-----------------------------------------------------------------------------
(* The end of an answer.                                                   *)

\* The gate's automatic move is possible while it has somewhere to go: its
\* requirements for leaving a phase are met by calls, not by text.
CanAdvance == spent.advances < MaxAdvances /\ agentType = "main"
Advances == CanAdvance /\ spent' = [spent EXCEPT !.advances = @ + 1]

\* An answer without calls is stored and ends the Run, unless the gate moves on:
\* then the loop goes round with the buffers as they are, counting no turn and
\* not asking whether it was interrupted.
NoCalls(isInterrupted) ==
  LET said == IF buffer = << >> THEN messages ELSE Append(messages, Assistant(<< >>))
  IN /\ stored' = IF buffer = << >> THEN stored ELSE buffer
     /\ \/ /\ Return(IF isInterrupted THEN "interrupted" ELSE "answered")
           /\ messages' = said
           /\ UNCHANGED spent
        \/ /\ Advances
           /\ messages' = Append(said, User("reminder"))
           /\ pc' = "top"
           /\ UNCHANGED ended
     /\ UNCHANGED <<buffer, loopCount, told>>

\* Overthinking is looked for in the write phase of the main agent only.
MayOverthink == agentType = "main" /\ "thought" \in Range(buffer)

Ids(outputs) == [i \in DOMAIN outputs |-> outputs[i].id]

\* A mutant: results are stored for the calls that were executed only.
AnswerExecuted(outputs, reminded) ==
  LET ran == SelectSeq(outputs, LAMBDA o : o.how = "executed")
  IN <<Assistant(Ids(outputs))>>
        \o [i \in DOMAIN ran |-> Result(ran[i].id)]

Answer(outputs, reminded) ==
  <<Assistant(Ids(outputs))>>
     \o (IF reminded THEN <<User("overthink")>> ELSE << >>)
     \o [i \in DOMAIN outputs |-> Result(outputs[i].id)]

Reminders(n) == [i \in 1 .. n |-> User("reminder")]

\* An answer with calls: the message that makes them, perhaps a reminder, their
\* results, what the tools inject.  An interrupted Run returns there; otherwise
\* a repetition may be remarked upon, and the gate may move on.
WithCalls(outputs, isInterrupted) ==
  \E reminded \in BOOLEAN, injects \in 0 .. 1 :
    /\ reminded => MayOverthink
    /\ injects > 0 => \E i \in DOMAIN outputs : outputs[i].how = "executed"
    /\ told' = told \o Ids(outputs)
    /\ stored' = buffer
    /\ LET said == messages \o Answer(outputs, reminded) \o Reminders(injects)
       IN \/ /\ isInterrupted
             /\ Return("interrupted")
             /\ messages' = said
             /\ UNCHANGED <<buffer, loopCount, spent>>
          \/ /\ ~isInterrupted
             /\ buffer' = << >>
             /\ loopCount' = loopCount + 1
             /\ pc' = "top"
             /\ \E stuck \in 0 .. 1 :
                  /\ stuck = 1 => loopCount >= StuckAfter
                  /\ \/ UNCHANGED spent /\ messages' = said \o Reminders(stuck)
                     \/ Advances /\ messages' = said \o Reminders(stuck + 1)
             /\ UNCHANGED ended

AnswerOver(outputs, isInterrupted) ==
  /\ toolOutputs' = outputs
  /\ interrupted' = isInterrupted
  /\ IF outputs = << >> THEN NoCalls(isInterrupted)
     ELSE WithCalls(outputs, isInterrupted)
  /\ UNCHANGED <<ctx, made, faults, agentType, executedTools, retryCount, failCnt>>

\* The channel is closed and empty.
StreamOver ==
  /\ pc = "stream"
  /\ chan = << >> /\ source.at = "closed"
  /\ AnswerOver(toolOutputs, interrupted)
  /\ UNCHANGED <<chan, source, taken>>

\* flushInterruptedTools: the calls at hand are recorded as cut, unexecuted.
Interrupt ==
  /\ pc = "stream"
  /\ ctx = "cancelled"
  /\ \E cut \in Drainable :
       /\ taken' = taken \o cut
       /\ AnswerOver(toolOutputs \o [i \in DOMAIN cut |-> [id |-> cut[i], how |-> "cut"]],
                     TRUE)
  /\ chan' = << >> /\ source' = NoSource

\* The user's cancellation, deletion of the conversation, shutdown.
Cancel ==
  /\ pc # "done"
  /\ ctx = "live"
  /\ ctx' = "cancelled"
  /\ UNCHANGED <<chan, source, made, faults, agentType, pc, messages, loopVars,
                 ended, spent, history>>

Produce ==
  /\ pc = "stream"
  /\ StreamNext
  /\ UNCHANGED <<agentType, pc, messages, loopVars, ended, spent, history>>

Loop ==
  \/ BeginRequest \/ TurnsUsedUp
  \/ ReceivePiece \/ ReceiveUnrun \/ ReceiveExecuted
  \/ Retry \/ Wake \/ FailWithPartial
  \/ StreamOver \/ Interrupt

Next == Loop \/ Produce \/ Cancel

Spec == Init /\ [][Next]_vars

\* The loop runs whenever it can; a connection delivers, ends, or is given up
\* after streamIdleTimeout, so its goroutine does not wait for ever either.
FairSpec == Spec /\ WF_vars(Loop) /\ WF_vars(Produce)

-----------------------------------------------------------------------------
(* Properties.                                                             *)

\* In every request, each call of an assistant message is answered by exactly
\* one result further on (agent.go:1257-1284, flushInterruptedTools).
CallsAnswered ==
  pc = "stream" =>
    \A i \in DOMAIN messages : \A c \in Range(messages[i].calls) :
      Cardinality({j \in DOMAIN messages : j > i /\ messages[j].answers = c}) = 1

\* A result that follows a reminder a compression cut the conversation at.
OrphanedAtCut(j) ==
  \E k \in 1 .. j - 1 :
    /\ messages[k].role = "overthink"
    /\ \A i \in k + 1 .. j : messages[i].role = "tool"
    /\ messages[k - 1].role = "summary"

\* A result without its call comes about in one way: a compression cut the
\* conversation at the reminder about overthinking, which stands between the
\* two (agent.go:1267, compress.go:416).  Only results of that one answer can
\* lose their call, and nothing but them stands between the reminder and them.
NoOrphanResults ==
  \A j \in DOMAIN messages :
    messages[j].answers # 0 =>
      \/ \E i \in 1 .. j - 1 : messages[j].answers \in Range(messages[i].calls)
      \/ OrphanedAtCut(j)

\* What the model has streamed of an answer is stored when the Run returns,
\* however it returns: only a retry throws text away (agent.go:1206, 1222, 1238).
TextStored == pc = "done" => buffer \in {<< >>, stored}

\* A Run returns, cancelled or not, as long as the provider fails only so often
\* (text between two failures resets the count of retries, agent.go:841, so it is
\* not maxLLMRetries that bounds them) and the gate moves only so often.
RunEnds == <>(pc = "done")

\* When a Run asks and ends, as Dialogue sees it.
DialogueState ==
  CASE pc = "top" -> "idle" [] pc = "done" -> "ended" [] OTHER -> "asked"

Abstract ==
  INSTANCE Dialogue WITH Calls <- 1 .. MaxCalls, state <- DialogueState

\* A Run is a Dialogue: each call is taken at most once, and before the next
\* request and before the end a result has been stored for all that were taken, in
\* order, through retries, cancellations and compressions (agent.go:605).
RefinesDialogue == Abstract!Spec
=============================================================================
