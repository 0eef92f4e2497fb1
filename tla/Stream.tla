------------------------------- MODULE Stream -------------------------------
(* One streamed answer of the language model (internal/llm/stream.go): the
   goroutine ChatStream starts, the provider at the other end of its connection
   and the channel it sends events on.  A reader that turns away from a stream
   leaves its goroutine behind; that one can reach nobody any more and is not
   followed.

   Left out: the events that only feed the display or the bill (the start and
   the arguments of a tool call, usage), and with them some of the channel's
   fill; the wording of errors; keep-alive lines and chunks that do not parse. *)
EXTENDS Naturals, Sequences, FiniteSets

CONSTANTS
  ChanCap,      \* capacity of the event channel (8 in the code)
  MaxPieces,    \* bound: thoughts and texts of one answer
  MaxCalls,     \* bound: tool calls the provider makes in the whole Run
  MaxFaults     \* bound: failures no cancellation caused, empty answers apart

ASSUME StreamConstants ==
  /\ ChanCap \in Nat \ {0}
  /\ MaxPieces \in Nat /\ MaxCalls \in Nat /\ MaxFaults \in Nat

VARIABLES
  ctx,          \* "live" or "cancelled": the context of the Run
  chan,         \* the events sent and not yet received
  source,       \* the goroutine that sends them
  made,         \* how many calls the provider has made: the last call's id
  faults        \* how often it has failed

svars == <<ctx, chan, source, made, faults>>

Pieces == {"thought", "text"}

Piece(p) == [type |-> p, id |-> 0]
CallEnd(c) == [type |-> "call", id |-> c]
Error(again) == [type |-> IF again THEN "retryable" ELSE "fatal", id |-> 0]

Events == [type : Pieces \cup {"call", "retryable", "fatal"}, id : 0 .. MaxCalls]

\* at: sending the request, reading its lines, handing over the calls, closed.
\* calls: tool calls whose arguments have come in whole; content: whether
\* anything counts as an answer; pieces: how much has been streamed.
Sources ==
  [at : {"request", "lines", "calls", "closed"},
   calls : Seq(1 .. MaxCalls), content : BOOLEAN, pieces : 0 .. MaxPieces]

Opened == [at |-> "request", calls |-> << >>, content |-> FALSE, pieces |-> 0]
NoSource == [Opened EXCEPT !.at = "closed"]

StreamType ==
  /\ ctx \in {"live", "cancelled"}
  /\ chan \in Seq(Events) /\ Len(chan) <= ChanCap
  /\ source \in Sources
  /\ made \in 0 .. MaxCalls
  /\ faults \in 0 .. MaxFaults

StreamInit ==
  /\ ctx = "live"
  /\ chan = << >>
  /\ source = NoSource
  /\ made = 0
  /\ faults = 0

-----------------------------------------------------------------------------
\* A send waits for room in the channel and for nothing else.
Send(e) == Len(chan) < ChanCap /\ chan' = Append(chan, e)

\* A failure: the cancellation's, or one of the provider's own.
Fault ==
  \/ ctx = "cancelled" /\ UNCHANGED faults
  \/ ctx = "live" /\ faults < MaxFaults /\ faults' = faults + 1

\* No connection, or a status of 400 and more.  The resend without the cache
\* key is another attempt at the same request.  A cancelled request is an
\* error of the transport, which is always marked as one to retry.
Refused ==
  /\ source.at = "request"
  /\ Fault
  /\ \E again \in BOOLEAN :
       /\ ctx = "cancelled" => again
       /\ Send(Error(again))
  /\ source' = [source EXCEPT !.at = "closed"]
  /\ UNCHANGED <<ctx, made>>

Connected ==
  /\ source.at = "request"
  /\ ctx = "live"
  /\ source' = [source EXCEPT !.at = "lines"]
  /\ UNCHANGED <<ctx, chan, made, faults>>

\* A thought is no content: an answer of thoughts alone counts as empty.
Delta(p) ==
  /\ source.at = "lines"
  /\ source.pieces < MaxPieces
  /\ Send(Piece(p))
  /\ source' = [source EXCEPT !.pieces = @ + 1, !.content = @ \/ p = "text"]
  /\ UNCHANGED <<ctx, made, faults>>

\* The arguments of a call are complete.  A call cut off in its arguments is
\* dropped at the end: to the reader it was never made.
CallAccumulated ==
  /\ source.at = "lines"
  /\ made < MaxCalls
  /\ made' = made + 1
  /\ source' = [source EXCEPT !.calls = Append(@, made + 1)]
  /\ UNCHANGED <<ctx, chan, faults>>

\* The connection breaks or falls silent: the error goes out, and after it the
\* calls that were complete.
LinesBroken ==
  /\ source.at = "lines"
  /\ Fault
  /\ Send(Error(TRUE))
  /\ source' = [source EXCEPT !.at = "calls"]
  /\ UNCHANGED <<ctx, made>>

\* [DONE], or the end of the body without it: no difference is made.
LinesEnd ==
  /\ source.at = "lines"
  /\ source' = [source EXCEPT !.at = "calls"]
  /\ UNCHANGED <<ctx, chan, made, faults>>

\* A mutant: a call is handed over as soon as its arguments are complete.
SendCallEarly ==
  /\ source.at \in {"lines", "calls"}
  /\ source.calls # << >>
  /\ Send(CallEnd(Head(source.calls)))
  /\ source' = [source EXCEPT !.calls = Tail(@), !.content = TRUE]
  /\ UNCHANGED <<ctx, made, faults>>

SendCall ==
  /\ source.at = "calls"
  /\ source.calls # << >>
  /\ Send(CallEnd(Head(source.calls)))
  /\ source' = [source EXCEPT !.calls = Tail(@), !.content = TRUE]
  /\ UNCHANGED <<ctx, made, faults>>

\* An answer without text and without calls is turned into an error.
EmptyAnswer ==
  /\ source.at = "calls"
  /\ source.calls = << >> /\ ~source.content
  /\ Send(Error(TRUE))
  /\ source' = [source EXCEPT !.at = "closed"]
  /\ UNCHANGED <<ctx, made, faults>>

\* A mutant: the channel is left open after an answer.
ChannelLeftOpen ==
  /\ source.at = "calls"
  /\ source.calls = << >> /\ source.content
  /\ UNCHANGED svars

ChannelClosed ==
  /\ source.at = "calls"
  /\ source.calls = << >> /\ source.content
  /\ source' = [source EXCEPT !.at = "closed"]
  /\ UNCHANGED <<ctx, chan, made, faults>>

\* Ids follow the order in which the calls were made, and so does the channel.
InOrder(ids) ==
  {s \in [1 .. Cardinality(ids) -> ids] :
     \A i, j \in 1 .. Cardinality(ids) : i < j => s[i] < s[j]}

\* The reader takes the whole of the channel into account when it drains it:
\* the calls in it, and those a waiting sender puts in meanwhile.
InChannel == {c \in 1 .. made : \E i \in DOMAIN chan : chan[i] = CallEnd(c)}

Drainable ==
  UNION {InOrder(InChannel \cup {source.calls[i] : i \in 1 .. k}) : k \in 0 .. Len(source.calls)}

StreamNext ==
  \/ Refused \/ Connected \/ CallAccumulated
  \/ LinesBroken \/ LinesEnd \/ SendCall \/ EmptyAnswer \/ ChannelClosed
  \/ \E p \in Pieces : Delta(p)
=============================================================================
