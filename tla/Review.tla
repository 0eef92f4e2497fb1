------------------------------- MODULE Review -------------------------------
(* How a review of chapters becomes a record and a verdict: run_subagent starts
   a reviewer on a copy of the conversation, the reviewer rates the chapters
   with submit_review and writes a report, and RunSubAgent saves a record and
   returns the text the gate takes its verdict from.

   Messages are reduced to the submit_review calls in them, a rating to five
   whole scores and a count of fatal problems, a report to the verdict it
   states.  The reviewer's Run is AgentLoop's subject. *)
EXTENDS Integers, Sequences, SequencesExt

CONSTANTS
  Ratings,      \* the arguments of submit_review: [dims : Seq(0 .. 10), fatal : Nat]
  MaxRatings,   \* bound: ratings in one conversation, a number
  None

VARIABLES
  main,         \* the submit_review calls in the main agent's messages
  subOpts,      \* the messages RunSubAgent passed to Run, by value; None: no review
  transcript,   \* the messages of the reviewer's Run
  record,       \* the last record saved, or None
  given         \* history: the ratings the reviewer has submitted

vars == <<main, subOpts, transcript, record, given>>

Verdicts == {"pass", "revise", "fail", "unknown"}

Init ==
  /\ main = << >>
  /\ subOpts = None /\ transcript = << >>
  /\ record = None
  /\ given = << >>

-----------------------------------------------------------------------------
\* Hundredths of a point: structure, character, pacing, prose, scene.
Weights == <<30, 25, 20, 15, 10>>

ComputeTotalScore(dims) ==
  FoldLeftDomain(LAMBDA total, i : total + Weights[i] * dims[i], 0, dims)

DeriveVerdict(total, fatal) ==
  CASE fatal > 0 \/ total < 700 -> "fail"
    [] fatal = 0 /\ total >= 900 -> "pass"
    [] OTHER -> "revise"

FromSubmit(rating) ==
  [rating |-> rating,
   verdict |-> DeriveVerdict(ComputeTotalScore(rating.dims), rating.fatal)]

\* Without a stated verdict the report is unknown, or fails if the word occurs.
ParseReport(stated) == [rating |-> None, verdict |-> stated]

\* findSubmitReviewArgs: the last call wins.
FindSubmitReviewArgs(messages) ==
  IF messages = << >> THEN None ELSE Last(messages)

-----------------------------------------------------------------------------
\* The main agent may not rate: the call is refused, and stays in its messages.
MainSubmits(r) ==
  /\ subOpts = None
  /\ Len(main) < MaxRatings
  /\ main' = Append(main, r)
  /\ UNCHANGED <<subOpts, transcript, record, given>>

\* A compression of the main conversation drops what is old.
MainCompressed ==
  /\ subOpts = None
  /\ main' = << >>
  /\ UNCHANGED <<subOpts, transcript, record, given>>

\* The reviewer gets the whole conversation and appends to a slice of its own.
RunSubAgent ==
  /\ subOpts = None
  /\ subOpts' = main /\ transcript' = main
  /\ given' = << >>
  /\ UNCHANGED <<main, record>>

SubmitReview(r) ==
  /\ subOpts # None
  /\ Len(given) < MaxRatings
  /\ transcript' = Append(transcript, r)
  /\ given' = Append(given, r)
  /\ UNCHANGED <<main, subOpts, record>>

\* The Run is over: the arguments are looked for, and the report is read only
\* if there are none.
ReviewDone(stated) ==
  /\ subOpts # None
  /\ LET args == FindSubmitReviewArgs(subOpts)
     IN record' = IF args # None THEN FromSubmit(args) ELSE ParseReport(stated)
  /\ subOpts' = None /\ transcript' = << >>
  /\ UNCHANGED <<main, given>>

\* The Run fails or is cancelled: nothing is saved.
ReviewFails ==
  /\ subOpts # None
  /\ subOpts' = None /\ transcript' = << >>
  /\ UNCHANGED <<main, record, given>>

Next ==
  \/ \E r \in Ratings : MainSubmits(r) \/ SubmitReview(r)
  \/ MainCompressed \/ RunSubAgent \/ ReviewFails
  \/ \E v \in Verdicts : ReviewDone(v)

Spec == Init /\ [][Next]_vars

-----------------------------------------------------------------------------
\* A review whose reviewer submitted a rating is recorded with that rating
\* (agent.go:223: the structured parameters of the sub-agent come first).
ReviewersRating ==
  [][\A v \in Verdicts : ReviewDone(v) /\ given # << >> => record' = FromSubmit(Last(given))]_vars
=============================================================================
