------------------------------ MODULE Dialogue ------------------------------
(* What the agent's loop promises the conversation, whatever the stream,
   the retries, the compressions and the gate do: the model asks; every tool
   call of its answer is taken at most once; and before the model is asked
   again, and before the Run ends, a result has been stored for every call that
   was taken, in the order they were.  AgentLoop implements it. *)
EXTENDS Naturals, Sequences

CONSTANT Calls    \* the tool calls the model may make

VARIABLES
  state,          \* "idle" between two requests, "asked" during one, "ended"
  taken,          \* the calls taken so far, in order
  told            \* the calls whose results have been stored, in order

dvars == <<state, taken, told>>

Init == state = "idle" /\ taken = << >> /\ told = << >>

\* Calls are added, each for the first time.
Grows ==
  /\ taken' \in Seq(Calls)
  /\ Len(taken) <= Len(taken')
  /\ \A i \in DOMAIN taken : taken'[i] = taken[i]
  /\ \A i, j \in DOMAIN taken' : i # j => taken'[i] # taken'[j]

\* A request goes out only when nothing taken is untold.
Ask ==
  /\ state = "idle"
  /\ told = taken
  /\ state' = "asked"
  /\ UNCHANGED <<taken, told>>

\* The next call of the answer: it is performed, or refused.
Take ==
  /\ state = "asked"
  /\ Grows /\ Len(taken') = Len(taken) + 1
  /\ UNCHANGED <<state, told>>

\* The answer is over: the calls that were cut off with it are taken in, and all
\* that were taken are told, at once.
Tell ==
  /\ state = "asked"
  /\ Grows
  /\ told' = taken'
  /\ state' = "idle"

\* A Run ends from either side of a request, never with a result untold.
End ==
  /\ state # "ended"
  /\ IF state = "asked" THEN Grows ELSE UNCHANGED taken
  /\ told' = taken'
  /\ state' = "ended"

Next == Ask \/ Take \/ Tell \/ End

Spec == Init /\ [][Next]_dvars
=============================================================================
