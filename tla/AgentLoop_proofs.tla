-------------------------- MODULE AgentLoop_proofs --------------------------
(***************************************************************************)
(* What the agent loop's run shows on one small Run, proved for every      *)
(* number of turns, retries, calls and messages in the channel: what was   *)
(* streamed is stored, and a Run implements Dialogue.                      *)
(***************************************************************************)
EXTENDS AgentLoop, SequenceTheorems, FiniteSetTheorems, WellFoundedInduction, TLAPS

-----------------------------------------------------------------------------
(* Sequences.                                                              *)

LEMMA AppendFacts ==
  ASSUME NEW S, NEW s \in Seq(S), NEW e \in S
  PROVE  /\ Append(s, e) \in Seq(S)
         /\ Len(Append(s, e)) = Len(s) + 1
         /\ DOMAIN Append(s, e) = 1 .. Len(s) + 1
         /\ \A i \in 1 .. Len(s) : Append(s, e)[i] = s[i]
         /\ Append(s, e)[Len(s) + 1] = e
         /\ Append(s, e) # << >>
         /\ Len(s) \in Nat /\ DOMAIN s = 1 .. Len(s)
OBVIOUS

LEMMA TailFacts ==
  ASSUME NEW S, NEW s \in Seq(S), s # << >>
  PROVE  /\ Tail(s) \in Seq(S)
         /\ Len(s) \in Nat /\ Len(s) >= 1 /\ DOMAIN s = 1 .. Len(s)
         /\ Len(Tail(s)) = Len(s) - 1
         /\ DOMAIN Tail(s) = 1 .. Len(s) - 1
         /\ \A i \in 1 .. Len(s) - 1 : Tail(s)[i] = s[i + 1]
         /\ Head(s) = s[1] /\ Head(s) \in S
OBVIOUS

LEMMA ConcatFacts ==
  ASSUME NEW S, NEW s \in Seq(S), NEW t \in Seq(S)
  PROVE  /\ s \o t \in Seq(S)
         /\ Len(s) \in Nat /\ DOMAIN s = 1 .. Len(s)
         /\ Len(t) \in Nat /\ DOMAIN t = 1 .. Len(t)
         /\ Len(s \o t) = Len(s) + Len(t)
         /\ DOMAIN (s \o t) = 1 .. Len(s) + Len(t)
         /\ \A i \in 1 .. Len(s) : (s \o t)[i] = s[i]
         /\ \A i \in 1 .. Len(t) : (s \o t)[Len(s) + i] = t[i]
OBVIOUS

-----------------------------------------------------------------------------
(* The calls on their way: ids grow along the taken calls, the channel and *)
(* what the goroutine still holds.                                         *)

IsCall(e) == e.type = "call"
IsError(e) == e.type \in {"retryable", "fatal"}

Rising(s) == \A i, j \in DOMAIN s : i < j => s[i] < s[j]

\* The calls of a channel, as far as their order goes.
RisingCalls(c) ==
  \A i, j \in DOMAIN c : i < j /\ IsCall(c[i]) /\ IsCall(c[j]) => c[i].id < c[j].id

\* t: taken, c: in the channel, q: held by the goroutine, m: made.
Ordered(t, c, q, m) ==
  /\ Rising(t) /\ RisingCalls(c) /\ Rising(q)
  /\ \A i \in DOMAIN t : t[i] <= m
  /\ \A i \in DOMAIN c : IsCall(c[i]) => c[i].id \in 1 .. m
  /\ \A k \in DOMAIN q : q[k] \in 1 .. m
  /\ \A i \in DOMAIN t, j \in DOMAIN c : IsCall(c[j]) => t[i] < c[j].id
  /\ \A i \in DOMAIN t, k \in DOMAIN q : t[i] < q[k]
  /\ \A j \in DOMAIN c, k \in DOMAIN q : IsCall(c[j]) => c[j].id < q[k]

CallIds == 1 .. MaxCalls

LEMMA OrderedSendOther ==
  ASSUME NEW t \in Seq(CallIds), NEW c \in Seq(Events), NEW q \in Seq(CallIds), NEW m \in Nat,
         Ordered(t, c, q, m), NEW e \in Events, ~ IsCall(e)
  PROVE  Ordered(t, Append(c, e), q, m)
<1>1. \A i \in DOMAIN Append(c, e) : IsCall(Append(c, e)[i])
        => i \in DOMAIN c /\ Append(c, e)[i] = c[i]
  BY AppendFacts
<1> QED
  BY <1>1 DEF Ordered, RisingCalls

LEMMA OrderedSendCall ==
  ASSUME NEW t \in Seq(CallIds), NEW c \in Seq(Events), NEW q \in Seq(CallIds), NEW m \in Nat,
         Ordered(t, c, q, m), q # << >>, MaxCalls \in Nat
  PROVE  Ordered(t, Append(c, CallEnd(Head(q))), Tail(q), m)
<1> DEFINE e == CallEnd(Head(q))
           d == Append(c, e)
           p == Tail(q)
<1>1. /\ Len(q) \in Nat /\ Len(q) >= 1 /\ DOMAIN q = 1 .. Len(q) /\ Head(q) = q[1]
      /\ DOMAIN p = 1 .. Len(q) - 1 /\ \A i \in DOMAIN p : p[i] = q[i + 1] /\ i + 1 \in DOMAIN q
      /\ 1 \in DOMAIN q /\ \A i \in DOMAIN q : q[i] \in CallIds
  BY TailFacts
<1>2. e \in Events /\ IsCall(e) /\ e.id = q[1]
  BY <1>1 DEF CallEnd, Events, IsCall, CallIds
<1>3. /\ Len(c) \in Nat /\ DOMAIN c = 1 .. Len(c) /\ DOMAIN d = 1 .. Len(c) + 1
      /\ \A i \in DOMAIN c : d[i] = c[i]
      /\ d[Len(c) + 1] = e
  BY <1>2, AppendFacts
<1> HIDE DEF e, d, p
<1>4. Rising(p)
  BY <1>1 DEF Ordered, Rising
<1>5. RisingCalls(d)
  <2> SUFFICES ASSUME NEW i \in DOMAIN d, NEW j \in DOMAIN d, i < j, IsCall(d[i]), IsCall(d[j])
               PROVE  d[i].id < d[j].id
    BY DEF RisingCalls
  <2>1. i \in DOMAIN c
    BY <1>3
  <2>2. CASE j \in DOMAIN c
    BY <2>1, <2>2, <1>3 DEF Ordered, RisingCalls
  <2>3. CASE j = Len(c) + 1
    BY <2>1, <2>3, <1>1, <1>2, <1>3 DEF Ordered
  <2> QED
    BY <1>3, <2>2, <2>3
<1>6. \A i \in DOMAIN d : IsCall(d[i]) => d[i].id \in 1 .. m
  BY <1>1, <1>2, <1>3 DEF Ordered
<1>7. \A k \in DOMAIN p : p[k] \in 1 .. m
  BY <1>1 DEF Ordered
<1>8. \A i \in DOMAIN t, j \in DOMAIN d : IsCall(d[j]) => t[i] < d[j].id
  BY <1>1, <1>2, <1>3 DEF Ordered
<1>9. \A i \in DOMAIN t, k \in DOMAIN p : t[i] < p[k]
  BY <1>1 DEF Ordered
<1>10. \A j \in DOMAIN d, k \in DOMAIN p : IsCall(d[j]) => d[j].id < p[k]
  <2> SUFFICES ASSUME NEW j \in DOMAIN d, NEW k \in DOMAIN p, IsCall(d[j])
               PROVE  d[j].id < p[k]
    OBVIOUS
  <2>1. CASE j \in DOMAIN c
    BY <2>1, <1>1, <1>3 DEF Ordered
  <2>2. CASE j = Len(c) + 1
    <3>1. 1 < k + 1 /\ k + 1 \in DOMAIN q
      BY <1>1
    <3> QED
      BY <3>1, <2>2, <1>1, <1>2, <1>3 DEF Ordered, Rising
  <2> QED
    BY <1>3, <2>1, <2>2
<1> QED
  BY <1>4, <1>5, <1>6, <1>7, <1>8, <1>9, <1>10 DEF Ordered, e, d, p

LEMMA OrderedMade ==
  ASSUME NEW t \in Seq(CallIds), NEW c \in Seq(Events), NEW q \in Seq(CallIds), NEW m \in Nat,
         Ordered(t, c, q, m), m + 1 \in CallIds, MaxCalls \in Nat
  PROVE  Ordered(t, c, Append(q, m + 1), m + 1)
<1> DEFINE p == Append(q, m + 1)
<1>1. /\ Len(q) \in Nat /\ DOMAIN q = 1 .. Len(q) /\ DOMAIN p = 1 .. Len(q) + 1
      /\ \A i \in DOMAIN q : p[i] = q[i] /\ q[i] \in CallIds
      /\ p[Len(q) + 1] = m + 1
  BY AppendFacts
<1>2. \A i \in DOMAIN t : t[i] \in Nat /\ t[i] <= m /\ t[i] < m + 1
  BY DEF Ordered, CallIds
<1>3. \A i \in DOMAIN c : IsCall(c[i]) => c[i].id \in 1 .. m + 1 /\ c[i].id < m + 1
  BY DEF Ordered
<1> HIDE DEF p
<1>4. \A k \in DOMAIN p : \/ k \in DOMAIN q /\ p[k] = q[k] /\ q[k] \in 1 .. m
                          \/ k = Len(q) + 1 /\ p[k] = m + 1
  BY <1>1 DEF Ordered
<1>5. \A k \in DOMAIN p : p[k] \in 1 .. m + 1
  BY <1>4
<1>6. Rising(p)
  <2> SUFFICES ASSUME NEW i \in DOMAIN p, NEW j \in DOMAIN p, i < j PROVE p[i] < p[j]
    BY DEF Rising
  <2>1. i \in DOMAIN q /\ p[i] = q[i] /\ q[i] \in 1 .. m
    BY <1>1, <1>4
  <2>2. CASE j \in DOMAIN q
    BY <2>1, <2>2, <1>1 DEF Ordered, Rising
  <2>3. CASE j = Len(q) + 1
    BY <2>1, <2>3, <1>1
  <2> QED
    BY <2>2, <2>3, <1>1
<1>7. \A i \in DOMAIN t, k \in DOMAIN p : t[i] < p[k]
  BY <1>2, <1>4 DEF Ordered
<1>8. \A j \in DOMAIN c, k \in DOMAIN p : IsCall(c[j]) => c[j].id < p[k]
  BY <1>3, <1>4 DEF Ordered
<1>9. \A i \in DOMAIN t : t[i] <= m + 1
  BY <1>2
<1> QED
  BY <1>3, <1>5, <1>6, <1>7, <1>8, <1>9 DEF Ordered, p

LEMMA OrderedReceive ==
  ASSUME NEW t \in Seq(CallIds), NEW c \in Seq(Events), NEW q \in Seq(CallIds), NEW m \in Nat,
         Ordered(t, c, q, m), c # << >>
  PROVE  Ordered(t, Tail(c), q, m)
<1> DEFINE d == Tail(c)
<1>1. /\ Len(c) \in Nat /\ DOMAIN c = 1 .. Len(c) /\ DOMAIN d = 1 .. Len(c) - 1
      /\ \A i \in DOMAIN d : d[i] = c[i + 1] /\ i + 1 \in DOMAIN c
  BY TailFacts
<1> HIDE DEF d
<1>2. RisingCalls(d)
  BY <1>1 DEF Ordered, RisingCalls
<1> QED
  BY <1>1, <1>2 DEF Ordered, d

LEMMA OrderedTake ==
  ASSUME NEW t \in Seq(CallIds), NEW c \in Seq(Events), NEW q \in Seq(CallIds), NEW m \in Nat,
         Ordered(t, c, q, m), c # << >>, NEW id \in CallIds, Head(c) = CallEnd(id),
         MaxCalls \in Nat
  PROVE  Ordered(Append(t, id), Tail(c), q, m)
<1> DEFINE d == Tail(c)
           u == Append(t, id)
<1>1. /\ Len(c) \in Nat /\ DOMAIN c = 1 .. Len(c) /\ DOMAIN d = 1 .. Len(c) - 1
      /\ \A i \in DOMAIN d : d[i] = c[i + 1] /\ i + 1 \in DOMAIN c
      /\ 1 \in DOMAIN c
  BY TailFacts
<1>2. IsCall(c[1]) /\ c[1].id = id
  BY TailFacts DEF CallEnd, IsCall
<1>3. /\ Len(t) \in Nat /\ DOMAIN t = 1 .. Len(t) /\ DOMAIN u = 1 .. Len(t) + 1
      /\ \A i \in DOMAIN t : u[i] = t[i]
      /\ u[Len(t) + 1] = id
  BY AppendFacts
<1>4. \A i \in DOMAIN t : t[i] < id
  BY <1>1, <1>2 DEF Ordered
<1>5. Ordered(t, d, q, m)
  BY OrderedReceive
<1> HIDE DEF d, u
<1>6. Rising(u)
  <2> SUFFICES ASSUME NEW i \in DOMAIN u, NEW j \in DOMAIN u, i < j PROVE u[i] < u[j]
    BY DEF Rising
  <2>1. i \in DOMAIN t /\ u[i] = t[i]
    BY <1>3
  <2>2. CASE j \in DOMAIN t
    BY <2>1, <2>2, <1>3 DEF Ordered, Rising
  <2>3. CASE j = Len(t) + 1
    BY <2>1, <2>3, <1>3, <1>4
  <2> QED
    BY <2>2, <2>3, <1>3
<1>7. \A i \in DOMAIN u : u[i] <= m
  BY <1>1, <1>2, <1>3 DEF Ordered
<1>8. \A i \in DOMAIN u, j \in DOMAIN d : IsCall(d[j]) => u[i] < d[j].id
  <2>1. \A j \in DOMAIN d : IsCall(d[j]) => id < d[j].id
    <3> SUFFICES ASSUME NEW j \in DOMAIN d, IsCall(d[j]) PROVE id < d[j].id
      OBVIOUS
    <3>1. 1 < j + 1 /\ j + 1 \in DOMAIN c /\ d[j] = c[j + 1]
      BY <1>1
    <3> QED
      BY <3>1, <1>1, <1>2 DEF Ordered, RisingCalls
  <2> QED
    BY <2>1, <1>3, <1>5 DEF Ordered
<1>9. \A i \in DOMAIN u, k \in DOMAIN q : u[i] < q[k]
  <2>1. \A k \in DOMAIN q : id < q[k]
    BY <1>1, <1>2 DEF Ordered
  <2> QED
    BY <2>1, <1>3, <1>5 DEF Ordered
<1> QED
  BY <1>5, <1>6, <1>7, <1>8, <1>9 DEF Ordered, d, u

\* The calls of a drained answer come after all that were taken.
LEMMA OrderedDrain ==
  ASSUME MaxCalls \in Nat, made \in 0 .. MaxCalls, taken \in Seq(CallIds), chan \in Seq(Events),
         source.calls \in Seq(CallIds), Ordered(taken, chan, source.calls, made),
         NEW cut \in Drainable
  PROVE  cut \in Seq(CallIds) /\ Ordered(taken \o cut, << >>, << >>, made)
<1> DEFINE u == taken \o cut
<1>1. PICK k \in 0 .. Len(source.calls) :
        cut \in InOrder(InChannel \cup {source.calls[i] : i \in 1 .. k})
  BY DEF Drainable
<1> DEFINE ids == InChannel \cup {source.calls[i] : i \in 1 .. k}
<1>2. 1 .. k \subseteq DOMAIN source.calls
  BY LenProperties
<1>3. \A c \in ids : c \in 1 .. made /\ \A i \in DOMAIN taken : taken[i] < c
  <2>1. ASSUME NEW c \in InChannel PROVE c \in 1 .. made /\ \A i \in DOMAIN taken : taken[i] < c
    <3>1. PICK j \in DOMAIN chan : chan[j] = CallEnd(c)
      BY <2>1 DEF InChannel
    <3> QED
      BY <2>1, <3>1 DEF InChannel, Ordered, CallEnd, IsCall
  <2>2. ASSUME NEW i \in 1 .. k
        PROVE  source.calls[i] \in 1 .. made /\ \A j \in DOMAIN taken : taken[j] < source.calls[i]
    BY <1>2 DEF Ordered
  <2> QED
    BY <2>1, <2>2
<1> HIDE DEF ids
<1>4. Cardinality(ids) \in Nat
  <2>1. IsFiniteSet(1 .. made)
    BY FS_Interval
  <2>2. IsFiniteSet(ids)
    BY <1>3, <2>1, FS_Subset
  <2> QED
    BY <2>2, FS_CardinalityType
<1> DEFINE n == Cardinality(ids)
<1>5. cut \in [1 .. n -> ids] /\ Rising(cut)
  BY <1>1 DEF InOrder, Rising, ids
<1> HIDE DEF n
<1>6. \A i \in 1 .. n : cut[i] \in 1 .. made /\ cut[i] \in CallIds
                        /\ \A j \in DOMAIN taken : taken[j] < cut[i]
  <2>1. \A i \in 1 .. n : cut[i] \in ids
    BY <1>5
  <2> QED
    BY <2>1, <1>3 DEF CallIds
<1>7. cut \in Seq(CallIds) /\ Len(cut) = n /\ DOMAIN cut = 1 .. n
  <2>1. cut \in [1 .. n -> CallIds] /\ n \in Nat
    BY <1>4, <1>5, <1>6 DEF n
  <2> QED
    BY <2>1
<1>8. /\ Len(taken) \in Nat /\ DOMAIN taken = 1 .. Len(taken)
      /\ DOMAIN u = 1 .. Len(taken) + n
      /\ \A i \in 1 .. Len(taken) : u[i] = taken[i]
      /\ \A i \in 1 .. n : u[Len(taken) + i] = cut[i]
  <2>1. cut \in Seq(CallIds)
    BY <1>7
  <2>2. /\ Len(taken) \in Nat /\ DOMAIN taken = 1 .. Len(taken)
        /\ DOMAIN (taken \o cut) = 1 .. Len(taken) + Len(cut)
        /\ \A i \in 1 .. Len(taken) : (taken \o cut)[i] = taken[i]
        /\ \A i \in 1 .. Len(cut) : (taken \o cut)[Len(taken) + i] = cut[i]
    BY <2>1, ConcatFacts
  <2> QED
    BY <2>2, <1>7
<1> HIDE DEF u
<1>9. \A i \in DOMAIN u : \/ i \in DOMAIN taken /\ u[i] = taken[i]
                          \/ i - Len(taken) \in 1 .. n /\ u[i] = cut[i - Len(taken)]
  <2> SUFFICES ASSUME NEW i \in DOMAIN u, i \notin DOMAIN taken
               PROVE  i - Len(taken) \in 1 .. n /\ u[i] = cut[i - Len(taken)]
    BY <1>8
  <2>1. i - Len(taken) \in 1 .. n /\ Len(taken) + (i - Len(taken)) = i
    BY <1>4, <1>8 DEF n
  <2> QED
    BY <2>1, <1>8
<1>10. Rising(u)
  <2> SUFFICES ASSUME NEW i \in DOMAIN u, NEW j \in DOMAIN u, i < j PROVE u[i] < u[j]
    BY DEF Rising
  <2>0. i \in Int /\ j \in Int /\ Len(taken) \in Int /\ n \in Nat
    BY <1>4, <1>8 DEF n
  <2>1. CASE i \in DOMAIN taken /\ j \in DOMAIN taken
    BY <2>1, <1>8 DEF Ordered, Rising
  <2>2. CASE i \in DOMAIN taken /\ j \notin DOMAIN taken
    BY <2>2, <1>6, <1>8, <1>9
  <2>3. CASE i \notin DOMAIN taken
    <3>1. j \notin DOMAIN taken
      BY <2>0, <2>3, <1>8
    <3>2. /\ i - Len(taken) \in 1 .. n /\ u[i] = cut[i - Len(taken)]
          /\ j - Len(taken) \in 1 .. n /\ u[j] = cut[j - Len(taken)]
      BY <2>3, <3>1, <1>9
    <3>3. i - Len(taken) < j - Len(taken)
      BY <2>0
    <3> QED
      BY <3>2, <3>3, <1>5, <1>7 DEF Rising
  <2> QED
    BY <2>1, <2>2, <2>3
<1>11. \A i \in DOMAIN u : u[i] <= made
  BY <1>6, <1>9 DEF Ordered
<1> QED
  BY <1>7, <1>10, <1>11 DEF Ordered, Rising, RisingCalls, u

-----------------------------------------------------------------------------
(* The inductive invariant.                                                *)

\* The types, but for that of the conversation.
LoopType ==
  /\ StreamType
  /\ agentType \in {"main", "sub"}
  /\ pc \in {"top", "stream", "sleep", "done"}
  /\ buffer \in Seq(Pieces)
  /\ toolOutputs \in Seq(Outputs)
  /\ executedTools \in BOOLEAN /\ interrupted \in BOOLEAN
  /\ retryCount \in 0 .. MaxLLMRetries
  /\ loopCount \in 0 .. MaxTurns
  /\ failCnt \in 0 .. FailLimit
  /\ ended \in {"no", "answered", "interrupted", "turns", "error", "dropped"}
  /\ spent \in [advances : 0 .. MaxAdvances, compressions : 0 .. MaxCompressions]
  /\ taken \in Seq(CallIds) /\ told \in Seq(CallIds)
  /\ stored \in Seq(Pieces)

\* No call is taken twice: it is taken, in the channel or still with the goroutine.
InLine == Ordered(taken, chan, source.calls, made)

\* An answer's calls are the last it sends: after one of them no error can come,
\* so that a retry and a failure meet no output.
CallsLast ==
  /\ pc = "stream" /\ toolOutputs # << >> => \A i \in DOMAIN chan : ~ IsError(chan[i])
  /\ \A i, j \in DOMAIN chan : i < j /\ IsCall(chan[i]) => ~ IsError(chan[j])
  /\ pc = "stream" /\ (toolOutputs # << >> \/ \E i \in DOMAIN chan : IsCall(chan[i]))
       => source.at = "closed" \/ (source.at = "calls" /\ source.content)
  /\ pc = "sleep" => toolOutputs = << >> /\ chan = << >> /\ buffer = << >>

\* Between two answers all that was taken is told and all that was streamed is
\* stored; during one, what is not yet told is in toolOutputs.
Books ==
  /\ pc \in {"stream", "sleep"} => taken = told \o Ids(toolOutputs) /\ loopCount < MaxTurns
  /\ pc \in {"top", "done"} => taken = told /\ buffer \in {<< >>, stored}

LoopInv == LoopType /\ InLine /\ CallsLast /\ Books

LEMMA ConstantFacts ==
  /\ ChanCap \in Nat /\ MaxPieces \in Nat /\ MaxCalls \in Nat /\ MaxFaults \in Nat
  /\ MaxTurns \in Nat /\ FailLimit \in Nat /\ MaxLLMRetries \in Nat
  /\ MaxAdvances \in Nat /\ MaxCompressions \in Nat
BY StreamConstants, LoopConstants

\* The variables a step of the stream leaves alone.
LEMMA StreamFrame ==
  ASSUME LoopInv, pc = "stream", StreamType', InLine',
         UNCHANGED <<agentType, pc, messages, loopVars, ended, spent, history>>,
         toolOutputs # << >> => \A i \in DOMAIN chan' : ~ IsError(chan'[i]),
         \A i, j \in DOMAIN chan' : i < j /\ IsCall(chan'[i]) => ~ IsError(chan'[j]),
         (toolOutputs # << >> \/ \E i \in DOMAIN chan' : IsCall(chan'[i]))
           => source'.at = "closed" \/ (source'.at = "calls" /\ source'.content)
  PROVE  LoopInv'
<1>1. LoopType'
  BY DEF LoopInv, LoopType, loopVars, history
<1>2. CallsLast'
  BY DEF loopVars, CallsLast
<1>3. Books'
  BY DEF LoopInv, Books, loopVars, history
<1> QED
  BY <1>1, <1>2, <1>3 DEF LoopInv

\* A thought or a text is sent, by a goroutine that has sent no call.
LEMMA SendPiece ==
  ASSUME LoopInv, pc = "stream", NEW p \in Pieces, Delta(p),
         UNCHANGED <<agentType, pc, messages, loopVars, ended, spent, history>>
  PROVE  LoopInv'
<1> DEFINE e == Piece(p)
<1>1. e \in Events /\ ~ IsCall(e) /\ ~ IsError(e)
  BY ConstantFacts DEF Piece, Pieces, Events, IsCall, IsError
<1>2. chan \in Seq(Events) /\ chan' = Append(chan, e) /\ Len(chan) < ChanCap /\ source \in Sources
  BY DEF LoopInv, LoopType, StreamType, Delta, Send
<1>3. /\ Len(chan) \in Nat /\ DOMAIN chan = 1 .. Len(chan) /\ DOMAIN chan' = 1 .. Len(chan) + 1
      /\ \A i \in DOMAIN chan : chan'[i] = chan[i]
      /\ chan'[Len(chan) + 1] = e
      /\ Len(chan') = Len(chan) + 1 /\ chan' \in Seq(Events)
  BY <1>1, <1>2, AppendFacts
<1> HIDE DEF e
<1>4. source'.calls = source.calls /\ source'.at = source.at
      /\ (source.content => source'.content) /\ source' \in Sources
  <2>1. source' = [source EXCEPT !.pieces = @ + 1, !.content = @ \/ p = "text"]
        /\ source.pieces < MaxPieces
    BY DEF Delta
  <2>2. (source.content \/ p = "text") \in BOOLEAN /\ source.pieces + 1 \in 0 .. MaxPieces
    BY <1>2, <2>1, ConstantFacts DEF Sources
  <2>3. source'.calls = source.calls /\ source'.at = source.at
        /\ source'.content = (source.content \/ p = "text")
        /\ source'.pieces = source.pieces + 1
    BY <1>2, <2>1 DEF Sources
  <2>4. source' = [at |-> source.at, calls |-> source.calls, content |-> source'.content,
                   pieces |-> source.pieces + 1]
    BY <1>2, <2>1 DEF Sources
  <2> QED
    BY <1>2, <2>2, <2>3, <2>4 DEF Sources
<1>5. StreamType'
  BY <1>2, <1>3, <1>4, ConstantFacts, SMTT(30) DEF LoopInv, LoopType, StreamType, Delta
<1>6. InLine'
  <2>1. /\ taken \in Seq(CallIds) /\ source.calls \in Seq(CallIds) /\ made \in Nat
        /\ Ordered(taken, chan, source.calls, made)
    BY <1>2, ConstantFacts DEF LoopInv, LoopType, StreamType, InLine, Sources, CallIds
  <2>2. Ordered(taken, Append(chan, e), source.calls, made)
    BY <1>1, <1>2, <2>1, OrderedSendOther
  <2>3. taken' = taken /\ made' = made
    BY DEF Delta, history
  <2> QED
    BY <1>2, <1>4, <2>2, <2>3 DEF InLine
<1> QED
  BY <1>1, <1>3, <1>4, <1>5, <1>6, StreamFrame DEF LoopInv, CallsLast

\* An error is sent, by a goroutine that has sent no call and will send some only
\* after it.
LEMMA SendError ==
  ASSUME LoopInv, pc = "stream", NEW again \in BOOLEAN, Send(Error(again)),
         source' \in Sources, source'.calls = source.calls, made' = made,
         ctx' = ctx, faults' \in 0 .. MaxFaults,
         UNCHANGED <<agentType, pc, messages, loopVars, ended, spent, history>>,
         source.at # "closed", ~ (source.at = "calls" /\ source.content)
  PROVE  LoopInv'
<1> DEFINE e == Error(again)
<1>1. e \in Events /\ ~ IsCall(e)
  BY ConstantFacts DEF Error, Events, IsCall
<1>2. chan \in Seq(Events) /\ chan' = Append(chan, e) /\ Len(chan) < ChanCap /\ source \in Sources
  BY DEF LoopInv, LoopType, StreamType, Send
<1>3. /\ Len(chan) \in Nat /\ DOMAIN chan = 1 .. Len(chan) /\ DOMAIN chan' = 1 .. Len(chan) + 1
      /\ \A i \in DOMAIN chan : chan'[i] = chan[i]
      /\ chan'[Len(chan) + 1] = e
      /\ Len(chan') = Len(chan) + 1 /\ chan' \in Seq(Events)
  BY <1>1, <1>2, AppendFacts
<1> HIDE DEF e
<1>4. StreamType'
  BY <1>2, <1>3, ConstantFacts DEF LoopInv, LoopType, StreamType
<1>5. InLine'
  <2>1. /\ taken \in Seq(CallIds) /\ source.calls \in Seq(CallIds) /\ made \in Nat
        /\ Ordered(taken, chan, source.calls, made)
    BY <1>2, ConstantFacts DEF LoopInv, LoopType, StreamType, InLine, Sources, CallIds
  <2>2. Ordered(taken, Append(chan, e), source.calls, made)
    BY <1>1, <1>2, <2>1, OrderedSendOther
  <2> QED
    BY <1>2, <2>2 DEF InLine, history
<1>6. toolOutputs = << >> /\ \A i \in DOMAIN chan : ~ IsCall(chan[i])
  BY DEF LoopInv, CallsLast
<1>7. \A i \in DOMAIN chan' : ~ IsCall(chan'[i])
  BY <1>1, <1>3, <1>6
<1> QED
  BY <1>4, <1>5, <1>6, <1>7, StreamFrame

LEMMA SendCallStep ==
  ASSUME LoopInv, pc = "stream", SendCall,
         UNCHANGED <<agentType, pc, messages, loopVars, ended, spent, history>>
  PROVE  LoopInv'
<1> DEFINE e == CallEnd(Head(source.calls))
<1>1. source.calls \in Seq(CallIds) /\ source.calls # << >> /\ source \in Sources
  BY DEF LoopInv, LoopType, StreamType, SendCall, Sources, CallIds
<1>2. Head(source.calls) \in CallIds /\ Tail(source.calls) \in Seq(CallIds)
  BY <1>1
<1>3. e \in Events /\ IsCall(e) /\ ~ IsError(e)
  BY <1>2, ConstantFacts DEF CallEnd, Events, IsCall, IsError, CallIds
<1>4. chan \in Seq(Events) /\ chan' = Append(chan, e) /\ Len(chan) < ChanCap
  BY DEF LoopInv, LoopType, StreamType, SendCall, Send
<1>5. /\ Len(chan) \in Nat /\ DOMAIN chan = 1 .. Len(chan) /\ DOMAIN chan' = 1 .. Len(chan) + 1
      /\ \A i \in DOMAIN chan : chan'[i] = chan[i]
      /\ chan'[Len(chan) + 1] = e
      /\ Len(chan') = Len(chan) + 1 /\ chan' \in Seq(Events)
  BY <1>3, <1>4, AppendFacts
<1>6. source' \in Sources /\ source'.calls = Tail(source.calls)
      /\ source'.at = "calls" /\ source'.content
  BY <1>1, <1>2 DEF SendCall, Sources, CallIds
<1>7. StreamType'
  BY <1>4, <1>5, <1>6, ConstantFacts, SMTT(30) DEF LoopInv, LoopType, StreamType, SendCall
<1>8. InLine'
  <2>1. /\ taken \in Seq(CallIds) /\ made \in Nat
        /\ Ordered(taken, chan, source.calls, made)
    BY ConstantFacts DEF LoopInv, LoopType, StreamType, InLine, CallIds
  <2>2. Ordered(taken, Append(chan, e), Tail(source.calls), made)
    BY <1>1, <1>4, <2>1, OrderedSendCall, ConstantFacts
  <2>3. taken' = taken /\ made' = made
    BY DEF SendCall, history
  <2> QED
    BY <1>4, <1>6, <2>2, <2>3 DEF InLine
<1> HIDE DEF e
<1> QED
  BY <1>3, <1>5, <1>6, <1>7, <1>8, StreamFrame DEF LoopInv, CallsLast

LEMMA FaultStep ==
  ASSUME LoopInv, Fault
  PROVE  faults' \in 0 .. MaxFaults
<1>1. faults \in 0 .. MaxFaults /\ MaxFaults \in Nat
  BY ConstantFacts DEF LoopInv, LoopType, StreamType
<1>2. faults' = faults \/ (faults < MaxFaults /\ faults' = faults + 1)
  BY DEF Fault
<1> QED
  BY <1>1, <1>2

LEMMA StreamStep ==
  ASSUME LoopInv, Produce
  PROVE  LoopInv'
<1>0. /\ pc = "stream"
      /\ UNCHANGED <<agentType, pc, messages, loopVars, ended, spent, history>>
  BY DEF Produce
<1>1. CASE Refused
  <2>1. PICK again \in BOOLEAN : Send(Error(again))
    BY <1>1 DEF Refused
  <2>2. source' \in Sources /\ source'.calls = source.calls /\ source.at = "request"
    BY <1>1 DEF Refused, LoopInv, LoopType, StreamType, Sources
  <2>3. made' = made /\ ctx' = ctx /\ faults' \in 0 .. MaxFaults
    BY <1>1, FaultStep DEF Refused
  <2> QED
    BY <1>0, <2>1, <2>2, <2>3, SendError
<1>2. CASE LinesBroken
  <2>1. Send(Error(TRUE))
    BY <1>2 DEF LinesBroken
  <2>2. source' \in Sources /\ source'.calls = source.calls /\ source.at = "lines"
    BY <1>2 DEF LinesBroken, LoopInv, LoopType, StreamType, Sources
  <2>3. made' = made /\ ctx' = ctx /\ faults' \in 0 .. MaxFaults
    BY <1>2, FaultStep DEF LinesBroken
  <2> QED
    BY <1>0, <2>1, <2>2, <2>3, SendError
<1>3. CASE EmptyAnswer
  <2>1. Send(Error(TRUE))
    BY <1>3 DEF EmptyAnswer
  <2>2. source' \in Sources /\ source'.calls = source.calls
        /\ source.at = "calls" /\ ~ source.content
    BY <1>3 DEF EmptyAnswer, LoopInv, LoopType, StreamType, Sources
  <2>3. made' = made /\ ctx' = ctx /\ faults' \in 0 .. MaxFaults
    BY <1>3 DEF EmptyAnswer, LoopInv, LoopType, StreamType
  <2> QED
    BY <1>0, <2>1, <2>2, <2>3, SendError
<1>4. CASE Connected \/ LinesEnd \/ ChannelClosed
  <2>1. /\ source' \in Sources /\ source'.calls = source.calls
        /\ UNCHANGED <<ctx, chan, made, faults>>
    BY <1>4 DEF Connected, LinesEnd, ChannelClosed, LoopInv, LoopType, StreamType, Sources
  <2>2. source.at # "closed" /\ (source.at = "calls" => source'.at = "closed")
    BY <1>4 DEF Connected, LinesEnd, ChannelClosed, LoopInv, LoopType, StreamType, Sources
  <2>3. StreamType' /\ InLine'
    BY <1>0, <2>1 DEF LoopInv, LoopType, StreamType, InLine, history
  <2> QED
    BY <1>0, <2>1, <2>2, <2>3, StreamFrame DEF LoopInv, CallsLast
<1>5. CASE CallAccumulated
  <2>1. /\ source \in Sources /\ source.calls \in Seq(CallIds) /\ made + 1 \in CallIds
        /\ made \in Nat /\ UNCHANGED <<ctx, chan, faults>> /\ made' = made + 1
    <3>1. source \in Sources /\ made \in 0 .. MaxCalls
      BY DEF LoopInv, LoopType, StreamType
    <3>2. made < MaxCalls /\ UNCHANGED <<ctx, chan, faults>> /\ made' = made + 1
      BY <1>5 DEF CallAccumulated
    <3>3. made + 1 \in CallIds
      BY <3>1, <3>2, ConstantFacts DEF CallIds
    <3>4. source.calls \in Seq(CallIds)
      BY <3>1 DEF Sources, CallIds
    <3> QED
      BY <3>1, <3>2, <3>3, <3>4, ConstantFacts
  <2>2. Append(source.calls, made + 1) \in Seq(CallIds)
    BY <2>1
  <2>3. /\ source' \in Sources /\ source'.calls = Append(source.calls, made + 1)
        /\ source.at = "lines" /\ source'.at = "lines"
    BY <1>5, <2>1, <2>2 DEF CallAccumulated, Sources, CallIds
  <2>4. StreamType'
    BY <2>1, <2>3, ConstantFacts DEF LoopInv, LoopType, StreamType, CallIds
  <2>5. InLine'
    BY <1>0, <2>1, <2>3, OrderedMade, ConstantFacts
       DEF LoopInv, LoopType, StreamType, InLine, history
  <2> QED
    BY <1>0, <2>1, <2>3, <2>4, <2>5, StreamFrame DEF LoopInv, CallsLast
<1>6. CASE SendCall
  BY <1>0, <1>6, SendCallStep
<1>7. ASSUME NEW p \in Pieces, Delta(p) PROVE LoopInv'
  BY <1>0, <1>7, SendPiece
<1> QED
  BY <1>1, <1>2, <1>3, <1>4, <1>5, <1>6, <1>7 DEF Produce, StreamNext

-----------------------------------------------------------------------------
(* The steps of the loop.                                                  *)

\* The calls of outputs, and of outputs with one more.
LEMMA IdsFacts ==
  ASSUME NEW outputs \in Seq(Outputs)
  PROVE  /\ Ids(outputs) \in Seq(CallIds) /\ Len(Ids(outputs)) = Len(outputs)
         /\ \A i \in 1 .. Len(outputs) : Ids(outputs)[i] = outputs[i].id
         /\ outputs = << >> => Ids(outputs) = << >>
<1>1. Len(outputs) \in Nat /\ DOMAIN outputs = 1 .. Len(outputs)
      /\ \A i \in 1 .. Len(outputs) : outputs[i].id \in CallIds
  <2>1. \A i \in 1 .. Len(outputs) : outputs[i] \in Outputs
    OBVIOUS
  <2>2. \A o \in Outputs : o.id \in CallIds
    BY DEF Outputs, CallIds
  <2> QED
    BY <2>1, <2>2
<1>2. Ids(outputs) = [i \in 1 .. Len(outputs) |-> outputs[i].id]
  BY <1>1 DEF Ids
<1>3. Ids(outputs) \in [1 .. Len(outputs) -> CallIds]
  BY <1>1, <1>2
<1>4. Ids(outputs) \in Seq(CallIds) /\ Len(Ids(outputs)) = Len(outputs)
  BY <1>1, <1>3
<1>5. outputs = << >> => Ids(outputs) = << >>
  BY <1>4
<1> QED
  BY <1>2, <1>4, <1>5

LEMMA IdsAppend ==
  ASSUME NEW before \in Seq(CallIds), NEW outputs \in Seq(Outputs), NEW o \in Outputs
  PROVE  before \o Ids(Append(outputs, o)) = Append(before \o Ids(outputs), o.id)
<1> DEFINE more == Append(outputs, o)
<1>1. /\ more \in Seq(Outputs) /\ Len(more) = Len(outputs) + 1
      /\ \A i \in 1 .. Len(outputs) : more[i] = outputs[i]
      /\ more[Len(outputs) + 1] = o
      /\ Len(outputs) \in Nat /\ o.id \in CallIds
  BY AppendFacts DEF Outputs, CallIds
<1> HIDE DEF more
<1>2. /\ Ids(more) \in Seq(CallIds) /\ Len(Ids(more)) = Len(outputs) + 1
      /\ \A i \in 1 .. Len(outputs) : Ids(more)[i] = Ids(outputs)[i]
      /\ Ids(more)[Len(outputs) + 1] = o.id
      /\ Ids(outputs) \in Seq(CallIds) /\ Len(Ids(outputs)) = Len(outputs)
  BY <1>1, IdsFacts, SMTT(30)
<1>3. Ids(more) = Append(Ids(outputs), o.id)
  <2>1. Append(Ids(outputs), o.id) \in Seq(CallIds)
        /\ Len(Append(Ids(outputs), o.id)) = Len(outputs) + 1
    BY <1>1, <1>2, AppendFacts
  <2>2. \A i \in 1 .. Len(outputs) + 1 : Ids(more)[i] = Append(Ids(outputs), o.id)[i]
    BY <1>1, <1>2, AppendFacts
  <2> QED
    BY <1>2, <2>1, <2>2, SeqEqual
<1>4. before \o Append(Ids(outputs), o.id) = Append(before \o Ids(outputs), o.id)
  BY <1>1, <1>2
<1> QED
  BY <1>3, <1>4 DEF more

LEMMA IdsConcat ==
  ASSUME NEW before \in Seq(CallIds), NEW outputs \in Seq(Outputs), NEW cut \in Seq(CallIds),
         NEW more \in Seq(Outputs), Len(more) = Len(cut), \A i \in 1 .. Len(cut) : more[i].id = cut[i]
  PROVE  before \o Ids(outputs \o more) = (before \o Ids(outputs)) \o cut
<1> DEFINE all == outputs \o more
<1>1. /\ all \in Seq(Outputs) /\ Len(all) = Len(outputs) + Len(cut)
      /\ \A i \in 1 .. Len(outputs) : all[i] = outputs[i]
      /\ \A i \in 1 .. Len(cut) : all[Len(outputs) + i] = more[i]
      /\ Len(outputs) \in Nat /\ Len(cut) \in Nat
  <2>1. all \in Seq(Outputs) /\ Len(outputs) \in Nat /\ Len(cut) \in Nat
    BY ConcatFacts
  <2>2. Len(all) = Len(outputs) + Len(more)
    BY ConcatFacts
  <2>3. \A i \in 1 .. Len(outputs) : all[i] = outputs[i]
    BY ConcatFacts
  <2>4. \A i \in 1 .. Len(more) : all[Len(outputs) + i] = more[i]
    BY ConcatFacts
  <2> QED
    BY <2>1, <2>2, <2>3, <2>4
<1> HIDE DEF all
<1>2. /\ Ids(all) \in Seq(CallIds) /\ Len(Ids(all)) = Len(outputs) + Len(cut)
      /\ \A i \in 1 .. Len(outputs) : Ids(all)[i] = Ids(outputs)[i]
      /\ \A i \in 1 .. Len(cut) : Ids(all)[Len(outputs) + i] = cut[i]
      /\ Ids(outputs) \in Seq(CallIds) /\ Len(Ids(outputs)) = Len(outputs)
  <2>1. /\ Ids(all) \in Seq(CallIds) /\ Len(Ids(all)) = Len(all)
        /\ \A i \in 1 .. Len(all) : Ids(all)[i] = all[i].id
    BY <1>1, IdsFacts
  <2>2. /\ Ids(outputs) \in Seq(CallIds) /\ Len(Ids(outputs)) = Len(outputs)
        /\ \A i \in 1 .. Len(outputs) : Ids(outputs)[i] = outputs[i].id
    BY IdsFacts
  <2>3. \A i \in 1 .. Len(cut) : Len(outputs) + i \in 1 .. Len(all)
    BY <1>1
  <2>4. \A i \in 1 .. Len(outputs) : i \in 1 .. Len(all)
    BY <1>1
  <2>5. \A i \in 1 .. Len(outputs) : Ids(all)[i] = Ids(outputs)[i]
    BY <1>1, <2>1, <2>2, <2>4
  <2>6. \A i \in 1 .. Len(cut) : Ids(all)[Len(outputs) + i] = cut[i]
    BY <1>1, <2>1, <2>3
  <2> QED
    BY <1>1, <2>1, <2>2, <2>5, <2>6
<1>3. Ids(all) = Ids(outputs) \o cut
  <2>1. /\ Ids(outputs) \o cut \in Seq(CallIds)
        /\ Len(Ids(outputs) \o cut) = Len(outputs) + Len(cut)
    BY <1>2, ConcatFacts, SMTT(30)
  <2>0. /\ \A i \in 1 .. Len(outputs) : (Ids(outputs) \o cut)[i] = Ids(outputs)[i]
        /\ \A i \in 1 .. Len(cut) : (Ids(outputs) \o cut)[Len(outputs) + i] = cut[i]
    BY <1>2, ConcatFacts
  <2>2. ASSUME NEW i \in 1 .. Len(outputs) + Len(cut)
        PROVE  Ids(all)[i] = (Ids(outputs) \o cut)[i]
    <3>1. CASE i \in 1 .. Len(outputs)
      BY <3>1, <1>2, <2>0
    <3>2. CASE i \notin 1 .. Len(outputs)
      <4>1. i - Len(outputs) \in 1 .. Len(cut) /\ Len(outputs) + (i - Len(outputs)) = i
        BY <3>2, <1>1
      <4> QED
        BY <4>1, <1>2, <2>0
    <3> QED
      BY <3>1, <3>2
  <2> QED
    BY <1>2, <2>1, <2>2, SeqEqual
<1>4. before \o (Ids(outputs) \o cut) = (before \o Ids(outputs)) \o cut
  BY <1>2
<1> QED
  BY <1>3, <1>4 DEF all

LEMMA BeginStep ==
  ASSUME LoopInv, BeginRequest
  PROVE  LoopInv'
<1>1. Opened \in Sources /\ Opened.calls = << >>
  BY ConstantFacts DEF Opened, Sources
<1>2. spent' \in [advances : 0 .. MaxAdvances, compressions : 0 .. MaxCompressions]
  BY ConstantFacts, SMTT(30) DEF BeginRequest, CompressionAsked, LoopInv, LoopType
<1>3. LoopType'
  <2>1. StreamType'
    BY <1>1, ConstantFacts DEF BeginRequest, LoopInv, LoopType, StreamType
  <2>2. toolOutputs' \in Seq(Outputs) /\ executedTools' \in BOOLEAN
    <3>1. toolOutputs' = << >> /\ executedTools' = FALSE
      BY DEF BeginRequest
    <3>2. << >> \in Seq(Outputs)
      OBVIOUS
    <3> QED
      BY <3>1, <3>2
  <2>3. pc' = "stream" /\ UNCHANGED <<agentType, interrupted, retryCount, loopCount,
                                     failCnt, buffer, ended, taken, told, stored>>
    BY DEF BeginRequest, history
  <2> QED
    BY <1>2, <2>1, <2>2, <2>3 DEF LoopInv, LoopType
<1>4. InLine'
  BY <1>1 DEF BeginRequest, LoopInv, InLine, Ordered, Rising, RisingCalls, history
<1>5. CallsLast'
  BY DEF BeginRequest, CallsLast
<1>6. Books'
  <2>1. toolOutputs' = << >> /\ told' \in Seq(CallIds) /\ taken' = told' /\ loopCount' < MaxTurns
        /\ pc' = "stream"
    BY DEF BeginRequest, LoopInv, LoopType, Books, history
  <2>2. toolOutputs' \in Seq(Outputs)
    BY <2>1
  <2>3. Ids(toolOutputs') = << >>
    BY <2>1, <2>2, IdsFacts
  <2>4. told' \o Ids(toolOutputs') = told'
    BY <2>1, <2>3
  <2> QED
    BY <2>1, <2>4 DEF Books
<1> QED
  BY <1>3, <1>4, <1>5, <1>6 DEF LoopInv

LEMMA TurnsStep ==
  ASSUME LoopInv, TurnsUsedUp
  PROVE  LoopInv'
<1>1. LoopType'
  BY DEF TurnsUsedUp, Return, LoopInv, LoopType, StreamType, svars, loopVars, history
<1> QED
  BY <1>1 DEF TurnsUsedUp, Return, LoopInv, InLine, CallsLast, Books, svars, loopVars, history

\* What a received event leaves of the channel.
LEMMA ReceivedFacts ==
  ASSUME LoopInv, NEW e, Received(e)
  PROVE  /\ pc = "stream" /\ chan' \in Seq(Events) /\ Len(chan') <= ChanCap
         /\ 1 \in DOMAIN chan /\ chan[1] = e /\ e \in Events
         /\ \A i \in DOMAIN chan' : i + 1 \in DOMAIN chan /\ chan'[i] = chan[i + 1]
         /\ \A i \in DOMAIN chan' : i \in Nat /\ 1 < i + 1
<1>1. chan \in Seq(Events) /\ chan # << >> /\ chan' = Tail(chan) /\ Head(chan) = e
      /\ Len(chan) <= ChanCap /\ pc = "stream"
  BY DEF LoopInv, LoopType, StreamType, Received
<1> QED
  BY <1>1, TailFacts, ConstantFacts

LEMMA PieceStep ==
  ASSUME LoopInv, ReceivePiece
  PROVE  LoopInv'
<1>1. PICK p \in Pieces :
        /\ Received(Piece(p))
        /\ buffer' = Append(buffer, p)
        /\ retryCount' = IF p = "text" THEN 0 ELSE retryCount
  BY DEF ReceivePiece
<1>2. /\ pc = "stream" /\ chan' \in Seq(Events) /\ Len(chan') <= ChanCap
      /\ \A i \in DOMAIN chan' : i + 1 \in DOMAIN chan /\ chan'[i] = chan[i + 1] /\ i \in Nat
  BY <1>1, ReceivedFacts
<1>3. LoopType'
  BY <1>1, <1>2, ConstantFacts DEF ReceivePiece, LoopInv, LoopType, StreamType, history
<1>4. InLine'
  <2>1. chan # << >> /\ chan' = Tail(chan) /\ taken' = taken /\ source' = source /\ made' = made
    BY <1>1 DEF Received, ReceivePiece, history
  <2>2. /\ taken \in Seq(CallIds) /\ source.calls \in Seq(CallIds) /\ made \in Nat
        /\ Ordered(taken, chan, source.calls, made) /\ chan \in Seq(Events)
    BY ConstantFacts DEF LoopInv, LoopType, StreamType, InLine, Sources, CallIds
  <2> QED
    BY <2>1, <2>2, OrderedReceive DEF InLine
<1>5. CallsLast'
  BY <1>2 DEF ReceivePiece, LoopInv, CallsLast
<1>6. Books'
  BY <1>2 DEF ReceivePiece, LoopInv, Books, history
<1> QED
  BY <1>3, <1>4, <1>5, <1>6 DEF LoopInv

\* A call is taken, whatever becomes of it.
LEMMA TakeStep ==
  ASSUME LoopInv, NEW c \in 1 .. made, NEW how \in {"executed", "unrun"}, Received(CallEnd(c)),
         toolOutputs' = Append(toolOutputs, [id |-> c, how |-> how]),
         taken' = Append(taken, c),
         executedTools' \in BOOLEAN, failCnt' \in 0 .. FailLimit,
         UNCHANGED <<ctx, source, made, faults, agentType, pc, interrupted, retryCount,
                     loopCount, buffer, ended, spent, told, stored>>
  PROVE  LoopInv'
<1> DEFINE o == [id |-> c, how |-> how]
<1>1. c \in CallIds /\ o \in Outputs /\ o.id = c
  <2>1. made \in 0 .. MaxCalls
    BY DEF LoopInv, LoopType, StreamType
  <2>2. c \in 1 .. MaxCalls
    BY <2>1, ConstantFacts
  <2> QED
    BY <2>2 DEF CallIds, Outputs
<1>2. /\ pc = "stream" /\ chan' \in Seq(Events) /\ Len(chan') <= ChanCap
      /\ 1 \in DOMAIN chan /\ chan[1] = CallEnd(c)
      /\ \A i \in DOMAIN chan' : i + 1 \in DOMAIN chan /\ chan'[i] = chan[i + 1]
                                 /\ i \in Nat /\ 1 < i + 1
  BY ReceivedFacts
<1>3. /\ toolOutputs \in Seq(Outputs) /\ taken \in Seq(CallIds) /\ told \in Seq(CallIds)
      /\ toolOutputs' \in Seq(Outputs) /\ taken' \in Seq(CallIds)
  BY <1>1 DEF LoopInv, LoopType
<1>4. LoopType'
  BY <1>2, <1>3 DEF LoopInv, LoopType, StreamType
<1>5. InLine'
  <2>1. chan # << >> /\ chan' = Tail(chan) /\ Head(chan) = CallEnd(c)
    BY DEF Received
  <2>2. /\ source.calls \in Seq(CallIds) /\ made \in Nat
        /\ Ordered(taken, chan, source.calls, made) /\ chan \in Seq(Events)
    BY ConstantFacts DEF LoopInv, LoopType, StreamType, InLine, Sources, CallIds
  <2> QED
    BY <1>1, <1>3, <2>1, <2>2, OrderedTake, ConstantFacts DEF InLine
<1>6. CallsLast'
  <2>1. IsCall(chan[1])
    BY <1>2 DEF IsCall, CallEnd
  <2>2. \A i \in DOMAIN chan' : ~ IsError(chan'[i])
    BY <1>2, <2>1 DEF LoopInv, CallsLast
  <2>3. source'.at = "closed" \/ (source'.at = "calls" /\ source'.content)
    BY <1>2, <2>1 DEF LoopInv, CallsLast
  <2> QED
    BY <1>2, <2>2, <2>3 DEF CallsLast
<1>7. Books'
  <2>1. taken = told \o Ids(toolOutputs) /\ loopCount < MaxTurns
    BY <1>2 DEF LoopInv, Books
  <2>2. told \o Ids(toolOutputs') = Append(told \o Ids(toolOutputs), c)
    BY <1>1, <1>3, IdsAppend
  <2> QED
    BY <1>2, <2>1, <2>2 DEF Books
<1> QED
  BY <1>4, <1>5, <1>6, <1>7 DEF LoopInv

LEMMA UnrunStep ==
  ASSUME LoopInv, ReceiveUnrun
  PROVE  LoopInv'
<1>1. PICK c \in 1 .. made :
        /\ Received(CallEnd(c))
        /\ toolOutputs' = Append(toolOutputs, [id |-> c, how |-> "unrun"])
        /\ taken' = Append(taken, c)
  BY DEF ReceiveUnrun
<1>2. executedTools' \in BOOLEAN /\ failCnt' \in 0 .. FailLimit
  BY DEF ReceiveUnrun, LoopInv, LoopType
<1> QED
  BY <1>1, <1>2, TakeStep DEF ReceiveUnrun

LEMMA ExecutedStep ==
  ASSUME LoopInv, ReceiveExecuted
  PROVE  LoopInv'
<1>1. PICK c \in 1 .. made :
        /\ Received(CallEnd(c))
        /\ toolOutputs' = Append(toolOutputs, [id |-> c, how |-> "executed"])
        /\ taken' = Append(taken, c)
  BY DEF ReceiveExecuted
<1>2. executedTools' \in BOOLEAN /\ failCnt' \in 0 .. FailLimit
  <2>1. /\ failCnt \in 0 .. FailLimit /\ executedTools' = TRUE
        /\ failCnt' = failCnt \/ (failCnt < FailLimit /\ failCnt' \in {failCnt + 1, 0})
    BY DEF ReceiveExecuted, LoopInv, LoopType
  <2> QED
    BY <2>1, ConstantFacts
<1> QED
  BY <1>1, <1>2, TakeStep DEF ReceiveExecuted

\* An error at the head of the channel finds no output: the calls come last.
LEMMA ErrorFirst ==
  ASSUME LoopInv, pc = "stream", chan # << >>, Head(chan) \in {Error(TRUE), Error(FALSE)}
  PROVE  toolOutputs = << >>
<1>1. 1 \in DOMAIN chan /\ Head(chan) = chan[1]
  BY TailFacts DEF LoopInv, LoopType, StreamType
<1>2. IsError(chan[1])
  BY <1>1 DEF IsError, Error
<1> QED
  BY <1>1, <1>2 DEF LoopInv, CallsLast

LEMMA RetryStep ==
  ASSUME LoopInv, Retry
  PROVE  LoopInv' /\ toolOutputs = << >>
<1>1. toolOutputs = << >>
  BY ErrorFirst DEF Retry, MayRetry
<1>2. NoSource \in Sources /\ NoSource.calls = << >>
  <2>1. Opened \in Sources
    BY ConstantFacts DEF Opened, Sources
  <2> QED
    BY <2>1 DEF NoSource, Opened, Sources
<1>3. LoopType'
  <2>1. retryCount' \in 0 .. MaxLLMRetries
    BY ConstantFacts DEF Retry, MayRetry, LoopInv, LoopType
  <2> QED
    BY <1>2, <2>1, ConstantFacts DEF Retry, LoopInv, LoopType, StreamType, history
<1>4. InLine'
  BY <1>2 DEF Retry, LoopInv, InLine, Ordered, Rising, RisingCalls, history
<1>5. CallsLast'
  BY <1>1 DEF Retry, CallsLast
<1>6. Books'
  BY DEF Retry, LoopInv, Books, history
<1> QED
  BY <1>1, <1>3, <1>4, <1>5, <1>6 DEF LoopInv

LEMMA NothingUntold ==
  ASSUME LoopInv, pc \in {"stream", "sleep"}, toolOutputs = << >>
  PROVE  taken = told
<1>1. told \in Seq(CallIds) /\ Ids(toolOutputs) = << >> /\ taken = told \o Ids(toolOutputs)
  BY IdsFacts DEF LoopInv, LoopType, Books
<1> QED
  BY <1>1

LEMMA WakeStep ==
  ASSUME LoopInv, Wake
  PROVE  LoopInv'
<1>1. pc = "sleep" /\ toolOutputs = << >> /\ chan = << >> /\ buffer = << >>
  BY DEF Wake, LoopInv, CallsLast
<1>2. taken = told
  BY <1>1, NothingUntold
<1>3. Opened \in Sources /\ Opened.calls = << >>
  BY ConstantFacts DEF Opened, Sources
<1>4. LoopType'
  BY <1>3 DEF Wake, Return, LoopInv, LoopType, StreamType, loopVars, history
<1>5. InLine'
  BY <1>1, <1>3 DEF Wake, LoopInv, InLine, Ordered, Rising, RisingCalls, history
<1>6. CallsLast'
  BY <1>1 DEF Wake, Return, CallsLast, loopVars
<1>7. Books'
  BY <1>1, <1>2 DEF Wake, Return, LoopInv, Books, loopVars, history
<1> QED
  BY <1>4, <1>5, <1>6, <1>7 DEF LoopInv

LEMMA FailStep ==
  ASSUME LoopInv, FailWithPartial
  PROVE  LoopInv'
<1>1. PICK e : Received(e) /\ e \in {Error(TRUE), Error(FALSE)}
  BY DEF FailWithPartial, ReceivedError
<1>2. /\ pc = "stream" /\ chan' \in Seq(Events) /\ Len(chan') <= ChanCap
      /\ \A i \in DOMAIN chan' : i + 1 \in DOMAIN chan /\ chan'[i] = chan[i + 1] /\ i \in Nat
  BY <1>1, ReceivedFacts
<1>3. taken = told
  <2>1. toolOutputs = << >>
    BY <1>1, <1>2, ErrorFirst DEF Received
  <2> QED
    BY <2>1, <1>2, NothingUntold
<1>4. pc' = "done" /\ ended' = "error" /\ buffer' = buffer /\ stored' \in {stored, buffer}
      /\ buffer' \in {<< >>, stored'}
  BY DEF FailWithPartial, Return, loopVars
<1>5. LoopType'
  <2>1. StreamType'
    BY <1>2 DEF FailWithPartial, LoopInv, LoopType, StreamType
  <2> QED
    BY <1>4, <2>1 DEF FailWithPartial, LoopInv, LoopType, loopVars
<1>6. InLine'
  <2>1. chan # << >> /\ chan' = Tail(chan) /\ taken' = taken /\ source' = source /\ made' = made
    BY <1>1 DEF Received, FailWithPartial
  <2>2. /\ taken \in Seq(CallIds) /\ source.calls \in Seq(CallIds) /\ made \in Nat
        /\ Ordered(taken, chan, source.calls, made) /\ chan \in Seq(Events)
    BY ConstantFacts DEF LoopInv, LoopType, StreamType, InLine, Sources, CallIds
  <2> QED
    BY <2>1, <2>2, OrderedReceive DEF InLine
<1>7. CallsLast'
  <2>1. \A i, j \in DOMAIN chan' : i < j /\ IsCall(chan'[i]) => ~ IsError(chan'[j])
    BY <1>2 DEF LoopInv, CallsLast
  <2> QED
    BY <1>4, <2>1 DEF CallsLast
<1>8. Books'
  BY <1>3, <1>4 DEF FailWithPartial, Books
<1> QED
  BY <1>5, <1>6, <1>7, <1>8 DEF LoopInv

\* The end of an answer, of which outputs are all the calls.
LEMMA AnswerStep ==
  ASSUME LoopInv, pc = "stream", NEW outputs \in Seq(Outputs), NEW isInterrupted \in BOOLEAN,
         AnswerOver(outputs, isInterrupted),
         chan' = << >>, source' \in Sources,
         taken' \in Seq(CallIds), taken' = told \o Ids(outputs),
         Ordered(taken', << >>, source'.calls, made)
  PROVE  LoopInv'
<1>1. /\ made' = made /\ toolOutputs' = outputs /\ interrupted' = isInterrupted
      /\ UNCHANGED <<ctx, faults, agentType, executedTools, retryCount, failCnt>>
  BY DEF AnswerOver
<1>2. StreamType'
  BY <1>1, ConstantFacts DEF LoopInv, LoopType, StreamType
<1>3. /\ buffer \in Seq(Pieces) /\ stored \in Seq(Pieces) /\ told \in Seq(CallIds)
      /\ loopCount \in 0 .. MaxTurns /\ loopCount < MaxTurns /\ MaxTurns \in Nat
      /\ spent \in [advances : 0 .. MaxAdvances, compressions : 0 .. MaxCompressions]
  BY ConstantFacts DEF LoopInv, LoopType, Books
<1>4. Advances => spent' \in [advances : 0 .. MaxAdvances, compressions : 0 .. MaxCompressions]
  <2> SUFFICES ASSUME Advances
               PROVE  spent' \in [advances : 0 .. MaxAdvances, compressions : 0 .. MaxCompressions]
    OBVIOUS
  <2>1. spent' = [spent EXCEPT !.advances = @ + 1] /\ spent.advances < MaxAdvances
    BY DEF Advances, CanAdvance
  <2>2. spent.advances + 1 \in 0 .. MaxAdvances
    BY <1>3, <2>1, ConstantFacts, SMTT(30)
  <2> QED
    BY <1>3, <2>1, <2>2
<1>5. /\ pc' \in {"top", "done"}
      /\ told' = taken'
      /\ buffer' \in {<< >>, stored'} /\ buffer' \in Seq(Pieces) /\ stored' \in Seq(Pieces)
      /\ loopCount' \in 0 .. MaxTurns
      /\ ended' \in {ended, "answered", "interrupted"}
      /\ spent' = spent \/ Advances
  <2>1. CASE outputs = << >>
    <3>1. NoCalls(isInterrupted)
      BY <2>1 DEF AnswerOver
    <3>2. /\ buffer' = buffer /\ loopCount' = loopCount /\ told' = told
          /\ stored' = IF buffer = << >> THEN stored ELSE buffer
      BY <3>1 DEF NoCalls
    <3>3. /\ pc' \in {"top", "done"} /\ ended' \in {ended, "answered", "interrupted"}
          /\ spent' = spent \/ Advances
      BY <3>1 DEF NoCalls, Return
    <3>4. told \o Ids(outputs) = told
      <4>1. Ids(outputs) = << >>
        BY <2>1, IdsFacts
      <4> QED
        BY <1>3, <4>1
    <3> QED
      BY <1>3, <3>2, <3>3, <3>4
  <2>2. CASE outputs # << >>
    <3>1. WithCalls(outputs, isInterrupted)
      BY <2>2 DEF AnswerOver
    <3>2. told' = told \o Ids(outputs) /\ stored' = buffer
      BY <3>1 DEF WithCalls
    <3>3. \/ pc' = "done" /\ ended' = "interrupted" /\ UNCHANGED <<buffer, loopCount, spent>>
          \/ /\ buffer' = << >> /\ loopCount' = loopCount + 1 /\ pc' = "top" /\ ended' = ended
             /\ UNCHANGED spent \/ Advances
      BY <3>1 DEF WithCalls, Return
    <3>4. << >> \in Seq(Pieces) /\ loopCount + 1 \in 0 .. MaxTurns
      BY <1>3
    <3> QED
      BY <1>3, <3>2, <3>3, <3>4
  <2> QED
    BY <2>1, <2>2
<1>6. LoopType'
  BY <1>1, <1>2, <1>3, <1>4, <1>5 DEF LoopInv, LoopType
<1>7. InLine'
  BY <1>1 DEF InLine
<1>8. CallsLast'
  BY <1>5 DEF CallsLast
<1>9. Books'
  BY <1>5 DEF Books
<1> QED
  BY <1>6, <1>7, <1>8, <1>9 DEF LoopInv

LEMMA StreamOverStep ==
  ASSUME LoopInv, StreamOver
  PROVE  LoopInv'
<1>1. /\ pc = "stream" /\ chan = << >> /\ AnswerOver(toolOutputs, interrupted)
      /\ UNCHANGED <<chan, source, taken>>
  BY DEF StreamOver
<1>2. /\ toolOutputs \in Seq(Outputs) /\ interrupted \in BOOLEAN /\ source \in Sources
      /\ taken \in Seq(CallIds)
  BY DEF LoopInv, LoopType, StreamType
<1>3. taken = told \o Ids(toolOutputs) /\ Ordered(taken, << >>, source.calls, made)
  BY <1>1 DEF LoopInv, Books, InLine
<1> QED
  BY <1>1, <1>2, <1>3, AnswerStep

LEMMA InterruptStep ==
  ASSUME LoopInv, Interrupt
  PROVE  /\ LoopInv'
         /\ \E cut \in Seq(CallIds) : taken' = taken \o cut
         /\ \E outputs \in Seq(Outputs) : AnswerOver(outputs, TRUE)
<1>1. PICK cut \in Drainable :
        /\ taken' = taken \o cut
        /\ AnswerOver(toolOutputs \o [i \in DOMAIN cut |-> [id |-> cut[i], how |-> "cut"]], TRUE)
  BY DEF Interrupt
<1> DEFINE more == [i \in DOMAIN cut |-> [id |-> cut[i], how |-> "cut"]]
<1>2. pc = "stream" /\ chan' = << >> /\ source' = NoSource
  BY DEF Interrupt
<1>3. NoSource \in Sources /\ NoSource.calls = << >>
  <2>1. Opened \in Sources
    BY ConstantFacts DEF Opened, Sources
  <2> QED
    BY <2>1 DEF NoSource, Opened, Sources
<1>4. /\ made \in 0 .. MaxCalls /\ taken \in Seq(CallIds) /\ chan \in Seq(Events)
      /\ told \in Seq(CallIds) /\ toolOutputs \in Seq(Outputs)
      /\ source.calls \in Seq(CallIds) /\ Ordered(taken, chan, source.calls, made)
  BY DEF LoopInv, LoopType, StreamType, InLine, Sources, CallIds
<1>5. cut \in Seq(CallIds) /\ Ordered(taken \o cut, << >>, << >>, made)
  BY <1>4, ConstantFacts, OrderedDrain
<1>6. more \in Seq(Outputs) /\ Len(more) = Len(cut) /\ \A i \in 1 .. Len(cut) : more[i].id = cut[i]
  <2>1. Len(cut) \in Nat /\ DOMAIN cut = 1 .. Len(cut) /\ \A i \in DOMAIN cut : cut[i] \in CallIds
    BY <1>5
  <2>2. \A i \in DOMAIN cut : [id |-> cut[i], how |-> "cut"] \in Outputs
    BY <2>1 DEF Outputs, CallIds
  <2>3. more \in [1 .. Len(cut) -> Outputs]
    BY <2>1, <2>2
  <2>4. \A i \in 1 .. Len(cut) : more[i].id = cut[i]
    BY <2>1
  <2> HIDE DEF more
  <2> QED
    BY <2>1, <2>3, <2>4
<1> HIDE DEF more
<1>7. taken' = told \o Ids(toolOutputs \o more)
  <2>1. taken = told \o Ids(toolOutputs)
    BY <1>2 DEF LoopInv, Books
  <2>2. told \o Ids(toolOutputs \o more) = (told \o Ids(toolOutputs)) \o cut
    BY <1>4, <1>5, <1>6, IdsConcat, SMTT(30)
  <2> QED
    BY <1>1, <2>1, <2>2
<1>8. toolOutputs \o more \in Seq(Outputs) /\ taken' \in Seq(CallIds)
  BY <1>1, <1>4, <1>5, <1>6, ConcatFacts
<1>9. AnswerOver(toolOutputs \o more, TRUE)
  BY <1>1 DEF more
<1>10. LoopInv'
  BY <1>1, <1>2, <1>3, <1>5, <1>7, <1>8, <1>9, AnswerStep
<1> QED
  BY <1>1, <1>5, <1>8, <1>9, <1>10

LEMMA LoopStep ==
  ASSUME LoopInv, [Next]_vars
  PROVE  LoopInv'
<1>1. CASE Loop
  BY <1>1, BeginStep, TurnsStep, PieceStep, UnrunStep, ExecutedStep, RetryStep, WakeStep,
     FailStep, StreamOverStep, InterruptStep DEF Loop
<1>2. CASE Produce
  BY <1>2, StreamStep
<1>3. CASE Cancel
  BY <1>3 DEF Cancel, LoopInv, LoopType, StreamType, InLine, CallsLast, Books, loopVars, history
<1>4. CASE UNCHANGED vars
  BY <1>4 DEF vars, svars, LoopInv, LoopType, StreamType, InLine, CallsLast, Books, loopVars, history
<1> QED
  BY <1>1, <1>2, <1>3, <1>4 DEF Next

-----------------------------------------------------------------------------
\* The inductive invariant, for every stream, retry and cancellation.
THEOREM LoopInvariant == Spec => []LoopInv
<1>1. Init => LoopInv
  <2> SUFFICES ASSUME Init PROVE LoopInv
    OBVIOUS
  <2>1. NoSource \in Sources /\ NoSource.calls = << >>
    <3>1. Opened \in Sources
      BY ConstantFacts DEF Opened, Sources
    <3> QED
      BY <3>1 DEF NoSource, Opened, Sources
  <2>2. LoopType
    <3>1. StreamType
      BY <2>1, ConstantFacts DEF Init, StreamInit, StreamType
    <3>2. /\ buffer = << >> /\ toolOutputs = << >> /\ taken = << >> /\ told = << >> /\ stored = << >>
          /\ executedTools = FALSE /\ interrupted = FALSE
          /\ retryCount = 0 /\ loopCount = 0 /\ failCnt = 0
          /\ spent = [advances |-> 0, compressions |-> 0]
          /\ agentType \in {"main", "sub"} /\ pc = "top" /\ ended = "no"
      BY DEF Init
    <3>3. << >> \in Seq(Pieces) /\ << >> \in Seq(Outputs) /\ << >> \in Seq(CallIds)
      OBVIOUS
    <3>4. spent \in [advances : 0 .. MaxAdvances, compressions : 0 .. MaxCompressions]
      BY <3>2, ConstantFacts
    <3>5. retryCount \in 0 .. MaxLLMRetries /\ loopCount \in 0 .. MaxTurns /\ failCnt \in 0 .. FailLimit
      BY <3>2, ConstantFacts
    <3> QED
      BY <3>1, <3>2, <3>3, <3>4, <3>5 DEF LoopType
  <2>3. InLine
    BY <2>1 DEF Init, StreamInit, InLine, Ordered, Rising, RisingCalls
  <2>4. CallsLast /\ Books
    BY DEF Init, StreamInit, CallsLast, Books
  <2> QED
    BY <2>2, <2>3, <2>4 DEF LoopInv
<1>2. LoopInv /\ [Next]_vars => LoopInv'
  BY LoopStep
<1> QED
  BY <1>1, <1>2, PTL DEF Spec

\* However a Run returns, what the model has streamed of an answer is stored: only
\* a retry, which is followed by another attempt or a cancellation, throws text away.
THEOREM TextStoredHolds == Spec => []TextStored
<1>1. LoopInv => TextStored
  BY DEF LoopInv, Books, TextStored
<1> QED
  BY <1>1, LoopInvariant, PTL

-----------------------------------------------------------------------------
(* A Run is a Dialogue.                                                    *)

\* Between two states of the loop the taken calls only grow, each for the first
\* time, whatever is appended.
LEMMA TakenGrows ==
  ASSUME LoopInv, LoopInv', NEW more \in Seq(CallIds), taken' = taken \o more
  PROVE  Abstract!Grows
<1>1. /\ taken \in Seq(CallIds) /\ taken' \in Seq(CallIds) /\ Rising(taken')
  BY DEF LoopInv, LoopType, InLine, Ordered
<1>2. Len(taken) <= Len(taken') /\ \A i \in DOMAIN taken : taken'[i] = taken[i]
  <2>1. /\ Len(taken) \in Nat /\ Len(more) \in Nat /\ Len(taken') = Len(taken) + Len(more)
        /\ DOMAIN taken = 1 .. Len(taken) /\ \A i \in 1 .. Len(taken) : taken'[i] = taken[i]
    BY <1>1, ConcatFacts
  <2> QED
    BY <2>1
<1>3. \A i, j \in DOMAIN taken' : i # j => taken'[i] # taken'[j]
  <2>1. DOMAIN taken' = 1 .. Len(taken') /\ Len(taken') \in Nat
        /\ \A i \in DOMAIN taken' : taken'[i] \in Int
    BY <1>1, ConstantFacts DEF CallIds
  <2> QED
    BY <1>1, <2>1, SMTT(30) DEF Rising
<1> QED
  BY <1>1, <1>2, <1>3 DEF Abstract!Grows, CallIds

LEMMA TakenStays ==
  ASSUME LoopInv, LoopInv', taken' = taken
  PROVE  Abstract!Grows
<1>1. taken \in Seq(CallIds) /\ << >> \in Seq(CallIds)
  BY DEF LoopInv, LoopType
<1>2. taken' = taken \o << >>
  BY <1>1
<1> QED
  BY <1>1, <1>2, TakenGrows

LEMMA TakenOne ==
  ASSUME LoopInv, LoopInv', NEW c \in 1 .. made, taken' = Append(taken, c)
  PROVE  Abstract!Grows /\ Len(taken') = Len(taken) + 1
<1>1. taken \in Seq(CallIds) /\ c \in CallIds /\ << c >> \in Seq(CallIds)
  <2>1. made \in 0 .. MaxCalls /\ taken \in Seq(CallIds)
    BY DEF LoopInv, LoopType, StreamType
  <2>2. c \in CallIds
    BY <2>1, ConstantFacts DEF CallIds
  <2> QED
    BY <2>1, <2>2
<1>2. taken' = taken \o << c >>
  BY <1>1
<1>3. Len(taken') = Len(taken) + 1
  BY <1>1, AppendFacts
<1> QED
  BY <1>1, <1>2, <1>3, TakenGrows

\* The end of an answer is told, and the Run goes on or ends.
LEMMA AnswerTells ==
  ASSUME LoopInv, LoopInv', pc = "stream", NEW outputs, NEW isInterrupted,
         AnswerOver(outputs, isInterrupted), Abstract!Grows
  PROVE  Abstract!Tell \/ Abstract!End
<1>1. pc' \in {"top", "done"}
  BY DEF AnswerOver, NoCalls, WithCalls, Return
<1>2. told' = taken'
  BY <1>1 DEF LoopInv, Books
<1>3. DialogueState = "asked"
  BY DEF DialogueState
<1>4. CASE pc' = "top"
  <2>1. DialogueState' = "idle"
    BY <1>4 DEF DialogueState
  <2> QED
    BY <1>2, <1>3, <2>1 DEF Abstract!Tell
<1>5. CASE pc' = "done"
  <2>1. DialogueState' = "ended"
    BY <1>5 DEF DialogueState
  <2> QED
    BY <1>2, <1>3, <2>1 DEF Abstract!End
<1> QED
  BY <1>1, <1>4, <1>5

LEMMA DialogueStep ==
  ASSUME LoopInv, LoopInv', [Next]_vars
  PROVE  [Abstract!Next]_(Abstract!dvars)
<1>1. CASE BeginRequest
  <2>1. DialogueState = "idle" /\ DialogueState' = "asked" /\ taken' = taken /\ told' = told
    BY <1>1 DEF BeginRequest, DialogueState, history
  <2>2. told = taken
    BY <1>1 DEF BeginRequest, LoopInv, Books
  <2> QED
    BY <2>1, <2>2 DEF Abstract!Next, Abstract!Ask
<1>2. CASE TurnsUsedUp
  <2>1. DialogueState = "idle" /\ DialogueState' = "ended" /\ taken' = taken /\ told' = told
    BY <1>2 DEF TurnsUsedUp, Return, DialogueState, history
  <2>2. told = taken
    BY <1>2 DEF TurnsUsedUp, LoopInv, Books
  <2> QED
    BY <2>1, <2>2 DEF Abstract!Next, Abstract!End
<1>3. CASE ReceiveUnrun \/ ReceiveExecuted
  <2>1. PICK c \in 1 .. made : taken' = Append(taken, c) /\ Received(CallEnd(c))
    BY <1>3 DEF ReceiveUnrun, ReceiveExecuted
  <2>2. DialogueState = "asked" /\ DialogueState' = "asked" /\ told' = told
    BY <1>3, <2>1 DEF ReceiveUnrun, ReceiveExecuted, Received, DialogueState
  <2> QED
    BY <2>1, <2>2, TakenOne DEF Abstract!Next, Abstract!Take
<1>4. CASE ReceivePiece \/ Retry \/ Produce \/ Cancel \/ UNCHANGED vars
  <2>1. DialogueState' = DialogueState
    BY <1>4 DEF ReceivePiece, Received, Retry, Produce, Cancel, vars, DialogueState
  <2>2. taken' = taken /\ told' = told
    BY <1>4 DEF ReceivePiece, Retry, Produce, Cancel, vars, history
  <2> QED
    BY <2>1, <2>2 DEF Abstract!dvars
<1>5. CASE Wake
  <2>1. taken' = taken /\ told' = told /\ DialogueState = "asked"
    BY <1>5 DEF Wake, history, DialogueState
  <2>2. CASE pc' = "stream"
    BY <2>1, <2>2 DEF DialogueState, Abstract!dvars
  <2>3. CASE pc' = "done"
    <3>1. DialogueState' = "ended" /\ told' = taken'
      BY <2>3 DEF DialogueState, LoopInv, Books
    <3> QED
      BY <2>1, <3>1, TakenStays DEF Abstract!Next, Abstract!End
  <2> QED
    BY <1>5, <2>2, <2>3 DEF Wake, Return
<1>6. CASE FailWithPartial
  <2>1. taken' = taken /\ DialogueState = "asked" /\ DialogueState' = "ended" /\ pc' = "done"
    BY <1>6 DEF FailWithPartial, ReceivedError, Received, Return, DialogueState
  <2>2. told' = taken'
    BY <2>1 DEF LoopInv, Books
  <2> QED
    BY <2>1, <2>2, TakenStays DEF Abstract!Next, Abstract!End
<1>7. CASE StreamOver
  BY <1>7, TakenStays, AnswerTells DEF StreamOver, Abstract!Next
<1>8. CASE Interrupt
  <2>1. PICK more \in Seq(CallIds) : taken' = taken \o more
    BY <1>8, InterruptStep
  <2>2. Abstract!Grows
    BY <2>1, TakenGrows
  <2> QED
    BY <1>8, <2>2, AnswerTells DEF Interrupt, Abstract!Next
<1> QED
  BY <1>1, <1>2, <1>3, <1>4, <1>5, <1>6, <1>7, <1>8 DEF Next, Loop

\* The detailed Run implements the abstract Dialogue: no call is taken twice, and
\* before every request and at the end of the Run all that was taken has a result.
THEOREM RunIsDialogue == Spec => RefinesDialogue
<1>1. Init => Abstract!Init
  BY DEF Init, Abstract!Init, DialogueState
<1>2. LoopInv /\ LoopInv' /\ [Next]_vars => [Abstract!Next]_(Abstract!dvars)
  BY DialogueStep
<1> QED
  BY <1>1, <1>2, LoopInvariant, PTL DEF Spec, RefinesDialogue, Abstract!Spec

-----------------------------------------------------------------------------
(* The conversation.                                                       *)

\* Every call of a message is answered further on, no call twice.
AllAnswered(ms) ==
  /\ \A i \in DOMAIN ms : \A c \in Range(ms[i].calls) :
       \E j \in DOMAIN ms : i < j /\ ms[j].answers = c
  /\ \A i, j \in DOMAIN ms : ms[i].answers = ms[j].answers /\ ms[i].answers # 0 => i = j

\* The messages speak of the told calls only.
OfKnown(ms, ids) ==
  \A i \in DOMAIN ms :
    /\ ms[i].answers # 0 => ms[i].answers \in Range(ids)
    /\ Range(ms[i].calls) \subseteq Range(ids)

\* From message k to the result j there is nothing but results, and k made the
\* call, or is the reminder about overthinking that came between, whose own
\* predecessor made the call or is the summary the conversation was cut behind.
Follows(ms, k, j) ==
  /\ \A l \in k + 1 .. j : ms[l].role = "tool"
  /\ \/ ms[k].role = "assistant" /\ ms[j].answers \in Range(ms[k].calls)
     \/ /\ ms[k].role = "overthink" /\ k > 1
        /\ \/ ms[k - 1].role = "assistant" /\ ms[j].answers \in Range(ms[k - 1].calls)
           \/ ms[k - 1].role = "summary"

Placed(ms) ==
  \A j \in DOMAIN ms : ms[j].answers # 0 => \E k \in 1 .. j - 1 : Follows(ms, k, j)

Conversation(ms, ids) ==
  /\ ms \in Seq(Message) /\ ms # << >> /\ IsUser(ms[1])
  /\ AllAnswered(ms) /\ OfKnown(ms, ids) /\ Placed(ms)

ConversationInv == Conversation(messages, told)

\* A message without calls that answers none.
Plain(m) == m.calls = << >> /\ m.answers = 0

LEMMA PlainMessages ==
  /\ \A tag \in UserRoles : User(tag) \in Message /\ Plain(User(tag)) /\ IsUser(User(tag))
  /\ Assistant(<< >>) \in Message /\ Plain(Assistant(<< >>))
BY ConstantFacts DEF User, Assistant, Message, Plain, IsUser

\* Messages that neither make nor answer a call change nothing for the others.
LEMMA PlainAppended ==
  ASSUME NEW ms, NEW ids, Conversation(ms, ids), NEW more \in Seq(Message),
         \A i \in DOMAIN more : Plain(more[i])
  PROVE  Conversation(ms \o more, ids)
<1> DEFINE all == ms \o more
<1>1. ms \in Seq(Message) /\ ms # << >> /\ Len(ms) \in Nat /\ DOMAIN ms = 1 .. Len(ms)
      /\ Len(more) \in Nat /\ DOMAIN more = 1 .. Len(more)
  BY DEF Conversation
<1>2. /\ all \in Seq(Message) /\ DOMAIN all = 1 .. Len(ms) + Len(more)
      /\ \A i \in 1 .. Len(ms) : all[i] = ms[i]
      /\ \A i \in 1 .. Len(more) : all[Len(ms) + i] = more[i]
  BY <1>1, ConcatFacts
<1> HIDE DEF all
<1>3. \A i \in DOMAIN all : i \notin DOMAIN ms => Plain(all[i])
  <2> SUFFICES ASSUME NEW i \in DOMAIN all, i \notin DOMAIN ms PROVE Plain(all[i])
    OBVIOUS
  <2>1. i - Len(ms) \in 1 .. Len(more) /\ Len(ms) + (i - Len(ms)) = i
    BY <1>1, <1>2
  <2> QED
    BY <1>1, <1>2, <2>1
<1>4. all # << >> /\ IsUser(all[1])
  <2>1. 1 \in 1 .. Len(ms)
    BY <1>1, TailFacts
  <2> QED
    BY <1>1, <1>2, <2>1 DEF Conversation
<1>5. \A i \in DOMAIN ms : i \in DOMAIN all /\ all[i] = ms[i]
  BY <1>1, <1>2
<1>6. AllAnswered(all)
  <2>1. \A i \in DOMAIN all : \A c \in Range(all[i].calls) :
          \E j \in DOMAIN all : i < j /\ all[j].answers = c
    <3> SUFFICES ASSUME NEW i \in DOMAIN all, NEW c \in Range(all[i].calls)
                 PROVE  \E j \in DOMAIN all : i < j /\ all[j].answers = c
      OBVIOUS
    <3>1. i \in DOMAIN ms
      <4>1. Range(<< >>) = {}
        BY DEF Range
      <4> QED
        BY <1>3, <4>1 DEF Plain
    <3>2. PICK j \in DOMAIN ms : i < j /\ ms[j].answers = c
      BY <1>5, <3>1 DEF Conversation, AllAnswered
    <3> QED
      BY <1>5, <3>2
  <2>2. \A i, j \in DOMAIN all : all[i].answers = all[j].answers /\ all[i].answers # 0 => i = j
    BY <1>3, <1>5 DEF Conversation, AllAnswered, Plain
  <2> QED
    BY <2>1, <2>2 DEF AllAnswered
<1>7. OfKnown(all, ids)
  <2>1. Range(<< >>) = {}
    BY DEF Range
  <2> QED
    BY <1>3, <1>5, <2>1 DEF Conversation, OfKnown, Plain
<1>8. Placed(all)
  <2> SUFFICES ASSUME NEW j \in DOMAIN all, all[j].answers # 0
               PROVE  \E k \in 1 .. j - 1 : Follows(all, k, j)
    BY DEF Placed
  <2>1. j \in DOMAIN ms /\ all[j] = ms[j]
    BY <1>3, <1>5 DEF Plain
  <2>2. PICK k \in 1 .. j - 1 : Follows(ms, k, j)
    BY <2>1 DEF Conversation, Placed
  <2>3. /\ all[k] = ms[k] /\ (k > 1 => all[k - 1] = ms[k - 1])
        /\ \A l \in k + 1 .. j : all[l] = ms[l]
    BY <1>1, <1>5, <2>1
  <2> QED
    BY <2>1, <2>2, <2>3 DEF Follows
<1> QED
  BY <1>2, <1>4, <1>6, <1>7, <1>8 DEF Conversation, all

LEMMA PlainAppendedOne ==
  ASSUME NEW ms, NEW ids, Conversation(ms, ids), NEW m \in Message, Plain(m)
  PROVE  Conversation(Append(ms, m), ids)
<1>1. << m >> \in Seq(Message) /\ DOMAIN << m >> = {1} /\ << m >>[1] = m
  OBVIOUS
<1>2. ms \in Seq(Message) /\ Append(ms, m) = ms \o << m >>
  BY DEF Conversation
<1> QED
  BY <1>1, <1>2, PlainAppended

LEMMA RemindersAppended ==
  ASSUME NEW ms, NEW ids, Conversation(ms, ids), NEW n \in Nat
  PROVE  Conversation(ms \o Reminders(n), ids)
<1>1. User("reminder") \in Message /\ Plain(User("reminder"))
  BY PlainMessages DEF UserRoles
<1>2. Reminders(n) \in [1 .. n -> Message] /\ \A i \in 1 .. n : Plain(Reminders(n)[i])
  BY <1>1 DEF Reminders
<1>3. Reminders(n) \in Seq(Message) /\ DOMAIN Reminders(n) = 1 .. n
  BY <1>2
<1> QED
  BY <1>2, <1>3, PlainAppended

\* The messages of an answer: the calls, perhaps the reminder, the results in order.
LEMMA AnswerFacts ==
  ASSUME NEW outputs \in Seq(Outputs), NEW reminded \in BOOLEAN
  PROVE  LET a == Answer(outputs, reminded)
             first == IF reminded THEN 2 ELSE 1
         IN /\ a \in Seq(Message) /\ Len(a) = first + Len(outputs)
            /\ a[1] = Assistant(Ids(outputs))
            /\ reminded => a[2] = User("overthink")
            /\ \A i \in 1 .. Len(outputs) : a[first + i] = Result(Ids(outputs)[i])
<1> DEFINE call == << Assistant(Ids(outputs)) >>
           between == IF reminded THEN << User("overthink") >> ELSE << >>
           results == [i \in DOMAIN outputs |-> Result(outputs[i].id)]
           first == IF reminded THEN 2 ELSE 1
           n == Len(outputs)
<1>1. /\ n \in Nat /\ DOMAIN outputs = 1 .. n
      /\ Ids(outputs) \in Seq(CallIds) /\ Len(Ids(outputs)) = n
      /\ \A i \in 1 .. n : Ids(outputs)[i] = outputs[i].id
  BY IdsFacts, LenProperties
<1>2. call \in Seq(Message) /\ Len(call) = 1 /\ call[1] = Assistant(Ids(outputs))
  <2>1. Assistant(Ids(outputs)) \in Message
    BY <1>1, ConstantFacts DEF Assistant, Message, CallIds
  <2> QED
    BY <2>1
<1>3. between \in Seq(Message) /\ Len(between) = first - 1
      /\ (reminded => between[1] = User("overthink"))
  <2>1. User("overthink") \in Message
    BY PlainMessages DEF UserRoles
  <2>2. CASE reminded
    BY <2>1, <2>2
  <2>3. CASE ~ reminded
    BY <2>3
  <2> QED
    BY <2>2, <2>3
<1>4. results \in Seq(Message) /\ Len(results) = n
      /\ \A i \in 1 .. n : results[i] = Result(Ids(outputs)[i])
  <2>1. \A i \in 1 .. n : Ids(outputs)[i] \in CallIds
    BY <1>1
  <2>2. \A c \in CallIds : Result(c) \in Message
    BY ConstantFacts DEF Result, Message, CallIds
  <2>3. results = [i \in 1 .. n |-> Result(Ids(outputs)[i])]
    BY <1>1
  <2>4. results \in [1 .. n -> Message]
    BY <2>1, <2>2, <2>3
  <2> HIDE DEF results
  <2> QED
    BY <1>1, <2>3, <2>4
<1>5. Answer(outputs, reminded) = (call \o between) \o results
  BY DEF Answer
<1> HIDE DEF call, between, results, n
<1>6. /\ call \o between \in Seq(Message) /\ Len(call \o between) = first
      /\ (call \o between)[1] = Assistant(Ids(outputs))
      /\ reminded => (call \o between)[2] = User("overthink")
  <2>1. call \o between \in Seq(Message) /\ Len(call \o between) = Len(call) + Len(between)
    BY <1>2, <1>3, ConcatFacts
  <2>2. (call \o between)[1] = call[1]
    BY <1>2, <1>3, ConcatFacts
  <2>3. reminded => (call \o between)[2] = between[1]
    <3> SUFFICES ASSUME reminded PROVE (call \o between)[2] = between[1]
      OBVIOUS
    <3>1. 1 \in 1 .. Len(between) /\ Len(call) + 1 = 2
      BY <1>2, <1>3
    <3>2. (call \o between)[Len(call) + 1] = between[1]
      BY <1>2, <1>3, <3>1, ConcatFacts
    <3> QED
      BY <3>1, <3>2
  <2> QED
    BY <1>2, <1>3, <2>1, <2>2, <2>3
<1> DEFINE a == (call \o between) \o results
<1>7. a \in Seq(Message) /\ Len(a) = first + n
  BY <1>4, <1>6, ConcatFacts
<1>8. \A i \in 1 .. first : a[i] = (call \o between)[i]
  BY <1>4, <1>6, ConcatFacts
<1>9. \A i \in 1 .. n : a[first + i] = results[i]
  BY <1>4, <1>6, ConcatFacts, SMTT(30)
<1> HIDE DEF a
<1>10. a[1] = Assistant(Ids(outputs)) /\ (reminded => a[2] = User("overthink"))
  BY <1>6, <1>8
<1>11. Answer(outputs, reminded) = a
  BY <1>5 DEF a
<1> QED
  BY <1>4, <1>7, <1>9, <1>10, <1>11 DEF n

LEMMA MessageFields ==
  /\ \A q : /\ Assistant(q).calls = q /\ Assistant(q).answers = 0 /\ Assistant(q).role = "assistant"
  /\ \A c : Result(c).calls = << >> /\ Result(c).answers = c /\ Result(c).role = "tool"
  /\ \A tag : User(tag).calls = << >> /\ User(tag).answers = 0 /\ User(tag).role = tag
  /\ Range(<< >>) = {}
BY DEF Assistant, Result, User, Range

\* What rises repeats nothing: the new calls are not among the old.
LEMMA NewCalls ==
  ASSUME NEW ids \in Seq(CallIds), NEW new \in Seq(CallIds), Rising(ids \o new)
  PROVE  /\ \A x \in 1 .. Len(new) : /\ new[x] \in Range(ids \o new) /\ new[x] \in Range(new)
                                     /\ new[x] \notin Range(ids) /\ new[x] # 0
         /\ Range(ids) \subseteq Range(ids \o new)
         /\ Range(new) \subseteq Range(ids \o new)
         /\ \A x, y \in 1 .. Len(new) : new[x] = new[y] => x = y
         /\ \A c \in Range(new) : \E x \in 1 .. Len(new) : new[x] = c
<1> DEFINE all == ids \o new
<1>1. /\ Len(ids) \in Nat /\ DOMAIN ids = 1 .. Len(ids)
      /\ Len(new) \in Nat /\ DOMAIN new = 1 .. Len(new)
      /\ DOMAIN all = 1 .. Len(ids) + Len(new)
      /\ \A i \in 1 .. Len(ids) : all[i] = ids[i]
      /\ \A i \in 1 .. Len(new) : all[Len(ids) + i] = new[i]
  BY ConcatFacts
<1>2. (\A i \in 1 .. Len(new) : new[i] \in Nat /\ new[i] # 0) /\ \A i \in 1 .. Len(ids) : ids[i] \in Nat
  BY ConstantFacts DEF CallIds
<1> HIDE DEF all
<1>3. \A i \in 1 .. Len(ids) : i \in DOMAIN all
  BY <1>1
<1>4. \A i \in 1 .. Len(new) : Len(ids) + i \in DOMAIN all
  BY <1>1
<1>5. \A i \in 1 .. Len(ids), x \in 1 .. Len(new) : ids[i] < new[x]
  <2> SUFFICES ASSUME NEW i \in 1 .. Len(ids), NEW x \in 1 .. Len(new) PROVE ids[i] < new[x]
    OBVIOUS
  <2>1. i < Len(ids) + x
    BY <1>1
  <2> QED
    BY <2>1, <1>1, <1>3, <1>4 DEF Rising, all
<1>6. \A x, y \in 1 .. Len(new) : x < y => new[x] < new[y]
  <2> SUFFICES ASSUME NEW x \in 1 .. Len(new), NEW y \in 1 .. Len(new), x < y PROVE new[x] < new[y]
    OBVIOUS
  <2>1. Len(ids) + x < Len(ids) + y
    BY <1>1
  <2> QED
    BY <2>1, <1>1, <1>4 DEF Rising, all
<1>7. \A x, y \in 1 .. Len(new) : new[x] = new[y] => x = y
  <2> SUFFICES ASSUME NEW x \in 1 .. Len(new), NEW y \in 1 .. Len(new), x < y PROVE new[x] # new[y]
    BY <1>1
  <2> QED
    BY <1>2, <1>6
<1>8. \A x \in 1 .. Len(new) : new[x] \notin Range(ids)
  BY <1>1, <1>2, <1>5 DEF Range
<1>9. \A x \in 1 .. Len(new) : new[x] \in Range(all)
  BY <1>1, <1>4 DEF Range
<1>10. Range(ids) \subseteq Range(all)
  BY <1>1, <1>3 DEF Range
<1>11. \A c \in Range(new) : \E x \in 1 .. Len(new) : new[x] = c
  BY <1>1 DEF Range
<1>12. \A x \in 1 .. Len(new) : new[x] \in Range(new)
  BY <1>1 DEF Range
<1> QED
  BY <1>2, <1>7, <1>8, <1>9, <1>10, <1>11, <1>12 DEF all

LEMMA AnswerAppended ==
  ASSUME NEW ms, NEW ids \in Seq(CallIds), Conversation(ms, ids),
         NEW outputs \in Seq(Outputs), NEW reminded \in BOOLEAN,
         Rising(ids \o Ids(outputs))
  PROVE  Conversation(ms \o Answer(outputs, reminded), ids \o Ids(outputs))
<1> DEFINE a == Answer(outputs, reminded)
           new == Ids(outputs)
           first == IF reminded THEN 2 ELSE 1
           all == ms \o a
           more == ids \o new
           N == Len(ms)
           n == Len(new)
<1>1. /\ new \in Seq(CallIds) /\ Len(outputs) = n /\ n \in Nat /\ DOMAIN new = 1 .. n
      /\ ms \in Seq(Message) /\ N \in Nat /\ DOMAIN ms = 1 .. N /\ N >= 1
  BY IdsFacts, TailFacts DEF Conversation
<1>2. /\ a \in Seq(Message) /\ Len(a) = first + n
      /\ a[1] = Assistant(new)
      /\ reminded => a[2] = User("overthink")
      /\ \A x \in 1 .. n : a[first + x] = Result(new[x])
  BY <1>1, AnswerFacts
<1>3. /\ \A x \in 1 .. n : new[x] \in Range(more) /\ new[x] \in Range(new)
                           /\ new[x] \notin Range(ids) /\ new[x] # 0
      /\ Range(ids) \subseteq Range(more) /\ Range(new) \subseteq Range(more)
      /\ \A x, y \in 1 .. n : new[x] = new[y] => x = y
      /\ \A c \in Range(new) : \E x \in 1 .. n : new[x] = c
  BY <1>1, NewCalls
<1> HIDE DEF a, new, more
<1>4. /\ all \in Seq(Message) /\ DOMAIN all = 1 .. N + Len(a)
      /\ \A i \in 1 .. N : all[i] = ms[i]
      /\ \A i \in 1 .. Len(a) : all[N + i] = a[i]
  <2>1. ms \in Seq(Message) /\ a \in Seq(Message)
    BY <1>1, <1>2
  <2>2. all \in Seq(Message) /\ DOMAIN all = 1 .. Len(ms) + Len(a)
    BY <2>1, ConcatFacts
  <2>3. \A i \in 1 .. Len(ms) : all[i] = ms[i]
    BY <2>1, ConcatFacts
  <2>4. \A i \in 1 .. Len(a) : all[Len(ms) + i] = a[i]
    BY <2>1, ConcatFacts
  <2> QED
    BY <2>2, <2>3, <2>4
<1> HIDE DEF all, N, n
<1>5. /\ all[N + 1] = Assistant(new)
      /\ reminded => all[N + 2] = User("overthink")
  <2>1. 1 \in 1 .. Len(a) /\ (reminded => 2 \in 1 .. Len(a))
    BY <1>1, <1>2
  <2> QED
    BY <1>2, <1>4, <2>1
<1>6. \A x \in 1 .. n : all[N + first + x] = Result(new[x]) /\ N + first + x \in DOMAIN all
  <2> SUFFICES ASSUME NEW x \in 1 .. n
               PROVE  all[N + first + x] = Result(new[x]) /\ N + first + x \in DOMAIN all
    OBVIOUS
  <2>1. first + x \in 1 .. Len(a) /\ N + (first + x) = N + first + x
        /\ N + (first + x) \in 1 .. N + Len(a)
    BY <1>1, <1>2
  <2> QED
    BY <1>2, <1>4, <2>1
<1>7. \A i \in DOMAIN all : \/ i \in DOMAIN ms
                            \/ i = N + 1
                            \/ reminded /\ i = N + 2
                            \/ \E x \in 1 .. n : i = N + first + x
  <2> SUFFICES ASSUME NEW i \in DOMAIN all, i \notin DOMAIN ms, i # N + 1, ~ (reminded /\ i = N + 2)
               PROVE  \E x \in 1 .. n : i = N + first + x
    OBVIOUS
  <2>1. i \in Nat /\ i <= N + first + n /\ i > N + 1
    BY <1>1, <1>2, <1>4
  <2>2. i > N + first
    BY <1>1, <2>1
  <2>3. first \in Nat
    OBVIOUS
  <2> HIDE DEF first
  <2>4. i - N - first \in 1 .. n
    BY <1>1, <2>1, <2>2, <2>3
  <2>5. i = N + first + (i - N - first)
    BY <1>1, <2>1, <2>3
  <2> QED
    BY <2>4, <2>5
<1>8. \A i \in DOMAIN ms : i \in DOMAIN all /\ all[i] = ms[i]
  BY <1>1, <1>2, <1>4
<1>9. all # << >> /\ IsUser(all[1])
  <2>1. 1 \in DOMAIN ms
    BY <1>1
  <2>2. IsUser(ms[1])
    BY DEF Conversation
  <2>3. 1 \in DOMAIN all /\ all[1] = ms[1]
    BY <1>8, <2>1
  <2>4. all # << >>
    BY <2>3, EmptySeq
  <2> QED
    BY <2>2, <2>3, <2>4
<1>10. AllAnswered(all)
  <2>1. ASSUME NEW i \in DOMAIN all, NEW c \in Range(all[i].calls)
        PROVE  \E j \in DOMAIN all : i < j /\ all[j].answers = c
    <3>1. CASE i \in DOMAIN ms
      <4>1. PICK j \in DOMAIN ms : i < j /\ ms[j].answers = c
        BY <1>8, <2>1, <3>1 DEF Conversation, AllAnswered
      <4> QED
        BY <1>8, <4>1
    <3>2. CASE i = N + 1
      <4>1. PICK x \in 1 .. n : new[x] = c
        BY <1>3, <1>5, <2>1, <3>2, MessageFields
      <4>2. N + first + x \in DOMAIN all /\ i < N + first + x /\ all[N + first + x].answers = c
        BY <1>1, <1>6, <3>2, <4>1, MessageFields
      <4> QED
        BY <4>2
    <3>3. CASE reminded /\ i = N + 2
      BY <1>5, <2>1, <3>3, MessageFields
    <3>4. ASSUME NEW x \in 1 .. n, i = N + first + x PROVE FALSE
      BY <1>6, <2>1, <3>4, MessageFields
    <3> QED
      BY <1>7, <3>1, <3>2, <3>3, <3>4
  <2>2. ASSUME NEW i \in DOMAIN all, NEW j \in DOMAIN all,
               all[i].answers = all[j].answers, all[i].answers # 0
        PROVE  i = j
    <3>1. \A l \in DOMAIN all : all[l].answers # 0 =>
            \/ l \in DOMAIN ms /\ all[l] = ms[l] /\ ms[l].answers \in Range(ids)
            \/ \E x \in 1 .. n : l = N + first + x /\ all[l].answers = new[x]
      BY <1>5, <1>6, <1>7, <1>8, MessageFields DEF Conversation, OfKnown
    <3>2. CASE i \in DOMAIN ms /\ j \in DOMAIN ms
      BY <1>8, <2>2, <3>2 DEF Conversation, AllAnswered
    <3>3. CASE i \notin DOMAIN ms /\ j \notin DOMAIN ms
      BY <1>3, <2>2, <3>1, <3>3
    <3>4. CASE i \in DOMAIN ms /\ j \notin DOMAIN ms
      <4>1. PICK x \in 1 .. n : all[j].answers = new[x]
        BY <2>2, <3>1, <3>4
      <4>2. all[i].answers \in Range(ids)
        BY <1>8, <2>2, <3>4 DEF Conversation, OfKnown
      <4> QED
        BY <1>3, <2>2, <4>1, <4>2
    <3>5. CASE i \notin DOMAIN ms /\ j \in DOMAIN ms
      <4>1. PICK x \in 1 .. n : all[i].answers = new[x]
        BY <2>2, <3>1, <3>5
      <4>2. all[j].answers \in Range(ids)
        BY <1>8, <2>2, <3>5 DEF Conversation, OfKnown
      <4> QED
        BY <1>3, <2>2, <4>1, <4>2
    <3> QED
      BY <3>2, <3>3, <3>4, <3>5
  <2> QED
    BY <2>1, <2>2 DEF AllAnswered
<1>11. OfKnown(all, more)
  <2> SUFFICES ASSUME NEW i \in DOMAIN all
               PROVE  /\ all[i].answers # 0 => all[i].answers \in Range(more)
                      /\ Range(all[i].calls) \subseteq Range(more)
    BY DEF OfKnown
  <2>1. CASE i \in DOMAIN ms
    BY <1>3, <1>8, <2>1 DEF Conversation, OfKnown
  <2>2. CASE i = N + 1
    BY <1>3, <1>5, <2>2, MessageFields
  <2>3. CASE reminded /\ i = N + 2
    BY <1>5, <2>3, MessageFields
  <2>4. ASSUME NEW x \in 1 .. n, i = N + first + x
        PROVE  /\ all[i].answers # 0 => all[i].answers \in Range(more)
               /\ Range(all[i].calls) \subseteq Range(more)
    BY <1>3, <1>6, <2>4, MessageFields
  <2> QED
    BY <1>7, <2>1, <2>2, <2>3, <2>4
<1>12. Placed(all)
  <2> SUFFICES ASSUME NEW j \in DOMAIN all, all[j].answers # 0
               PROVE  \E k \in 1 .. j - 1 : Follows(all, k, j)
    BY DEF Placed
  <2>1. CASE j \in DOMAIN ms
    <3>1. PICK k \in 1 .. j - 1 : Follows(ms, k, j)
      BY <1>8, <2>1 DEF Conversation, Placed
    <3>2. \A l \in 1 .. j : l \in DOMAIN ms
      BY <1>1, <2>1
    <3>3. \A l \in 1 .. j : all[l] = ms[l]
      BY <1>8, <3>2
    <3>4. k \in 1 .. j /\ j \in 1 .. j /\ (k > 1 => k - 1 \in 1 .. j)
          /\ \A l \in k + 1 .. j : l \in 1 .. j
      BY <1>1, <2>1
    <3> QED
      BY <3>1, <3>3, <3>4 DEF Follows
  <2>2. ASSUME NEW x \in 1 .. n, j = N + first + x
        PROVE  \E k \in 1 .. j - 1 : Follows(all, k, j)
    <3> DEFINE k == N + first
    <3>1. k \in 1 .. j - 1 /\ k + 1 = N + first + 1
      BY <1>1, <2>2
    <3>2. \A l \in k + 1 .. j : all[l].role = "tool"
      <4> SUFFICES ASSUME NEW l \in k + 1 .. j PROVE all[l].role = "tool"
        OBVIOUS
      <4>1. l - k \in 1 .. n /\ l = N + first + (l - k)
        BY <1>1, <2>2
      <4> QED
        BY <1>6, <4>1, MessageFields
    <3>3. all[j].answers \in Range(new)
      BY <1>3, <1>6, <2>2, MessageFields
    <3>4. CASE reminded
      <4>1. k = N + 2 /\ k - 1 = N + 1 /\ k > 1
        BY <1>1, <3>4
      <4> QED
        BY <1>5, <3>1, <3>2, <3>3, <3>4, <4>1, MessageFields DEF Follows
    <3>5. CASE ~ reminded
      <4>1. k = N + 1
        BY <3>5
      <4> QED
        BY <1>5, <3>1, <3>2, <3>3, <4>1, MessageFields DEF Follows
    <3> QED
      BY <3>4, <3>5
  <2>3. j # N + 1 /\ ~ (reminded /\ j = N + 2)
    BY <1>5, MessageFields
  <2> QED
    BY <1>7, <2>1, <2>2, <2>3
<1> QED
  BY <1>4, <1>9, <1>10, <1>11, <1>12 DEF Conversation, all, a, more, new

-----------------------------------------------------------------------------
(* Compression: the cut falls on a message of role user.                   *)

\* A set of indexes has a largest, as the distance to the end has a least value.
LEMMA MaxOfIndexes ==
  ASSUME NEW n \in Nat, NEW S, S \subseteq 1 .. n, S # {}
  PROVE  Max(S) \in S /\ \A x \in S : x <= Max(S)
<1> DEFINE T == {n - x : x \in S}
<1>1. \A x \in S : x \in Nat /\ x <= n
  OBVIOUS
<1>2. T \subseteq Nat /\ T # {}
  <2>1. \A x \in S : n - x \in Nat
    BY <1>1
  <2>2. T \subseteq Nat
    BY <2>1
  <2>3. T # {}
    OBVIOUS
  <2> QED
    BY <2>2, <2>3
<1>3. PICK m \in T : \A k \in T : <<k, m>> \notin OpToRel(<, Nat)
  <2> HIDE DEF T
  <2> QED
    BY <1>2, NatLessThanWellFounded, WFMin
<1>4. \A k \in T : m <= k
  <2>1. ASSUME NEW k \in Nat, <<k, m>> \notin OpToRel(<, Nat), m \in Nat
        PROVE  m <= k
    BY <2>1 DEF OpToRel
  <2> HIDE DEF T
  <2> QED
    BY <1>2, <1>3, <2>1
<1>5. PICK d \in S : m = n - d
  BY <1>3
<1>6. ASSUME NEW x \in S PROVE d >= x
  <2>1. n - d <= n - x
    BY <1>4, <1>5
  <2> QED
    BY <1>1, <2>1
<1>7. Max(S) \in S /\ \A x \in S : Max(S) >= x
  BY <1>6 DEF Max
<1> QED
  BY <1>1, <1>7

\* The user messages from i on.
UsersFrom(ms, i) == {j \in i .. Len(ms) : IsUser(ms[j])}

LEMMA NthIsUser ==
  ASSUME NEW ms \in Seq(Message), NEW n \in Nat \ {0},
         Cardinality({j \in DOMAIN ms : IsUser(ms[j])}) >= n
  PROVE  NthFromEnd(ms, n) \in DOMAIN ms /\ IsUser(ms[NthFromEnd(ms, n)])
<1> DEFINE S == {i \in DOMAIN ms : Cardinality(UsersFrom(ms, i)) >= n}
           N == Len(ms)
           m == Max(S)
<1>1. N \in Nat /\ DOMAIN ms = 1 .. N
  OBVIOUS
<1>2. \A i \in Nat : IsFiniteSet(UsersFrom(ms, i)) /\ Cardinality(UsersFrom(ms, i)) \in Nat
  <2> SUFFICES ASSUME NEW i \in Nat
               PROVE  IsFiniteSet(UsersFrom(ms, i)) /\ Cardinality(UsersFrom(ms, i)) \in Nat
    OBVIOUS
  <2>1. IsFiniteSet(i .. N)
    BY <1>1, FS_Interval
  <2>2. UsersFrom(ms, i) \in SUBSET (i .. N)
    BY DEF UsersFrom
  <2> QED
    BY <2>1, <2>2, FS_Subset, FS_CardinalityType
<1>3. Cardinality(UsersFrom(ms, 1)) >= n
  BY <1>1 DEF UsersFrom
<1>4. 1 \in DOMAIN ms
  <2> SUFFICES ASSUME N = 0 PROVE FALSE
    BY <1>1
  <2>1. UsersFrom(ms, 1) = {}
    BY <1>1 DEF UsersFrom
  <2> QED
    BY <1>3, <2>1, FS_EmptySet
<1>5. m \in S /\ \A x \in S : x <= m
  <2>1. S \subseteq 1 .. N /\ S # {}
    BY <1>1, <1>3, <1>4
  <2> HIDE DEF S
  <2> QED
    BY <1>1, <2>1, MaxOfIndexes
<1>6. NthFromEnd(ms, n) = m
  BY DEF NthFromEnd, UsersFrom
<1>7. m \in 1 .. N /\ Cardinality(UsersFrom(ms, m)) >= n
  BY <1>1, <1>5
<1>8. \A i \in 1 .. N : Cardinality(UsersFrom(ms, i)) >= n => i <= m
  BY <1>1, <1>5
<1> HIDE DEF m, S, N
<1>9. IsUser(ms[m])
  <2> SUFFICES ASSUME ~ IsUser(ms[m]) PROVE FALSE
    OBVIOUS
  <2>1. UsersFrom(ms, m) = UsersFrom(ms, m + 1)
    BY <1>1, <1>7 DEF UsersFrom, N
  <2>2. CASE m = N
    <3>1. UsersFrom(ms, m + 1) = {}
      BY <1>1, <2>2 DEF UsersFrom, N
    <3>2. Cardinality(UsersFrom(ms, m)) = 0
      BY <2>1, <3>1, FS_EmptySet
    <3> QED
      BY <1>7, <3>2
  <2>3. CASE m < N
    <3>1. m + 1 \in 1 .. N
      BY <1>1, <1>7, <2>3
    <3>2. m + 1 <= m
      BY <1>7, <1>8, <2>1, <3>1
    <3> QED
      BY <1>1, <1>7, <3>2
  <2> QED
    BY <1>1, <1>7, <2>2, <2>3
<1> QED
  BY <1>1, <1>6, <1>7, <1>9

LEMMA CutIsUser ==
  ASSUME NEW ms \in Seq(Message), ms # << >>, IsUser(ms[1])
  PROVE  Cut(ms) \in DOMAIN ms /\ IsUser(ms[Cut(ms)])
<1> DEFINE users == Cardinality({j \in DOMAIN ms : IsUser(ms[j])})
           byCount == IF users > UserRetain THEN NthFromEnd(ms, UserRetain) ELSE 1
           byTurns == IF users >= MinTurns THEN NthFromEnd(ms, MinTurns) ELSE byCount
           Good(i) == i \in DOMAIN ms /\ IsUser(ms[i])
<1>1. UserRetain \in Nat \ {0} /\ MinTurns \in Nat \ {0}
  BY LoopConstants
<1>2. users \in Nat
  <2>1. IsFiniteSet(1 .. Len(ms)) /\ DOMAIN ms = 1 .. Len(ms)
    BY FS_Interval
  <2>2. {j \in DOMAIN ms : IsUser(ms[j])} \in SUBSET (1 .. Len(ms))
    BY <2>1
  <2> QED
    BY <2>1, <2>2, FS_Subset, FS_CardinalityType
<1>3. Good(1)
  BY TailFacts
<1>4. users > UserRetain => Good(NthFromEnd(ms, UserRetain))
  <2> SUFFICES ASSUME users > UserRetain PROVE Good(NthFromEnd(ms, UserRetain))
    OBVIOUS
  <2>1. users >= UserRetain
    BY <1>1, <1>2
  <2> QED
    BY <1>1, <2>1, NthIsUser
<1>5. users >= MinTurns => Good(NthFromEnd(ms, MinTurns))
  BY <1>1, NthIsUser
<1>6. Cut(ms) \in {byCount, byTurns}
  BY DEF Cut
<1> HIDE DEF users, Good
<1>7. Good(byCount) /\ Good(byTurns)
  BY <1>3, <1>4, <1>5
<1>8. Good(Cut(ms))
  BY <1>6, <1>7
<1> QED
  BY <1>8 DEF Good

\* A compression keeps the conversation in order: no result is parted from its
\* call but those behind a reminder about overthinking the cut falls on.
LEMMA CompressedKeeps ==
  ASSUME NEW ms, NEW ids, Conversation(ms, ids)
  PROVE  Conversation(Compressed(ms), ids)
<1> DEFINE N == Len(ms)
           c == Cut(ms)
           kept == RetainMessages(ms)
           head == << User("reminder"), User("summary") >>
           all == head \o kept
<1>1. ms \in Seq(Message) /\ N \in Nat /\ DOMAIN ms = 1 .. N
  BY DEF Conversation
<1>2. c \in 1 .. N /\ IsUser(ms[c])
  BY <1>1, CutIsUser DEF Conversation
<1>3. kept = SubSeq(ms, c, N)
  BY DEF RetainMessages
<1>4. Compressed(ms) = all
  BY DEF Compressed
<1>5. /\ head \in Seq(Message) /\ Len(head) = 2
      /\ head[1] = User("reminder") /\ head[2] = User("summary")
  <2>1. User("reminder") \in Message /\ User("summary") \in Message
    BY PlainMessages DEF UserRoles
  <2> QED
    BY <2>1
<1> HIDE DEF kept, head, c
<1>6. /\ kept \in Seq(Message) /\ Len(kept) = N - c + 1
      /\ \A i \in 1 .. N - c + 1 : kept[i] = ms[c + i - 1]
  <2>1. \A i \in c .. N : ms[i] \in Message
    BY <1>1, <1>2
  <2>2. c \in Int /\ N \in Int /\ c <= N
    BY <1>1, <1>2
  <2> HIDE DEF N
  <2> QED
    BY <1>3, <2>1, <2>2, SubSeqProperties
<1> HIDE DEF N
<1>7. all \in Seq(Message) /\ DOMAIN all = 1 .. 2 + (N - c + 1)
  <2>1. head \in Seq(Message) /\ kept \in Seq(Message)
    BY <1>5, <1>6
  <2>2. all \in Seq(Message)
    BY <2>1, ConcatFacts
  <2>3. DOMAIN all = 1 .. Len(head) + Len(kept)
    BY <2>1, ConcatFacts
  <2> QED
    BY <1>5, <1>6, <2>2, <2>3
<1>8. all[1] = User("reminder") /\ all[2] = User("summary")
  <2>1. \A i \in 1 .. Len(head) : all[i] = head[i]
    BY <1>5, <1>6, ConcatFacts, ZenonT(30)
  <2> QED
    BY <1>5, <2>1
<1>9. \A i \in 1 .. N - c + 1 : all[2 + i] = kept[i]
  <2>1. head \in Seq(Message) /\ kept \in Seq(Message)
    BY <1>5, <1>6
  <2>2. \A i \in 1 .. Len(kept) : all[Len(head) + i] = kept[i]
    BY <2>1, ConcatFacts
  <2> QED
    BY <1>5, <1>6, <2>2
<1> HIDE DEF all
\* The message at i of the old conversation stands at i - c + 3 of the new one.
<1>10. \A i \in c .. N : i - c + 3 \in DOMAIN all /\ all[i - c + 3] = ms[i]
  <2> SUFFICES ASSUME NEW i \in c .. N PROVE i - c + 3 \in DOMAIN all /\ all[i - c + 3] = ms[i]
    OBVIOUS
  <2>1. i - c + 1 \in 1 .. N - c + 1 /\ 2 + (i - c + 1) = i - c + 3 /\ c + (i - c + 1) - 1 = i
        /\ i - c + 3 \in 1 .. 2 + (N - c + 1)
    BY <1>1, <1>2
  <2> QED
    BY <1>6, <1>7, <1>9, <2>1
<1>11. \A i \in DOMAIN all : \/ i \in {1, 2}
                             \/ \E o \in c .. N : i = o - c + 3
  <2> SUFFICES ASSUME NEW i \in DOMAIN all, i \notin {1, 2}
               PROVE  \E o \in c .. N : i = o - c + 3
    OBVIOUS
  <2>1. i \in Nat /\ i >= 3 /\ i <= 2 + (N - c + 1)
    BY <1>1, <1>2, <1>7
  <2>2. i + c - 3 \in c .. N /\ i = (i + c - 3) - c + 3
    BY <1>1, <1>2, <2>1
  <2> QED
    BY <2>2
<1>12. \A o \in c .. N : o \in DOMAIN ms
  BY <1>1, <1>2
<1>13. \A i \in {1, 2} : all[i].calls = << >> /\ all[i].answers = 0
  BY <1>8, MessageFields
<1>14. Range(<< >>) = {}
  BY MessageFields
<1>15. all # << >> /\ IsUser(all[1])
  <2>1. 1 \in DOMAIN all
    BY <1>1, <1>2, <1>7
  <2>2. all # << >>
    BY <2>1, EmptySeq
  <2> QED
    BY <1>8, <2>2, PlainMessages DEF UserRoles
<1>16. AllAnswered(all)
  <2>1. ASSUME NEW i \in DOMAIN all, NEW d \in Range(all[i].calls)
        PROVE  \E j \in DOMAIN all : i < j /\ all[j].answers = d
    <3>1. i \notin {1, 2}
      BY <1>13, <1>14, <2>1
    <3>2. PICK o \in c .. N : i = o - c + 3
      BY <1>11, <3>1
    <3>3. PICK p \in DOMAIN ms : o < p /\ ms[p].answers = d
      BY <1>10, <1>12, <2>1, <3>2 DEF Conversation, AllAnswered
    <3>4. p \in c .. N /\ i < p - c + 3
      BY <1>1, <1>2, <3>2, <3>3
    <3> QED
      BY <1>10, <3>3, <3>4
  <2>2. ASSUME NEW i \in DOMAIN all, NEW j \in DOMAIN all,
               all[i].answers = all[j].answers, all[i].answers # 0
        PROVE  i = j
    <3>1. PICK o \in c .. N : i = o - c + 3
      BY <1>11, <1>13, <2>2
    <3>2. PICK p \in c .. N : j = p - c + 3
      BY <1>11, <1>13, <2>2
    <3>3. o = p
      BY <1>10, <1>12, <2>2, <3>1, <3>2 DEF Conversation, AllAnswered
    <3> QED
      BY <3>1, <3>2, <3>3
  <2> QED
    BY <2>1, <2>2 DEF AllAnswered
<1>17. OfKnown(all, ids)
  BY <1>10, <1>11, <1>12, <1>13, <1>14 DEF Conversation, OfKnown
<1>18. Placed(all)
  <2> SUFFICES ASSUME NEW j \in DOMAIN all, all[j].answers # 0
               PROVE  \E k \in 1 .. j - 1 : Follows(all, k, j)
    BY DEF Placed
  <2>1. PICK p \in c .. N : j = p - c + 3
    BY <1>11, <1>13
  <2>2. PICK k \in 1 .. p - 1 : Follows(ms, k, p)
    BY <1>10, <1>12, <2>1 DEF Conversation, Placed
  <2>3. k >= c
    <3> SUFFICES ASSUME k < c PROVE FALSE
      BY <1>1, <1>2, <2>2
    <3>1. c \in k + 1 .. p
      BY <1>1, <1>2, <2>1, <2>2
    <3>2. ms[c].role = "tool"
      BY <2>2, <3>1 DEF Follows
    <3> QED
      BY <1>2, <3>2 DEF IsUser, UserRoles
  <2>4. k \in c .. N /\ k - c + 3 \in 1 .. j - 1 /\ k - c + 3 > 1 /\ k - c + 3 - 1 = k - c + 2
    BY <1>1, <1>2, <2>1, <2>2, <2>3
  <2>5. all[k - c + 3] = ms[k] /\ all[j] = ms[p]
    BY <1>10, <2>1, <2>4
  <2>6. \A l \in k - c + 3 + 1 .. j : all[l].role = "tool"
    <3> SUFFICES ASSUME NEW l \in k - c + 3 + 1 .. j PROVE all[l].role = "tool"
      OBVIOUS
    <3>1. l + c - 3 \in k + 1 .. p
      BY <1>1, <1>2, <2>1, <2>2, <2>4
    <3>2. l + c - 3 \in c .. N /\ (l + c - 3) - c + 3 = l
      BY <1>1, <1>2, <2>1, <2>3, <2>4, <3>1
    <3>3. all[l] = ms[l + c - 3]
      BY <1>10, <3>2
    <3> QED
      BY <2>2, <3>1, <3>3 DEF Follows
  <2>7. CASE ms[k].role = "assistant"
    <3>1. ms[p].answers \in Range(ms[k].calls)
      BY <2>2, <2>7 DEF Follows
    <3> QED
      BY <2>4, <2>5, <2>6, <2>7, <3>1 DEF Follows
  <2>8. CASE ms[k].role = "overthink" /\ k = c
    <3>1. all[k - c + 3 - 1] = User("summary")
      BY <1>2, <1>8, <2>8
    <3>2. all[k - c + 3 - 1].role = "summary"
      BY <3>1, MessageFields
    <3> QED
      BY <2>4, <2>5, <2>6, <2>8, <3>2 DEF Follows
  <2>9. CASE ms[k].role = "overthink" /\ k > c
    <3>1. k - 1 \in c .. N /\ (k - 1) - c + 3 = k - c + 3 - 1
      BY <1>1, <1>2, <2>4, <2>9
    <3>2. all[k - c + 3 - 1] = ms[k - 1]
      BY <1>10, <3>1
    <3>3. \/ ms[k - 1].role = "assistant" /\ ms[p].answers \in Range(ms[k - 1].calls)
          \/ ms[k - 1].role = "summary"
      BY <2>2, <2>9 DEF Follows
    <3> DEFINE at == k - c + 3
    <3>4. /\ at \in 1 .. j - 1 /\ at > 1
          /\ all[at] = ms[k]
          /\ all[at - 1] = ms[k - 1]
      <4>1. at \in 1 .. j - 1 /\ at > 1
        BY <2>4
      <4>2. all[at] = ms[k]
        BY <2>5
      <4>3. at - 1 = k - c + 3 - 1
        BY <1>1, <1>2, <2>4
      <4>4. all[at - 1] = ms[k - 1]
        BY <3>2, <4>3
      <4> QED
        BY <4>1, <4>2, <4>4
    <3>6. \A l \in at + 1 .. j : all[l].role = "tool"
      BY <2>6
    <3> HIDE DEF at
    <3>5. Follows(all, at, j)
      BY <2>5, <2>9, <3>3, <3>4, <3>6 DEF Follows
    <3> QED
      BY <3>4, <3>5
  <2>10. ms[k].role \in {"assistant", "overthink"}
    BY <2>2 DEF Follows
  <2> QED
    BY <1>1, <1>2, <2>3, <2>4, <2>7, <2>8, <2>9, <2>10
<1> QED
  BY <1>4, <1>7, <1>15, <1>16, <1>17, <1>18 DEF Conversation

-----------------------------------------------------------------------------
(* One step of the Run.                                                    *)

LEMMA ReminderAppended ==
  ASSUME NEW ms, NEW ids, Conversation(ms, ids)
  PROVE  Conversation(Append(ms, User("reminder")), ids)
BY PlainMessages, PlainAppendedOne DEF UserRoles

LEMMA PartialAppended ==
  ASSUME NEW ms, NEW ids, Conversation(ms, ids)
  PROVE  Conversation(Append(ms, Assistant(<< >>)), ids)
BY PlainMessages, PlainAppendedOne

\* What an answer does to the conversation.
LEMMA AnswerKeeps ==
  ASSUME LoopInv, LoopInv', ConversationInv, pc = "stream",
         NEW outputs \in Seq(Outputs), NEW isInterrupted \in BOOLEAN,
         AnswerOver(outputs, isInterrupted)
  PROVE  ConversationInv'
<1>1. CASE outputs = << >>
  <2>1. NoCalls(isInterrupted)
    BY <1>1 DEF AnswerOver
  <2> DEFINE said == IF buffer = << >> THEN messages ELSE Append(messages, Assistant(<< >>))
  <2>2. told' = told /\ messages' \in {said, Append(said, User("reminder"))}
    BY <2>1 DEF NoCalls
  <2>3. Conversation(said, told)
    BY PartialAppended DEF ConversationInv
  <2>4. Conversation(Append(said, User("reminder")), told)
    BY <2>3, ReminderAppended
  <2> QED
    BY <2>2, <2>3, <2>4 DEF ConversationInv
<1>2. CASE outputs # << >>
  <2>1. WithCalls(outputs, isInterrupted)
    BY <1>2 DEF AnswerOver
  <2>2. PICK reminded \in BOOLEAN, injects \in 0 .. 1 :
          LET said == messages \o Answer(outputs, reminded) \o Reminders(injects)
          IN \/ messages' = said
             \/ \E stuck \in 0 .. 1 : messages' \in {said \o Reminders(stuck), said \o Reminders(stuck + 1)}
    BY <2>1 DEF WithCalls
  <2>3. told' = told \o Ids(outputs) /\ pc' \in {"top", "done"}
    BY <2>1 DEF WithCalls, Return
  <2>4. Rising(told \o Ids(outputs))
    <3>1. told' = taken' /\ Rising(taken)'
      BY <2>3 DEF LoopInv, Books, InLine, Ordered
    <3>2. Rising(taken')
      BY <3>1 DEF Rising
    <3> QED
      BY <2>3, <3>1, <3>2
  <2> DEFINE answered == messages \o Answer(outputs, reminded)
             said == answered \o Reminders(injects)
  <2>5. Conversation(answered, told')
    BY <2>3, <2>4, AnswerAppended DEF ConversationInv, LoopInv, LoopType
  <2>6. Conversation(said, told')
    BY <2>5, RemindersAppended
  <2>7. \A n \in Nat : Conversation(said \o Reminders(n), told')
    BY <2>6, RemindersAppended
  <2>8. messages' = said \/ \E n \in Nat : messages' = said \o Reminders(n)
    <3>1. \/ messages' = said
          \/ \E stuck \in 0 .. 1 : messages' \in {said \o Reminders(stuck), said \o Reminders(stuck + 1)}
      BY <2>2
    <3>2. \A stuck \in 0 .. 1 : stuck \in Nat /\ stuck + 1 \in Nat
      OBVIOUS
    <3> HIDE DEF said
    <3> QED
      BY <3>1, <3>2
  <2> QED
    BY <2>6, <2>7, <2>8 DEF ConversationInv
<1> QED
  BY <1>1, <1>2

LEMMA ConversationStep ==
  ASSUME LoopInv, LoopInv', ConversationInv, [Next]_vars
  PROVE  ConversationInv'
<1>1. CASE BeginRequest
  <2>1. told' = told
    BY <1>1 DEF BeginRequest, history
  <2>2. messages' = messages \/ messages' = Compressed(messages)
    BY <1>1 DEF BeginRequest, CompressionAsked
  <2> QED
    BY <2>1, <2>2, CompressedKeeps DEF ConversationInv
<1>2. CASE ReceiveUnrun \/ ReceiveExecuted
  <2>1. told' = told /\ (messages' = messages \/ messages' = Append(messages, User("reminder")))
    BY <1>2 DEF ReceiveUnrun, ReceiveExecuted
  <2> QED
    BY <2>1, ReminderAppended DEF ConversationInv
<1>3. CASE FailWithPartial
  <2>1. told' = told /\ (messages' = messages \/ messages' = Append(messages, Assistant(<< >>)))
    BY <1>3 DEF FailWithPartial
  <2> QED
    BY <2>1, PartialAppended DEF ConversationInv
<1>4. CASE StreamOver
  BY <1>4, AnswerKeeps DEF StreamOver, LoopInv, LoopType
<1>5. CASE Interrupt
  <2>1. pc = "stream"
    BY <1>5 DEF Interrupt
  <2>2. PICK outputs \in Seq(Outputs) : AnswerOver(outputs, TRUE)
    BY <1>5, InterruptStep
  <2> QED
    BY <2>1, <2>2, AnswerKeeps
<1>6. CASE TurnsUsedUp \/ ReceivePiece \/ Retry \/ Wake \/ Produce \/ Cancel \/ UNCHANGED vars
  <2>1. told' = told /\ messages' = messages
    BY <1>6 DEF TurnsUsedUp, ReceivePiece, Retry, Wake, Produce, Cancel, vars, history
  <2> QED
    BY <2>1 DEF ConversationInv
<1> QED
  BY <1>1, <1>2, <1>3, <1>4, <1>5, <1>6 DEF Next, Loop

\* The conversation is one a provider accepts, whatever is stored, cut and
\* compressed on the way: see ConversationInv.
THEOREM ConversationInvariant == Spec => []ConversationInv
<1>1. Init => ConversationInv
  <2> SUFFICES ASSUME Init PROVE ConversationInv
    OBVIOUS
  <2>1. messages = << User("ask") >>
    BY DEF Init
  <2>2. User("ask") \in Message /\ Plain(User("ask")) /\ IsUser(User("ask"))
    BY PlainMessages DEF UserRoles
  <2>3. /\ messages \in Seq(Message) /\ messages # << >> /\ DOMAIN messages = {1}
        /\ messages[1] = User("ask")
    BY <2>1, <2>2
  <2>4. messages[1].calls = << >> /\ messages[1].answers = 0
    BY <2>2, <2>3 DEF Plain
  <2>5. Range(<< >>) = {}
    BY MessageFields
  <2> QED
    BY <2>2, <2>3, <2>4, <2>5 DEF ConversationInv, Conversation, AllAnswered, OfKnown, Placed
<1>2. LoopInv /\ LoopInv' /\ ConversationInv /\ [Next]_vars => ConversationInv'
  BY ConversationStep
<1> QED
  BY <1>1, <1>2, LoopInvariant, PTL DEF Spec

\* In every request each call of an assistant message is answered by exactly one
\* result further on, through interruptions, retries and compressions.
THEOREM CallsAnsweredHolds == Spec => []CallsAnswered
<1>1. ConversationInv => CallsAnswered
  <2> SUFFICES ASSUME ConversationInv,
                      NEW i \in DOMAIN messages, NEW c \in Range(messages[i].calls)
               PROVE  Cardinality({j \in DOMAIN messages : j > i /\ messages[j].answers = c}) = 1
    BY DEF CallsAnswered
  <2> DEFINE S == {j \in DOMAIN messages : j > i /\ messages[j].answers = c}
  <2>1. AllAnswered(messages)
    BY DEF ConversationInv, Conversation
  <2>2. PICK j \in DOMAIN messages : i < j /\ messages[j].answers = c
    BY <2>1 DEF AllAnswered
  <2>3. c # 0
    <3>1. messages[i] \in Message
      BY DEF ConversationInv, Conversation
    <3>2. messages[i].calls \in Seq(CallIds)
      BY <3>1 DEF Message, CallIds
    <3>3. c \in CallIds
      BY <3>2 DEF Range
    <3> QED
      BY <3>3, ConstantFacts DEF CallIds
  <2>4. i \in Nat /\ \A l \in DOMAIN messages : l \in Nat
    BY DEF ConversationInv, Conversation
  <2>5. S = {j}
    BY <2>1, <2>2, <2>3, <2>4 DEF AllAnswered
  <2> HIDE DEF S
  <2>6. Cardinality(S) = 1
    BY <2>5, FS_Singleton
  <2> QED
    BY <2>6 DEF S
<1> QED
  BY <1>1, ConversationInvariant, PTL

\* A result is parted from its call in one way only: a compression cut the
\* conversation at the reminder about overthinking that stood between the two.
THEOREM NoOrphanResultsHolds == Spec => []NoOrphanResults
<1>1. ConversationInv => NoOrphanResults
  <2> SUFFICES ASSUME ConversationInv, NEW j \in DOMAIN messages, messages[j].answers # 0
               PROVE  \/ \E i \in 1 .. j - 1 : messages[j].answers \in Range(messages[i].calls)
                      \/ OrphanedAtCut(j)
    BY DEF NoOrphanResults
  <2>1. PICK k \in 1 .. j - 1 : Follows(messages, k, j)
    BY DEF ConversationInv, Conversation, Placed
  <2>2. k > 1 => k - 1 \in 1 .. j - 1
    BY DEF ConversationInv, Conversation
  <2>3. CASE messages[k].role = "assistant" /\ messages[j].answers \in Range(messages[k].calls)
    BY <2>3
  <2>4. CASE k > 1 /\ messages[j].answers \in Range(messages[k - 1].calls)
    BY <2>2, <2>4
  <2>5. CASE messages[k].role = "overthink" /\ messages[k - 1].role = "summary"
    BY <2>1, <2>5 DEF Follows, OrphanedAtCut
  <2> QED
    BY <2>1, <2>3, <2>4, <2>5 DEF Follows
<1> QED
  BY <1>1, ConversationInvariant, PTL
=============================================================================
