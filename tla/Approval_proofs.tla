-------------------------- MODULE Approval_proofs --------------------------
(***************************************************************************)
(* The safety of module Approval, for any number of edits and ids: answers *)
(* find room, nothing stays registered, a request with an id of its own    *)
(* can be answered, and what is written was approved and has been seen.    *)
(***************************************************************************)
EXTENDS Approval, FiniteSetTheorems, TLAPS

\* The types, with the channel's capacity of one spelt out.
Typed ==
  /\ pc \in [Edits -> {"idle", "shown", "waiting", "yes", "no", "stopped",
                       "approved", "writing", "returned"}]
  /\ id \in [Edits -> Ids]
  /\ base \in [Edits -> Texts \cup Edits]
  /\ file \in Texts \cup Edits
  /\ mode \in {"manual", "auto"}
  /\ pend \in [Ids -> Edits \cup {NoEdit}]
  /\ inflight \subseteq Edits \X Answers
  /\ buffer \in [Edits -> {{}, {"yes"}, {"no"}}]
  /\ cancelled \subseteq Edits
  /\ hist \in Hist

\* A call's answer is in one place at most: still to be given, on its way, or
\* in the channel; and in none of them before the call asks.
OnePlace ==
  \A e \in Edits :
    /\ pend[id[e]] = e \/ pc[e] \in {"idle", "shown"} =>
         buffer[e] = {} /\ \A a \in Answers : <<e, a>> \notin inflight
    /\ \A a, b \in Answers :
         <<e, a>> \in inflight => buffer[e] = {} /\ (<<e, b>> \in inflight => a = b)

Requests == OnePlace /\ NoLeftovers

\* A "yes" for a call with an id of its own, wherever it has got to, is the
\* user's or the automatic mode's.
Consented ==
  \A e \in Edits : Unique(e) =>
    /\ pc[e] \in {"yes", "approved", "writing"} => e \in hist.consent \cup hist.auto
    /\ <<e, "yes">> \in inflight \/ "yes" \in buffer[e] => e \in hist.consent

\* A call about to write has seen what is there, or the file changed since.
Seen ==
  \A e \in Edits : pc[e] = "writing" /\ file # base[e] => e \in hist.late

\* The inductive invariant.
ApprovalInv == Typed /\ Requests /\ Answerable /\ Consented /\ Seen

-----------------------------------------------------------------------------
(* One step of the specification. *)

\* Every step keeps the types.
LEMMA TypeStep ==
  ASSUME Typed, OnePlace, Next
  PROVE  Typed'
<1> USE ApprovalAssumption DEF Typed, Goto, call, service, Answers, Hist,
       OnePlace
<1>1. ASSUME NEW e \in Edits, Propose(e)
      PROVE  Typed'
  BY <1>1 DEF Propose
<1>2. ASSUME NEW e \in Edits, RequestApproval(e)
      PROVE  Typed'
  BY <1>2 DEF RequestApproval
<1>3. ASSUME NEW e \in Edits, Receive(e)
      PROVE  Typed'
  BY <1>3 DEF Receive
<1>4. ASSUME NEW e \in Edits, Interrupted(e)
      PROVE  Typed'
  BY <1>4 DEF Interrupted
<1>5. ASSUME NEW e \in Edits, CleanUp(e)
      PROVE  Typed'
  BY <1>5 DEF CleanUp
<1>6. ASSUME NEW e \in Edits, Reread(e)
      PROVE  Typed'
  BY <1>6 DEF Reread
<1>7. ASSUME NEW e \in Edits, Write(e)
      PROVE  Typed'
  BY <1>7 DEF Write, Writing
<1>8. ASSUME NEW e \in Edits, CancelTurn(e)
      PROVE  Typed'
  BY <1>8 DEF CancelTurn
<1>9. ASSUME NEW e \in Edits, NEW a \in Answers, Complete(e, a)
      PROVE  Typed'
  BY <1>9 DEF Complete
<1>10. CASE Send
  BY <1>10 DEF Send
<1>11. CASE SetMode
  BY <1>11 DEF SetMode
<1>12. CASE SaveContent
  BY <1>12 DEF SaveContent, Writing
<1> HIDE DEF Typed
<1> QED
  BY <1>1, <1>2, <1>3, <1>4, <1>5, <1>6, <1>7, <1>8, <1>9, <1>10, <1>11, <1>12
     DEF Next, EditStep

\* An answer moves from place to place and is never doubled.
LEMMA RequestStep ==
  ASSUME Typed, Requests, Next
  PROVE  Requests'
<1> USE ApprovalAssumption DEF Typed, Goto, call, service, Answers, Requests,
       OnePlace, NoLeftovers
<1>1. ASSUME NEW e \in Edits, Propose(e)
      PROVE  Requests'
  BY <1>1 DEF Propose
<1>2. ASSUME NEW e \in Edits, RequestApproval(e)
      PROVE  Requests'
  BY <1>2 DEF RequestApproval
<1>3. ASSUME NEW e \in Edits, Receive(e)
      PROVE  Requests'
  <2>1. PICK a \in buffer[e] : Goto(e, "waiting", a)
    BY <1>3 DEF Receive
  <2>2. a \in Answers /\ buffer[e] # {} /\ buffer' = [buffer EXCEPT ![e] = {}]
    BY <1>3, <2>1 DEF Receive
  <2>3. ASSUME NEW i \in Ids, pend[i] = e PROVE FALSE
    <3>1. id[e] = i
      BY <2>3 DEF NoLeftovers
    <3> QED
      BY <2>2, <2>3, <3>1 DEF OnePlace
  <2>4. NoLeftovers'
    BY <1>3, <2>1, <2>3 DEF Receive
  <2>5. UNCHANGED <<id, pend, inflight>> /\ pend[id[e]] # e
    BY <1>3, <2>3 DEF Receive
  <2>6. ASSUME NEW f \in Edits, f # e
        PROVE  pc'[f] = pc[f] /\ buffer'[f] = buffer[f]
    BY <2>1, <2>2, <2>6
  <2>7. pc'[e] = a /\ buffer'[e] = {}
    BY <2>1, <2>2
  <2>8. OnePlace'
    BY <2>2, <2>5, <2>6, <2>7 DEF OnePlace
  <2> QED
    BY <2>4, <2>8
<1>4. ASSUME NEW e \in Edits, Interrupted(e)
      PROVE  Requests'
  BY <1>4 DEF Interrupted
<1>5. ASSUME NEW e \in Edits, CleanUp(e)
      PROVE  Requests'
  BY <1>5 DEF CleanUp
<1>6. ASSUME NEW e \in Edits, Reread(e) \/ Write(e) \/ CancelTurn(e)
      PROVE  Requests'
  BY <1>6 DEF Reread, Write, Writing, CancelTurn
<1>7. ASSUME NEW e \in Edits, NEW a \in Answers, Complete(e, a)
      PROVE  Requests'
  BY <1>7 DEF Complete
<1>8. CASE Send
  BY <1>8 DEF Send
<1>9. CASE SetMode \/ SaveContent
  BY <1>9 DEF SetMode, SaveContent, Writing
<1> QED
  BY <1>1, <1>2, <1>3, <1>4, <1>5, <1>6, <1>7, <1>8, <1>9
     DEF Next, EditStep

\* Nobody else takes away the entry of a call with an id of its own.
LEMMA AnswerableStep ==
  ASSUME Typed, Requests, Answerable, Next
  PROVE  Answerable'
<1> USE ApprovalAssumption DEF Typed, Goto, call, service, Answers, Requests,
       NoLeftovers, Answerable, Unique
<1>1. ASSUME NEW e \in Edits, Propose(e)
      PROVE  Answerable'
  BY <1>1 DEF Propose
<1>2. ASSUME NEW e \in Edits, RequestApproval(e)
      PROVE  Answerable'
  BY <1>2 DEF RequestApproval
<1>3. ASSUME NEW e \in Edits, Receive(e)
      PROVE  Answerable'
  BY <1>3 DEF Receive
<1>4. ASSUME NEW e \in Edits, Interrupted(e)
      PROVE  Answerable'
  BY <1>4 DEF Interrupted
<1>5. ASSUME NEW e \in Edits, CleanUp(e)
      PROVE  Answerable'
  BY <1>5 DEF CleanUp
<1>6. ASSUME NEW e \in Edits, Reread(e) \/ Write(e) \/ CancelTurn(e)
      PROVE  Answerable'
  BY <1>6 DEF Reread, Write, Writing, CancelTurn
<1>7. ASSUME NEW e \in Edits, NEW a \in Answers, Complete(e, a)
      PROVE  Answerable'
  BY <1>7 DEF Complete
<1>8. CASE Send
  BY <1>8 DEF Send
<1>9. CASE SetMode \/ SaveContent
  BY <1>9 DEF SetMode, SaveContent, Writing
<1> QED
  BY <1>1, <1>2, <1>3, <1>4, <1>5, <1>6, <1>7, <1>8, <1>9
     DEF Next, EditStep

\* The answer to a call with an id of its own reaches that call.
LEMMA ConsentStep ==
  ASSUME Typed, Requests, Consented, Next
  PROVE  Consented'
<1> USE ApprovalAssumption DEF Typed, Goto, call, service, Answers, Requests,
       NoLeftovers, Consented, Unique, Hist
<1>1. ASSUME NEW e \in Edits, Propose(e)
      PROVE  Consented'
  BY <1>1 DEF Propose
<1>2. ASSUME NEW e \in Edits, RequestApproval(e)
      PROVE  Consented'
  BY <1>2 DEF RequestApproval
<1>3. ASSUME NEW e \in Edits, Receive(e)
      PROVE  Consented'
  BY <1>3 DEF Receive
<1>4. ASSUME NEW e \in Edits, Interrupted(e)
      PROVE  Consented'
  BY <1>4 DEF Interrupted
<1>5. ASSUME NEW e \in Edits, CleanUp(e)
      PROVE  Consented'
  BY <1>5 DEF CleanUp
<1>6. ASSUME NEW e \in Edits, Reread(e)
      PROVE  Consented'
  BY <1>6 DEF Reread
<1>7. ASSUME NEW e \in Edits, Write(e)
      PROVE  Consented'
  BY <1>7 DEF Write, Writing
<1>8. ASSUME NEW e \in Edits, CancelTurn(e)
      PROVE  Consented'
  BY <1>8 DEF CancelTurn
<1>9. ASSUME NEW e \in Edits, NEW a \in Answers, Complete(e, a)
      PROVE  Consented'
  BY <1>9 DEF Complete
<1>10. CASE Send
  BY <1>10 DEF Send
<1>11. CASE SetMode \/ SaveContent
  BY <1>11 DEF SetMode, SaveContent, Writing
<1> QED
  BY <1>1, <1>2, <1>3, <1>4, <1>5, <1>6, <1>7, <1>8, <1>9, <1>10, <1>11
     DEF Next, EditStep

\* Whoever changes the file marks the calls about to write it.
LEMMA SeenStep ==
  ASSUME Typed, Seen, Next
  PROVE  Seen'
<1> USE ApprovalAssumption DEF Typed, Goto, call, service, Answers, Seen, Hist
<1>1. ASSUME NEW e \in Edits, Propose(e)
      PROVE  Seen'
  BY <1>1 DEF Propose
<1>2. ASSUME NEW e \in Edits, RequestApproval(e)
      PROVE  Seen'
  BY <1>2 DEF RequestApproval
<1>3. ASSUME NEW e \in Edits, Receive(e) \/ Interrupted(e) \/ CleanUp(e) \/ CancelTurn(e)
      PROVE  Seen'
  BY <1>3 DEF Receive, Interrupted, CleanUp, CancelTurn
<1>4. ASSUME NEW e \in Edits, Reread(e)
      PROVE  Seen'
  BY <1>4 DEF Reread
<1>5. ASSUME NEW e \in Edits, Write(e)
      PROVE  Seen'
  BY <1>5 DEF Write, Writing
<1>6. ASSUME NEW e \in Edits, NEW a \in Answers, Complete(e, a)
      PROVE  Seen'
  BY <1>6 DEF Complete
<1>7. CASE Send \/ SetMode
  BY <1>7 DEF Send, SetMode
<1>8. CASE SaveContent
  BY <1>8 DEF SaveContent, Writing
<1> QED
  BY <1>1, <1>2, <1>3, <1>4, <1>5, <1>6, <1>7, <1>8
     DEF Next, EditStep

-----------------------------------------------------------------------------
(* The invariant and what follows from it. *)

LEMMA InitInv == Init => ApprovalInv
BY ApprovalAssumption
   DEF Init, ApprovalInv, Typed, Hist, Answers, Requests, OnePlace, NoLeftovers,
       Answerable, Consented, Seen

LEMMA StutterInv == ApprovalInv /\ UNCHANGED vars => ApprovalInv'
<1> SUFFICES ASSUME ApprovalInv, UNCHANGED vars PROVE ApprovalInv'
  OBVIOUS
<1> USE DEF ApprovalInv, vars, call, service
<1>1. Typed' /\ Requests'
  BY DEF Typed, Requests, OnePlace, NoLeftovers
<1>2. Answerable' /\ Consented' /\ Seen'
  BY DEF Answerable, Consented, Seen, Unique
<1> QED
  BY <1>1, <1>2

\* However edits, answers, cancellations and mode switches meet, every answer
\* is in one place and says what the user said (RequestApproval, Complete).
THEOREM ApprovalSound == Spec => []ApprovalInv
<1>1. ApprovalInv /\ Next => ApprovalInv'
  BY TypeStep, RequestStep, AnswerableStep, ConsentStep, SeenStep
     DEF ApprovalInv, Requests
<1>2. ApprovalInv /\ [Next]_vars => ApprovalInv'
  BY <1>1, StutterInv
<1> QED
  BY InitInv, <1>2, PTL DEF Spec

\* Every variable keeps its type, and no channel holds more than one answer.
THEOREM TypeCorrect == Spec => []TypeOK
<1>1. ASSUME Typed, NEW e \in Edits
      PROVE  buffer[e] \subseteq Answers /\ Cardinality(buffer[e]) <= 1
  <2>1. buffer[e] \in {{}, {"yes"}, {"no"}}
    BY <1>1 DEF Typed
  <2>2. \A s : Cardinality({s}) = 1
    BY FS_Singleton
  <2>3. Cardinality({}) = 0
    BY FS_EmptySet
  <2>4. CASE buffer[e] = {}
    BY <2>3, <2>4
  <2>5. ASSUME NEW a \in Answers, buffer[e] = {a}
        PROVE  buffer[e] \subseteq Answers /\ Cardinality(buffer[e]) <= 1
    <3>1. Cardinality({a}) = 1
      BY <2>2
    <3> QED
      BY <2>5, <3>1
  <2> QED
    BY <2>1, <2>4, <2>5 DEF Answers
<1>2. ASSUME Typed PROVE buffer \in [Edits -> SUBSET Answers]
  BY <1>1, <1>2 DEF Typed
<1>3. ApprovalInv => TypeOK
  BY <1>1, <1>2 DEF ApprovalInv, Typed, TypeOK
<1> QED
  BY <1>3, ApprovalSound, PTL

\* Complete never blocks on the channel it took (Complete).
THEOREM AnswersFitHolds == Spec => []AnswersFit
<1>1. ApprovalInv => AnswersFit
  <2> SUFFICES ASSUME ApprovalInv, NEW x \in inflight, NEW y \in inflight
               PROVE  buffer[x[1]] = {} /\ (x[1] = y[1] => x = y)
    BY DEF AnswersFit
  <2>1. /\ x = <<x[1], x[2]>> /\ x[1] \in Edits /\ x[2] \in Answers
        /\ y = <<y[1], y[2]>> /\ y[1] \in Edits /\ y[2] \in Answers
    BY DEF ApprovalInv, Typed
  <2> QED
    BY <2>1 DEF ApprovalInv, Requests, OnePlace
<1> QED
  BY <1>1, ApprovalSound, PTL

\* The deferred delete leaves nothing behind (RequestApproval).
THEOREM NoLeftoversHolds == Spec => []NoLeftovers
<1>1. ApprovalInv => NoLeftovers
  BY DEF ApprovalInv, Requests
<1> QED
  BY <1>1, ApprovalSound, PTL

\* A waiting request with an id of its own can be answered (RequestApproval,
\* Complete).
THEOREM AnswerableHolds == Spec => []Answerable
<1>1. ApprovalInv => Answerable
  BY DEF ApprovalInv
<1> QED
  BY <1>1, ApprovalSound, PTL

\* An edit with an id of its own writes only what was approved
\* (EditTool.Execute).
THEOREM ConsentedWritesHolds == Spec => ConsentedWrites
<1>1. ApprovalInv =>
        [\A e \in Edits : Write(e) /\ Unique(e) =>
           e \in hist.consent \cup hist.auto]_vars
  BY DEF ApprovalInv, Consented, Write, Goto
<1> QED
  BY <1>1, ApprovalSound, PTL DEF ConsentedWrites

\* An edit never overwrites a text it has not seen, but for one that came after
\* its last look (EditTool.Execute).
THEOREM SeesWhatItReplacesHolds == Spec => SeesWhatItReplaces
<1>1. ApprovalInv =>
        [\A e \in Edits : Write(e) /\ file # base[e] => e \in hist.late]_vars
  BY DEF ApprovalInv, Seen, Write, Goto
<1> QED
  BY <1>1, ApprovalSound, PTL DEF SeesWhatItReplaces
=============================================================================
