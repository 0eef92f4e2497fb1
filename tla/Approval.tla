------------------------------ MODULE Approval ------------------------------
(***************************************************************************)
(* The approval of edits: the edit tool (src/internal/mcp_tools/           *)
(* rw_tools.go) proposes a new text for ONE file, waits in the approval    *)
(* service (src/internal/approval/approval.go) for the user's answer, and  *)
(* writes the file if it has not changed meanwhile.  Edits of different    *)
(* sessions run side by side; a request is known by the tool-call id the   *)
(* model chose, which the program does not check for uniqueness.           *)
(***************************************************************************)
EXTENDS Naturals, FiniteSets

CONSTANTS
  Edits,    \* calls of the edit tool
  Ids,      \* tool-call ids
  NoEdit,   \* no call
  Texts     \* texts the user can save

ASSUME ApprovalAssumption ==
  /\ NoEdit \notin Edits
  /\ Edits \cap Texts = {} /\ Texts # {}

VARIABLES
  pc,         \* how far each call has come
  id,         \* the id the model gave it; it never changes
  base,       \* the text it read
  file,       \* the file: a text of the user, or the one an edit proposed
  mode,       \* s.mode
  pend,       \* s.pend: the call whose channel is registered under an id
  inflight,   \* answers taken to a channel and not sent yet: <<call, answer>>
  buffer,     \* what lies in each call's channel
  cancelled,  \* calls whose turn has been cancelled
  hist        \* history, see below

call    == <<id, base>>
service == <<mode, pend, inflight, buffer>>
vars    == <<pc, call, file, service, cancelled, hist>>

Answers == {"yes", "no"}
Unique(e) == \A f \in Edits : id[f] = id[e] => f = e

\* `consent' holds the calls the user answered "yes" to, `auto' those made in
\* automatic mode, `late' those whose file changed after they last looked or whose
\* last look failed.
Hist == [consent : SUBSET Edits, auto : SUBSET Edits, late : SUBSET Edits]

TypeOK ==
  /\ pc \in [Edits -> {"idle", "shown", "waiting", "yes", "no", "stopped",
                       "approved", "writing", "returned"}]
  /\ id \in [Edits -> Ids]
  /\ base \in [Edits -> Texts \cup Edits]
  /\ file \in Texts \cup Edits
  /\ mode \in {"manual", "auto"}
  /\ pend \in [Ids -> Edits \cup {NoEdit}]
  /\ inflight \subseteq Edits \X Answers
  /\ buffer \in [Edits -> SUBSET Answers]
  /\ \A e \in Edits : Cardinality(buffer[e]) <= 1  \* make(chan Approval, 1)
  /\ cancelled \subseteq Edits
  /\ hist \in Hist

Init ==
  /\ pc = [e \in Edits |-> "idle"]
  /\ id \in [Edits -> Ids]
  /\ file \in Texts
  /\ base = [e \in Edits |-> file]
  /\ mode \in {"manual", "auto"}
  /\ pend = [i \in Ids |-> NoEdit]
  /\ inflight = {}
  /\ buffer = [e \in Edits |-> {}]
  /\ cancelled = {}
  /\ hist = [consent |-> {}, auto |-> {}, late |-> {}]

Goto(e, from, to) == pc[e] = from /\ pc' = [pc EXCEPT ![e] = to]

\* The calls about to write the file they have just looked at.
Writing == {e \in Edits : pc[e] = "writing"}

-----------------------------------------------------------------------------
(* The edit tool.                                                          *)

\* The file is read, the new text made and shown to the user (EmitApproval):
\* from here on the user may answer.
Propose(e) ==
  /\ Goto(e, "idle", "shown")
  /\ base' = [base EXCEPT ![e] = file]
  /\ UNCHANGED <<id, file, service, cancelled, hist>>

\* RequestApproval, up to the wait: in automatic mode it answers at once.
RequestApproval(e) ==
  /\ IF mode = "auto"
     THEN /\ Goto(e, "shown", "approved")
          /\ hist' = [hist EXCEPT !.auto = @ \cup {e}]
          /\ UNCHANGED pend
     ELSE /\ Goto(e, "shown", "waiting")
          /\ pend' = [pend EXCEPT ![id[e]] = e]
          /\ UNCHANGED hist
  /\ UNCHANGED <<call, file, mode, inflight, buffer, cancelled>>

\* The wait ends with an answer ...
Receive(e) ==
  /\ \E a \in buffer[e] : Goto(e, "waiting", a)
  /\ buffer' = [buffer EXCEPT ![e] = {}]
  /\ UNCHANGED <<call, file, mode, pend, inflight, cancelled, hist>>

\* Mutant: nobody watches the context.
InterruptedNever(e) == FALSE /\ Goto(e, "waiting", "stopped") /\ UNCHANGED vars

\* ... or with the context; when both are there either may win.
Interrupted(e) ==
  /\ e \in cancelled
  /\ Goto(e, "waiting", "stopped")
  /\ UNCHANGED <<call, file, service, cancelled, hist>>

\* The deferred delete, of whatever is registered under the id; a refused or
\* interrupted edit returns.
CleanUp(e) ==
  /\ pc[e] \in {"yes", "no", "stopped"}
  /\ pc' = [pc EXCEPT ![e] = IF @ = "yes" THEN "approved" ELSE "returned"]
  /\ pend' = [pend EXCEPT ![id[e]] = NoEdit]
  /\ UNCHANGED <<call, file, mode, inflight, buffer, cancelled, hist>>

\* Mutant: the file is not read again.
RereadBlindly(e) ==
  /\ Goto(e, "approved", "writing")
  /\ UNCHANGED <<call, file, service, cancelled, hist>>

\* The chapter's record is kept, which fails when the context is gone and there
\* is something to keep; then the file is read again and a changed one is left
\* alone, but one that cannot be read is written.
Reread(e) ==
  /\ \/ /\ Goto(e, "approved", IF file = base[e] THEN "writing" ELSE "returned")
        /\ UNCHANGED hist
     \/ e \in cancelled /\ Goto(e, "approved", "returned") /\ UNCHANGED hist
     \/ Goto(e, "approved", "writing") /\ hist' = [hist EXCEPT !.late = @ \cup {e}]
  /\ UNCHANGED <<call, file, service, cancelled>>

\* The file is written.
Write(e) ==
  /\ Goto(e, "writing", "returned")
  /\ file' = e
  /\ hist' = [hist EXCEPT !.late = @ \cup (Writing \ {e})]
  /\ UNCHANGED <<call, service, cancelled>>

-----------------------------------------------------------------------------
(* The user.                                                               *)

\* Mutant: the request that is registered is taken for approved.
CompleteApproves(e, a) ==
  /\ pc[e] # "idle"
  /\ pend[id[e]] # NoEdit
  /\ pend' = [pend EXCEPT ![id[e]] = NoEdit]
  /\ inflight' = inflight \cup {<<pend[id[e]], "yes">>}
  /\ hist' = IF a = "yes" THEN [hist EXCEPT !.consent = @ \cup {e}] ELSE hist
  /\ UNCHANGED <<pc, call, file, mode, buffer, cancelled>>

\* The user answers a call that was shown (Complete, up to the unlock): the
\* answer goes to whoever is registered under its id.  When nobody is, the user
\* gets an error and nothing changes.
Complete(e, a) ==
  /\ pc[e] # "idle"
  /\ pend[id[e]] # NoEdit
  /\ pend' = [pend EXCEPT ![id[e]] = NoEdit]
  /\ inflight' = inflight \cup {<<pend[id[e]], a>>}
  /\ hist' = IF a = "yes" THEN [hist EXCEPT !.consent = @ \cup {e}] ELSE hist
  /\ UNCHANGED <<pc, call, file, mode, buffer, cancelled>>

\* The rest of Complete: the answer is sent, once there is room for it.
Send ==
  /\ \E x \in inflight :
       /\ buffer[x[1]] = {}
       /\ buffer' = [buffer EXCEPT ![x[1]] = {x[2]}]
       /\ inflight' = inflight \ {x}
  /\ UNCHANGED <<pc, call, file, mode, pend, cancelled, hist>>

\* Mutant: the requests of the old mode are forgotten.
SetModeForgets ==
  /\ mode' \in {"manual", "auto"} \ {mode}
  /\ pend' = [i \in Ids |-> NoEdit]
  /\ UNCHANGED <<pc, call, file, inflight, buffer, cancelled, hist>>

\* SetApprovalMode: nobody who is waiting hears of it.
SetMode ==
  /\ mode' \in {"manual", "auto"} \ {mode}
  /\ UNCHANGED <<pc, call, file, pend, inflight, buffer, cancelled, hist>>

\* SaveContent: the user saves another text.
SaveContent ==
  /\ file' \in Texts \ {file}
  /\ hist' = [hist EXCEPT !.late = @ \cup Writing]
  /\ UNCHANGED <<pc, call, service, cancelled>>

\* The turn the call belongs to is cancelled.
CancelTurn(e) ==
  /\ pc[e] \notin {"idle", "returned"} /\ e \notin cancelled
  /\ cancelled' = cancelled \cup {e}
  /\ UNCHANGED <<pc, call, file, service, hist>>

-----------------------------------------------------------------------------
EditStep(e) ==
  \/ RequestApproval(e) \/ Receive(e) \/ Interrupted(e) \/ CleanUp(e)
  \/ Reread(e) \/ Write(e)

Next ==
  \/ \E e \in Edits :
       \/ Propose(e) \/ EditStep(e) \/ CancelTurn(e)
       \/ \E a \in Answers : Complete(e, a)
  \/ Send
  \/ SetMode
  \/ SaveContent

\* Goroutines that can run do; the user owes nothing.
Fairness == (\A e \in Edits : WF_vars(EditStep(e))) /\ WF_vars(Send)

Spec == Init /\ [][Next]_vars

FairSpec == Spec /\ Fairness

-----------------------------------------------------------------------------
(* Properties.                                                             *)

\* An answer always finds room in the channel it was taken to: Complete, which
\* sends outside the lock, never blocks the user interface, however often the
\* user clicks, even when ids are shared (Complete).
AnswersFit ==
  \A x \in inflight :
    buffer[x[1]] = {} /\ \A y \in inflight : x[1] = y[1] => x = y

\* Nothing is registered for a call that no longer waits (the deferred delete
\* of RequestApproval).
NoLeftovers ==
  \A i \in Ids : pend[i] # NoEdit =>
    id[pend[i]] = i /\ pc[pend[i]] \in {"waiting", "stopped"}

\* A waiting request with an id of its own can be answered, or has been: no
\* other request, answer or cancellation takes its entry away.
Answerable ==
  \A e \in Edits : Unique(e) /\ pc[e] = "waiting" =>
    \/ pend[id[e]] = e
    \/ \E a \in Answers : <<e, a>> \in inflight \/ a \in buffer[e]

\* What an edit with an id of its own writes the user has approved, unless the
\* mode was automatic when it asked.
ConsentedWrites ==
  [][\A e \in Edits : Write(e) /\ Unique(e) =>
       e \in hist.consent \cup hist.auto]_vars

\* An edit never overwrites a text it has not seen, but for one that came
\* between its last look and its write, or when that look failed
\* ("写入前重读对比，阻止并发冲突", EditTool).
SeesWhatItReplaces ==
  [][\A e \in Edits : Write(e) /\ file # base[e] => e \in hist.late]_vars

\* A request that was answered, or whose turn was cancelled, does not hang.
Unblocked ==
  \A e \in Edits :
    (e \in cancelled \/ \E a \in Answers : <<e, a>> \in inflight)
      ~> pc[e] = "returned"
=============================================================================
