--------------------------- MODULE Session_proofs ---------------------------
(***************************************************************************)
(* Two parts that keep a session in order and share nothing else.  First,  *)
(* what PhaseGate's runs show on one small gate, proved for every          *)
(* configuration: the type invariant, the invariant GateInv that ties the  *)
(* gate's bookkeeping and the session row to what happened, and from it    *)
(* the four properties that guard a phase's exit; then, for gates of the   *)
(* shipped shape, that a jump stays in the round.                          *)
(* Last, the safety of module Turns, for any number of chats and           *)
(* compressions of a session: nothing is registered for an operation that  *)
(* has ended, no channel is closed twice, an operation alone on its        *)
(* session can be stopped, and a deletion that meets nothing unusual is    *)
(* final.                                                                  *)
(***************************************************************************)
EXTENDS PhaseGate, Turns, SequenceTheorems, TLAPS

-----------------------------------------------------------------------------
(* Facts about the constants and the values built from them.               *)

LEMMA PhasesFacts ==
  /\ First \in Phases
  /\ {"prepare", "write", "done"} \subseteq Phases
  /\ "" \notin Phases
<1>1. PhaseOrder \in Seq(STRING) /\ PhaseOrder # <<>>
  BY ConfigAssumption
<1>2. Len(PhaseOrder) \in Nat /\ Len(PhaseOrder) # 0 /\ DOMAIN PhaseOrder = 1..Len(PhaseOrder)
  BY <1>1, EmptySeq, LenProperties
<1>3. 1 \in DOMAIN PhaseOrder
  BY <1>2
<1>4. First \in Phases
  BY <1>3 DEF First, Phases
<1> QED
  BY <1>4, ConfigAssumption

LEMMA ConfigType ==
  ASSUME NEW m \in Modes, NEW p \in Phases
  PROVE  Config[m][p] \in PhaseConfig
BY ConfigAssumption

LEMMA ToolFacts ==
  /\ {"edit", "get_chapter_list", "check_story_consistency", "run_subagent",
      "auto_skill_injection"} \subseteq Tools
  /\ MiniMaintain \subseteq Tools
BY ConfigAssumption

LEMMA FreshHistType ==
  ASSUME NEW p \in Phases
  PROVE  FreshHist(p) \in Hist
BY DEF FreshHist, Hist

LEMMA NoReadsType == NoReads \in Reads
BY DEF NoReads, Reads

LEMMA EmptySaveType ==
  ASSUME NEW p \in Phases \cup {""}
  PROVE  /\ EmptySave(p) \in SavedState
         /\ Backed(EmptySave(p).tools, EmptySave(p).errs, EmptySave(p).hist)
<1>1. (IF p = "" THEN First ELSE p) \in Phases
  BY PhasesFacts
<1>2. FreshHist(IF p = "" THEN First ELSE p) \in Hist
  BY <1>1, FreshHistType
<1> QED
  BY <1>2, NoReadsType, PhasesFacts DEF EmptySave, SavedState, Backed, FreshHist

\* Injecting skills keeps the reads well typed.
LEMMA InjectedType ==
  ASSUME mode \in Modes, NEW rd \in Reads, NEW p \in Phases, NEW r \in Injected(rd, p)
  PROVE  r \in Reads
<1>1. Config[mode][p].skills \subseteq Skills
  BY ConfigType DEF PhaseConfig
<1>2. [rd EXCEPT ![p] = @ \cup Config[mode][p].skills] \in Reads
  BY <1>1 DEF Reads
<1> QED
  BY <1>2 DEF Injected

-----------------------------------------------------------------------------
(* The type invariant.                                                     *)

LEMMA InitType == Init => TypeOK
BY PhasesFacts, FreshHistType, EmptySaveType, NoReadsType
   DEF Init, TypeOK, Modes

LEMMA NoGateType ==
  ASSUME TypeOK, NoGate, saved' \in SavedState, savedMode' \in Modes
  PROVE  TypeOK'
BY PhasesFacts, FreshHistType, NoReadsType DEF TypeOK, NoGate, Modes

\* A tool that runs leaves the gate's phase and the row as they are.
LEMMA ExecutesType ==
  ASSUME TypeOK, NEW t \in Tools, Executes(t)
  PROVE  /\ reads' \in Reads
         /\ UNCHANGED <<running, mode, phase, visited, roundDone, saved, savedMode>>
BY InjectedType DEF Executes, ReadsAtCheck, TypeOK

LEMMA ExecutedType ==
  ASSUME TypeOK, NEW t \in Tools, NEW success \in BOOLEAN
  PROVE  Executed(t, success) \in Hist
BY DEF TypeOK, Executed, Hist

LEMMA ToolCallType ==
  ASSUME TypeOK, ToolCall
  PROVE  TypeOK'
<1>1. ASSUME NEW t \in Tools, ToolBlocked(t)
      PROVE  TypeOK'
  BY <1>1, InjectedType DEF ToolBlocked, ReadsAtCheck, TypeOK
<1>2. ASSUME NEW t \in Tools, NEW success \in BOOLEAN,
             CallPlain(t, success)
      PROVE  TypeOK'
  BY <1>2, ExecutesType, ExecutedType DEF CallPlain, OnToolCall, TypeOK
<1>3. ASSUME NEW wc \in {"none", "ok", "short"}, CallChapterList(wc)
      PROVE  TypeOK'
  <2>1. /\ "get_chapter_list" \in Tools
        /\ Executed("get_chapter_list", wc # "short") \in Hist
    BY ToolFacts, ExecutedType
  <2>2. hist' \in Hist
    BY <1>3, <2>1 DEF CallChapterList, Hist
  <2> QED
    BY <1>3, <2>1, <2>2, ExecutesType DEF CallChapterList, OnToolCall, TypeOK
<1>4. ASSUME NEW types \in SUBSET CheckTypes,
             NEW e \in SUBSET {x \in Errors : TypeOf[x] \in types},
             CallCheck(types, e)
      PROVE  TypeOK'
  <2>1. /\ "check_story_consistency" \in Tools
        /\ Executed("check_story_consistency", TRUE) \in Hist
    BY ToolFacts, ExecutedType
  <2>2. hist' \in Hist
    BY <1>4, <2>1 DEF CallCheck, Hist
  <2> QED
    BY <1>4, <2>1, <2>2, ExecutesType
       DEF CallCheck, OnToolCall, RecordConsistencyCheck, TypeOK
<1>5. ASSUME NEW a \in {"review", "memory"}, NEW r \in {"blank", "fail", "other"},
             CallSubAgent(a, r)
      PROVE  TypeOK'
  <2>1. /\ "run_subagent" \in Tools
        /\ Executed("run_subagent", TRUE) \in Hist
    BY ToolFacts, ExecutedType
  <2>2. hist' \in Hist
    BY <1>5, <2>1 DEF CallSubAgent, Hist
  <2> QED
    BY <1>5, <2>1, <2>2, ExecutesType DEF CallSubAgent, OnToolCall, TypeOK
<1>6. ASSUME NEW t \in ResultTools, CallFails(t)
      PROVE  TypeOK'
  <2>1. t \in Tools
    BY ToolFacts DEF ResultTools
  <2> QED
    BY <1>6, <2>1, ExecutesType, ExecutedType DEF CallFails, OnToolCall, TypeOK
<1> QED
  BY <1>1, <1>2, <1>3, <1>4, <1>5, <1>6 DEF ToolCall

LEMMA EnterType ==
  ASSUME TypeOK, NEW target \in Phases, NEW rd \in Reads, Enter(target, rd)
  PROVE  TypeOK'
<1>1. reads' \in Reads
  BY InjectedType DEF Enter, TypeOK
<1>2. hist' \in Hist
  BY DEF Enter, EnterHist, Hist, TypeOK
<1>3. /\ phase' \in Phases
      /\ visited' \subseteq Phases
      /\ roundDone' \in BOOLEAN
      /\ counted' \in BOOLEAN
  BY DEF Enter, CountedOnEntry, RoundWraps, TypeOK
<1> QED
  BY <1>1, <1>2, <1>3 DEF Enter, TypeOK

LEMMA RefusedType ==
  ASSUME TypeOK, NEW target \in Phases, NEW rd \in Reads, Refused(target, rd)
  PROVE  TypeOK'
BY DEF Refused, CountedOnEntry, TypeOK

LEMMA ReadsAtMoveType ==
  ASSUME TypeOK, NEW rd \in ReadsAtMove
  PROVE  rd \in Reads
BY InjectedType DEF ReadsAtMove, TypeOK

\* What stays reported changes neither the type nor the phase of a row.
LEMMA StillOpenType ==
  ASSUME TypeOK, NEW s \in SavedState
  PROVE  /\ StillOpen(s) \in SavedState
         /\ StillOpen(s).phase = s.phase
<1>1. saved.hist \in Hist /\ s.hist \in Hist
  BY DEF TypeOK, SavedState
<1>2. [s.hist EXCEPT !.open = saved.hist.open, !.lost = saved.hist.lost] \in Hist
  BY <1>1 DEF Hist
<1>3. StillOpen(s) = [s EXCEPT !.hist = [s.hist EXCEPT !.open = saved.hist.open,
                                                     !.lost = saved.hist.lost]]
  BY <1>1 DEF StillOpen, SavedState, Hist
<1> QED
  BY <1>2, <1>3 DEF SavedState

LEMMA RowType ==
  ASSUME TypeOK, NEW begun \in BOOLEAN
  PROVE  /\ Row(begun) \in SavedState
         /\ Loaded(begun) \in SavedState
         /\ Loaded(begun).phase \in Phases
<1>1. Row(begun) \in SavedState
  BY EmptySaveType, StillOpenType, PhasesFacts DEF Row, TypeOK
<1>2. CASE Row(begun).phase = "done"
  <2>1. Loaded(begun) = StillOpen([EmptySave("prepare") EXCEPT !.visited = {"prepare"}])
    BY <1>2 DEF Loaded
  <2>2. /\ [EmptySave("prepare") EXCEPT !.visited = {"prepare"}] \in SavedState
        /\ [EmptySave("prepare") EXCEPT !.visited = {"prepare"}].phase = "prepare"
    BY EmptySaveType, PhasesFacts DEF EmptySave, SavedState
  <2> QED
    BY <1>1, <2>1, <2>2, StillOpenType, PhasesFacts
<1>3. CASE Row(begun).phase = ""
  <2>1. Loaded(begun) = StillOpen(EmptySave(First))
    BY <1>3 DEF Loaded
  <2>2. EmptySave(First) \in SavedState /\ EmptySave(First).phase = First
    BY EmptySaveType, PhasesFacts DEF EmptySave
  <2> QED
    BY <1>1, <2>1, <2>2, StillOpenType, PhasesFacts
<1>4. CASE Row(begun).phase \notin {"done", ""}
  <2>1. Loaded(begun) = Row(begun)
    BY <1>4 DEF Loaded
  <2> QED
    BY <1>1, <1>4, <2>1 DEF SavedState
<1> QED
  BY <1>2, <1>3, <1>4

LEMMA SaveStateType ==
  ASSUME TypeOK
  PROVE  SaveState \in SavedState
BY EmptySaveType, PhasesFacts DEF SaveState, HistToSave, SavedState, Hist, TypeOK

\* What a crash does to the row: its history takes in the killed Run's errors.
LEMMA CrashRow ==
  ASSUME TypeOK, Crash
  PROVE  /\ saved' \in SavedState
         /\ saved'.phase = saved.phase /\ saved'.tools = saved.tools
         /\ saved'.errs = saved.errs /\ saved'.visited = saved.visited
         /\ saved'.hist.done = saved.hist.done /\ saved'.hist.been = saved.hist.been
         /\ saved'.hist.open = saved.hist.open \cup hist.open
         /\ saved'.hist.lost = saved.hist.lost \cup (hist.open \ saved.errs)
<1>1. saved \in SavedState /\ saved.hist \in Hist /\ hist \in Hist
  BY DEF TypeOK, SavedState
<1> DEFINE h == [saved.hist EXCEPT !.open = @ \cup hist.open,
                                   !.lost = @ \cup (hist.open \ saved.errs)]
<1>2. h \in Hist /\ h.done = saved.hist.done /\ h.been = saved.hist.been
      /\ h.open = saved.hist.open \cup hist.open
      /\ h.lost = saved.hist.lost \cup (hist.open \ saved.errs)
  BY <1>1 DEF Hist
<1>3. saved' = [saved EXCEPT !.hist = h]
  BY <1>1 DEF Crash, SavedState, Hist
<1> QED
  BY <1>1, <1>2, <1>3 DEF SavedState

LEMMA NextType == TypeOK /\ [Next]_vars => TypeOK'
<1> SUFFICES ASSUME TypeOK, [Next]_vars PROVE TypeOK'
  OBVIOUS
<1>1. CASE ToolCall
  BY <1>1, ToolCallType
<1>2. ASSUME NEW s \in Skills, ReadSkill(s) PROVE TypeOK'
  <2>1. /\ "auto_skill_injection" \in Tools
        /\ Executed("auto_skill_injection", TRUE) \in Hist
    BY ToolFacts, ExecutedType
  <2>2. reads' \in Reads
    BY <1>2 DEF ReadSkill, Reads, TypeOK
  <2> QED
    BY <1>2, <2>1, <2>2 DEF ReadSkill, OnToolCall, TypeOK
<1>3. ASSUME NEW target \in Phases, SetPhase(target) PROVE TypeOK'
  BY <1>3, ReadsAtMoveType, EnterType, RefusedType DEF SetPhase
<1>4. CASE SetPhaseStay
  <2>1. hist' \in Hist
    BY <1>4 DEF SetPhaseStay, Hist, TypeOK
  <2> QED
    BY <1>4, <2>1 DEF SetPhaseStay, TypeOK
<1>5. CASE AutoAdvance
  <2>1. Cfg.next \in Phases
    BY <1>5, ConfigType DEF AutoAdvance, ShouldAutoAdvance, Cfg, PhaseConfig, TypeOK
  <2>2. reads \in Reads
    BY DEF TypeOK
  <2> QED
    BY <1>5, <2>1, <2>2, EnterType, RefusedType DEF AutoAdvance
<1>6. ASSUME NEW batchIntent \in BOOLEAN, NEW begun \in BOOLEAN,
             StartRun(batchIntent, begun)
      PROVE  TypeOK'
  <2>1. /\ Row(begun) \in SavedState
        /\ Loaded(begun) \in SavedState
        /\ Loaded(begun).phase \in Phases
    BY RowType
  <2>2. /\ Loaded(begun).tools \subseteq Tools
        /\ Loaded(begun).visited \subseteq Phases
        /\ Loaded(begun).reads \in Reads
        /\ Loaded(begun).errs \subseteq Errors
        /\ Loaded(begun).hist \in Hist
    BY <2>1 DEF SavedState
  <2> QED
    BY <1>6, <2>1, <2>2 DEF StartRun, TypeOK, Modes
<1>7. CASE EndRun
  BY <1>7, SaveStateType, NoGateType DEF EndRun, TypeOK, Modes
<1>8. CASE Crash
  <2>1. saved' \in SavedState
    BY <1>8, CrashRow
  <2> QED
    BY <1>8, <2>1, NoGateType DEF Crash, TypeOK
<1>9. ASSUME NEW m \in Modes, SetPhaseMode(m) PROVE TypeOK'
  BY <1>9 DEF SetPhaseMode, gate, TypeOK
<1>10. CASE UNCHANGED vars
  BY <1>10 DEF vars, gate, TypeOK
<1> QED
  BY <1>1, <1>2, <1>3, <1>4, <1>5, <1>6, <1>7, <1>8, <1>9, <1>10 DEF Next

\* Every reachable state is well typed, for every configuration of the gate.
THEOREM TypeCorrect == Spec => []TypeOK
<1>1. Init => TypeOK
  BY InitType
<1>2. TypeOK /\ [Next]_vars => TypeOK'
  BY NextType
<1> QED
  BY <1>1, <1>2, PTL DEF Spec

-----------------------------------------------------------------------------
(* GateInv: what the gate believes is backed by what happened.             *)

LEMMA InitInv == Init => GateInv
<1> SUFFICES ASSUME Init PROVE GateInv
  OBVIOUS
<1>1. TypeOK
  BY InitType
<1>2. Backed(saved.tools, saved.errs, saved.hist)
  BY EmptySaveType DEF Init
<1>3. ok = {} /\ errs = {} /\ ~counted /\ hist.open = {} /\ saved.errs = {}
  BY DEF Init, FreshHist, EmptySave
<1> QED
  BY <1>1, <1>2, <1>3 DEF GateInv, Backed

LEMMA NoGateInv ==
  ASSUME GateInv, NoGate, TypeOK', Backed(saved.tools, saved.errs, saved.hist)',
         saved'.phase \in {"", "done"} => saved'.errs = {}
  PROVE  GateInv'
BY DEF GateInv, NoGate, Backed, FreshHist

\* A tool run that leaves the errors and the word count alone.
LEMMA PlainRunInv ==
  ASSUME GateInv, TypeOK', NEW t \in Tools, NEW success \in BOOLEAN,
         OnToolCall(t, success),
         hist'.done = Executed(t, success).done,
         hist'.open = hist.open, hist'.lost = hist.lost, hist'.counted = hist.counted,
         UNCHANGED <<errs, counted, phase, saved>>
  PROVE  GateInv'
<1>1. Executed(t, success).done = IF success THEN hist.done \cup {t} ELSE hist.done
  BY DEF Executed, GateInv, TypeOK, Hist
<1>2. Backed(ok, errs, hist)'
  BY <1>1 DEF GateInv, Backed, OnToolCall
<1> QED
  BY <1>2 DEF GateInv

LEMMA ToolCallInv ==
  ASSUME GateInv, TypeOK', ToolCall
  PROVE  GateInv'
<1> USE DEF Hist
<1>0. TypeOK /\ hist \in Hist
  BY DEF GateInv, TypeOK
<1>1. ASSUME NEW t \in Tools, ToolBlocked(t)
      PROVE  GateInv'
  BY <1>1 DEF ToolBlocked, GateInv, Backed
<1>2. ASSUME NEW t \in Tools, NEW success \in BOOLEAN,
             CallPlain(t, success)
      PROVE  GateInv'
  <2>1. UNCHANGED <<phase, saved, errs, counted>> /\ OnToolCall(t, success)
    BY <1>2 DEF CallPlain, Executes
  <2>2. hist' = Executed(t, success)
    BY <1>2 DEF CallPlain
  <2>3. hist'.open = hist.open /\ hist'.lost = hist.lost /\ hist'.counted = hist.counted
    BY <1>0, <2>2 DEF Executed
  <2> QED
    BY <2>1, <2>2, <2>3, PlainRunInv
<1>3. ASSUME NEW wc \in {"none", "ok", "short"}, CallChapterList(wc)
      PROVE  GateInv'
  <2>1. /\ UNCHANGED <<phase, saved, errs>>
        /\ ok' = IF wc # "short" THEN ok \cup {"get_chapter_list"} ELSE ok
        /\ counted' = IF wc = "none" THEN counted ELSE wc = "ok"
    BY <1>3 DEF CallChapterList, Executes, OnToolCall
  <2>2. /\ hist'.done = IF wc # "short" THEN hist.done \cup {"get_chapter_list"}
                                       ELSE hist.done
        /\ hist'.open = hist.open /\ hist'.lost = hist.lost
        /\ hist'.counted = IF wc = "none" THEN hist.counted ELSE wc = "ok"
    BY <1>0, <1>3 DEF CallChapterList, Executed
  <2> QED
    BY <2>1, <2>2 DEF GateInv, Backed
<1>4. ASSUME NEW types \in SUBSET CheckTypes,
             NEW e \in SUBSET {x \in Errors : TypeOf[x] \in types},
             CallCheck(types, e)
      PROVE  GateInv'
  <2>1. /\ UNCHANGED <<phase, saved, counted>>
        /\ ok' = ok \cup {"check_story_consistency"}
        /\ errs' = IF FullTypes \subseteq types THEN e ELSE errs \cup e
    BY <1>4 DEF CallCheck, Executes, OnToolCall, RecordConsistencyCheck
  <2>2. /\ hist'.done = hist.done \cup {"check_story_consistency"}
        /\ hist'.open = {x \in hist.open : TypeOf[x] \notin types} \cup e
        /\ hist'.lost = {x \in hist.lost : TypeOf[x] \notin types}
        /\ hist'.counted = hist.counted
    BY <1>0, <1>4 DEF CallCheck, Executed
  <2>3. Backed(ok, errs, hist)'
    BY <2>1, <2>2 DEF GateInv, Backed
  <2> QED
    BY <2>1, <2>2, <2>3 DEF GateInv
<1>5. ASSUME NEW a \in {"review", "memory"}, NEW r \in {"blank", "fail", "other"},
             CallSubAgent(a, r)
      PROVE  GateInv'
  <2>1. UNCHANGED <<phase, saved, errs, counted>> /\ OnToolCall("run_subagent", TRUE)
    BY <1>5 DEF CallSubAgent, Executes
  <2>2. /\ hist'.done = Executed("run_subagent", TRUE).done
        /\ hist'.open = hist.open /\ hist'.lost = hist.lost
        /\ hist'.counted = hist.counted
    BY <1>0, <1>5 DEF CallSubAgent, Executed
  <2> QED
    BY <2>1, <2>2, PlainRunInv, ToolFacts
<1>6. ASSUME NEW t \in ResultTools, CallFails(t)
      PROVE  GateInv'
  <2>1. UNCHANGED <<phase, saved, errs, counted>> /\ OnToolCall(t, FALSE)
    BY <1>6 DEF CallFails, Executes
  <2>2. hist' = Executed(t, FALSE)
    BY <1>6 DEF CallFails
  <2>3. hist'.open = hist.open /\ hist'.lost = hist.lost /\ hist'.counted = hist.counted
    BY <1>0, <2>2 DEF Executed
  <2> QED
    BY <2>1, <2>2, <2>3, PlainRunInv, ToolFacts DEF ResultTools
<1> QED
  BY <1>1, <1>2, <1>3, <1>4, <1>5, <1>6 DEF ToolCall

LEMMA EnterInv ==
  ASSUME GateInv, TypeOK', NEW target \in Phases, NEW rd \in Reads, Enter(target, rd)
  PROVE  GateInv'
<1>1. /\ ok' = {} /\ errs' = {} /\ saved' = saved
      /\ phase' = target
      /\ counted' = (target # "write" /\ counted)
  BY DEF Enter, CountedOnEntry
<1>2. hist'.open = {}
  BY DEF Enter, EnterHist, GateInv, TypeOK, Hist
<1> QED
  BY <1>1, <1>2 DEF GateInv, Backed

LEMMA RefusedInv ==
  ASSUME GateInv, TypeOK', NEW target \in Phases, NEW rd \in Reads, Refused(target, rd)
  PROVE  GateInv'
BY DEF Refused, CountedOnEntry, GateInv, Backed

\* A row that knows no errors is loaded with what was lost.
LEMMA StillOpenInv ==
  ASSUME GateInv, saved.errs = {}, NEW s \in SavedState, s.tools = {}
  PROVE  /\ Backed(StillOpen(s).tools, StillOpen(s).errs, StillOpen(s).hist)
         /\ StillOpen(s).errs = s.errs
<1>1. saved.hist \in Hist /\ s.hist \in Hist
  BY DEF GateInv, TypeOK, SavedState
<1>2. /\ StillOpen(s).tools = {} /\ StillOpen(s).errs = s.errs
      /\ StillOpen(s).hist.open = saved.hist.open
      /\ StillOpen(s).hist.lost = saved.hist.lost
  BY <1>1 DEF StillOpen, SavedState, Hist
<1> QED
  BY <1>2 DEF GateInv, Backed

LEMMA LoadedInv ==
  ASSUME GateInv, NEW begun \in BOOLEAN
  PROVE  /\ Backed(Row(begun).tools, Row(begun).errs, Row(begun).hist)
         /\ Row(begun).phase \in {"", "done"} => Row(begun).errs = {}
         /\ Backed(Loaded(begun).tools, Loaded(begun).errs, Loaded(begun).hist)
<1> DEFINE Fresh == EmptySave("prepare")
           Reset == [EmptySave("prepare") EXCEPT !.visited = {"prepare"}]
           Anew == EmptySave(First)
<1>0. /\ Fresh \in SavedState /\ Fresh.tools = {} /\ Fresh.errs = {}
      /\ Reset \in SavedState /\ Reset.tools = {}
      /\ Anew \in SavedState /\ Anew.tools = {}
  BY EmptySaveType, PhasesFacts DEF EmptySave, SavedState
<1> HIDE DEF Fresh, Reset, Anew
<1>1. CASE saved.phase = "" /\ begun
  <2>1. Row(begun) = StillOpen(Fresh)
    BY <1>1 DEF Row, Fresh
  <2>2. saved.errs = {}
    BY <1>1 DEF GateInv
  <2>3. Backed(Row(begun).tools, Row(begun).errs, Row(begun).hist) /\ Row(begun).errs = {}
    BY <1>0, <2>1, <2>2, StillOpenInv
  <2>4. Row(begun).phase = "prepare"
    BY <1>0, <2>1, StillOpenType DEF GateInv, Fresh, EmptySave
  <2>5. Loaded(begun) = Row(begun)
    BY <2>4, PhasesFacts DEF Loaded
  <2> QED
    BY <2>3, <2>5
<1>2. CASE ~(saved.phase = "" /\ begun)
  <2>1. Row(begun) = saved
    BY <1>2 DEF Row
  <2>2. Loaded(begun) \in {StillOpen(Reset), StillOpen(Anew), saved}
    BY <2>1 DEF Loaded, Reset, Anew
  <2>3. Loaded(begun) # saved => saved.errs = {}
    BY <2>1 DEF Loaded, GateInv
  <2>4. CASE Loaded(begun) = saved
    BY <2>1, <2>4 DEF GateInv
  <2>5. CASE Loaded(begun) # saved
    BY <1>0, <2>1, <2>2, <2>3, <2>5, StillOpenInv DEF GateInv
  <2> QED
    BY <2>4, <2>5
<1> QED
  BY <1>1, <1>2

LEMMA NextInv == GateInv /\ [Next]_vars => GateInv'
<1> SUFFICES ASSUME GateInv, [Next]_vars PROVE GateInv'
  OBVIOUS
<1>0. TypeOK /\ TypeOK' /\ hist \in Hist
  BY NextType DEF GateInv, TypeOK
<1>1. CASE ToolCall
  BY <1>0, <1>1, ToolCallInv
<1>2. ASSUME NEW s \in Skills, ReadSkill(s) PROVE GateInv'
  <2>1. /\ UNCHANGED <<phase, saved, errs, counted>>
        /\ OnToolCall("auto_skill_injection", TRUE)
        /\ hist' = Executed("auto_skill_injection", TRUE)
    BY <1>2 DEF ReadSkill
  <2>2. hist'.open = hist.open /\ hist'.lost = hist.lost /\ hist'.counted = hist.counted
    BY <1>0, <2>1 DEF Executed, Hist
  <2> QED
    BY <1>0, <2>1, <2>2, PlainRunInv, ToolFacts
<1>3. ASSUME NEW target \in Phases, SetPhase(target) PROVE GateInv'
  BY <1>0, <1>3, ReadsAtMoveType, EnterInv, RefusedInv DEF SetPhase
<1>4. CASE SetPhaseStay
  <2>1. CASE BatchChapter
    BY <1>0, <1>4, <2>1 DEF SetPhaseStay, GateInv, Backed, Hist
  <2>2. CASE ~BatchChapter
    BY <1>0, <1>4, <2>2 DEF SetPhaseStay, GateInv, Backed
  <2> QED
    BY <2>1, <2>2
<1>5. CASE AutoAdvance
  <2>1. Cfg.next \in Phases
    BY <1>0, <1>5, ConfigType DEF AutoAdvance, ShouldAutoAdvance, Cfg, PhaseConfig, TypeOK
  <2>2. reads \in Reads
    BY <1>0 DEF TypeOK
  <2> QED
    BY <1>0, <1>5, <2>1, <2>2, EnterInv, RefusedInv DEF AutoAdvance
<1>6. ASSUME NEW batchIntent \in BOOLEAN, NEW begun \in BOOLEAN,
             StartRun(batchIntent, begun)
      PROVE  GateInv'
  BY <1>0, <1>6, LoadedInv DEF StartRun, GateInv
<1>7. CASE EndRun
  <2>1. Backed(SaveState.tools, SaveState.errs, SaveState.hist)
    BY EmptySaveType, PhasesFacts DEF SaveState, HistToSave, Backed, Hist, TypeOK, GateInv
  <2>2. SaveState.phase \in {"", "done"} => SaveState.errs = {}
    BY <1>0, PhasesFacts DEF SaveState, EmptySave, TypeOK
  <2> QED
    BY <1>0, <1>7, <2>1, <2>2, NoGateInv DEF EndRun
<1>8. CASE Crash
  <2>1. Backed(saved.tools, saved.errs, saved.hist)'
    BY <1>0, <1>8, CrashRow DEF GateInv, Backed
  <2>2. saved'.phase \in {"", "done"} => saved'.errs = {}
    BY <1>0, <1>8, CrashRow DEF GateInv
  <2> QED
    BY <1>0, <1>8, <2>1, <2>2, NoGateInv DEF Crash
<1>9. ASSUME NEW m \in Modes, SetPhaseMode(m) PROVE GateInv'
  BY <1>0, <1>9 DEF SetPhaseMode, gate, GateInv
<1>10. CASE UNCHANGED vars
  BY <1>0, <1>10 DEF vars, gate, GateInv
<1> QED
  BY <1>1, <1>2, <1>3, <1>4, <1>5, <1>6, <1>7, <1>8, <1>9, <1>10 DEF Next

\* In every reachable state the tools the gate counts have really succeeded in
\* this phase, the errors a full check would cover and that are still open are
\* among those it blocks on, and its word count is this chapter's; the same
\* holds of what the session row will restore.
THEOREM GateSound == Spec => []GateInv
<1> QED
  BY InitInv, NextInv, PTL DEF Spec

-----------------------------------------------------------------------------
(* The exits.                                                              *)

\* The only steps that move a Run's gate found the way out open.
LEMMA LeavingNeedsCanLeave ==
  ASSUME TypeOK, [Next]_vars, Leaving
  PROVE  \E rd : CanLeave(phase', rd)
<1>1. CASE ToolCall
  BY <1>1 DEF ToolCall, ToolBlocked, CallPlain, CallChapterList, CallCheck, CallSubAgent,
              CallFails, Executes, Leaving
<1>2. CASE \E s \in Skills : ReadSkill(s)
  BY <1>2 DEF ReadSkill, Leaving
<1>3. CASE \E target \in Phases : SetPhase(target)
  BY <1>3 DEF SetPhase, Enter, Refused, Leaving
<1>4. CASE SetPhaseStay
  BY <1>4 DEF SetPhaseStay, Leaving
<1>5. CASE AutoAdvance
  BY <1>5 DEF AutoAdvance, Enter, Refused, Leaving
<1>6. CASE \E batchIntent, begun \in BOOLEAN : StartRun(batchIntent, begun)
  BY <1>6 DEF StartRun, Leaving
<1>7. CASE EndRun \/ Crash
  BY <1>7 DEF EndRun, Crash, NoGate, Leaving
<1>8. CASE \E m \in Modes : SetPhaseMode(m)
  BY <1>8 DEF SetPhaseMode, gate, Leaving
<1>9. CASE UNCHANGED vars
  BY <1>9 DEF vars, gate, Leaving
<1> QED
  BY <1>1, <1>2, <1>3, <1>4, <1>5, <1>6, <1>7, <1>8, <1>9 DEF Next

\* For every configuration: a phase is left only when all it requires succeeded
\* in it.
THEOREM RequireDischargedHolds == Spec => RequireDischarged
<1>1. GateInv /\ [Next]_vars => [Leaving => Cfg.require \subseteq hist.done]_vars
  <2> SUFFICES ASSUME GateInv, [Next]_vars, Leaving
               PROVE  Cfg.require \subseteq hist.done
    OBVIOUS
  <2>1. RequireMet
    BY LeavingNeedsCanLeave DEF GateInv, CanLeave
  <2> QED
    BY <2>1 DEF RequireMet, GateInv, Backed
<1> QED
  BY <1>1, GateSound, PTL DEF Spec, RequireDischarged

\* For every configuration: an open error of a type a full check covers keeps
\* the gate in its phase, however the checks were narrowed and the Runs resumed,
\* unless only a Run that was killed knew of it.
THEOREM ErrorsBlockExitHolds == Spec => ErrorsBlockExit
<1>1. GateInv /\ [Next]_vars
        => [Leaving => \A e \in hist.open : \/ TypeOf[e] \notin FullTypes
                                            \/ e \in hist.lost]_vars
  <2> SUFFICES ASSUME GateInv, [Next]_vars, Leaving
               PROVE  \A e \in hist.open : \/ TypeOf[e] \notin FullTypes
                                           \/ e \in hist.lost
    OBVIOUS
  <2>1. ResultGateMet
    BY LeavingNeedsCanLeave DEF GateInv, CanLeave
  <2> QED
    BY <2>1 DEF ResultGateMet, GateInv, Backed
<1> QED
  BY <1>1, GateSound, PTL DEF Spec, ErrorsBlockExit

\* For every configuration: write is left only after this chapter was counted.
THEOREM CountedBeforeLeavingWriteHolds == Spec => CountedBeforeLeavingWrite
<1>1. GateInv /\ [Next]_vars => [Leaving /\ phase = "write" => hist.counted]_vars
  <2> SUFFICES ASSUME GateInv, [Next]_vars, Leaving, phase = "write"
               PROVE  hist.counted
    OBVIOUS
  <2>1. WordCountMet
    BY LeavingNeedsCanLeave DEF GateInv, CanLeave
  <2> QED
    BY <2>1 DEF WordCountMet, GateInv
<1> QED
  BY <1>1, GateSound, PTL DEF Spec, CountedBeforeLeavingWrite

\* Only the declaration of the next batch chapter empties the record of a phase
\* the gate stays in.
LEMMA NextChapterNeedsChapterDone ==
  ASSUME TypeOK, [Next]_vars, NextChapter
  PROVE  ChapterDone
<1> USE DEF Hist
<1>0. hist \in Hist
  BY DEF TypeOK
<1>1. CASE ToolCall
  <2> SUFFICES hist.done \subseteq hist'.done
    BY DEF NextChapter
  <2> QED
    BY <1>0, <1>1, ZenonT(30) DEF ToolCall, ToolBlocked, CallPlain, CallChapterList, CallCheck,
                      CallSubAgent, CallFails, Executed
<1>2. CASE \E s \in Skills : ReadSkill(s)
  BY <1>0, <1>2 DEF ReadSkill, Executed, NextChapter
<1>3. CASE \E target \in Phases : SetPhase(target)
  BY <1>3 DEF SetPhase, Enter, Refused, NextChapter
<1>4. CASE SetPhaseStay
  BY <1>4 DEF SetPhaseStay, NextChapter
<1>5. CASE AutoAdvance
  BY <1>5 DEF AutoAdvance, ShouldAutoAdvance, Enter, Refused, NextChapter
<1>6. CASE \E batchIntent, begun \in BOOLEAN : StartRun(batchIntent, begun)
  BY <1>6 DEF StartRun, NextChapter
<1>7. CASE EndRun \/ Crash
  BY <1>7 DEF EndRun, Crash, NoGate, NextChapter
<1>8. CASE \E m \in Modes : SetPhaseMode(m)
  BY <1>8 DEF SetPhaseMode, gate, NextChapter
<1>9. CASE UNCHANGED vars
  BY <1>9 DEF vars, gate, NextChapter
<1> QED
  BY <1>1, <1>2, <1>3, <1>4, <1>5, <1>6, <1>7, <1>8, <1>9 DEF Next

\* For every configuration: the next batch chapter is declared only when this
\* one's state is settled and, where the phase allows the check, checked.
THEOREM ChapterSettledHolds == Spec => ChapterSettled
<1> DEFINE Settled == /\ MiniMaintain \subseteq hist.done
                      /\ "check_story_consistency" \in Cfg.tools
                           => "check_story_consistency" \in hist.done
<1>1. GateInv /\ [Next]_vars => [NextChapter => Settled]_vars
  <2> SUFFICES ASSUME GateInv, [Next]_vars, NextChapter
               PROVE  Settled
    OBVIOUS
  <2>1. ChapterDone
    BY NextChapterNeedsChapterDone DEF GateInv
  <2> QED
    BY <2>1 DEF ChapterDone, GateInv, Backed
<1>2. GateInv /\ [Next]_vars
        => [NextChapter =>
             /\ MiniMaintain \subseteq hist.done
             /\ "check_story_consistency" \in Cfg.tools
                  => "check_story_consistency" \in hist.done]_vars
  BY <1>1
<1> QED
  BY <1>2, GateSound, PTL DEF Spec, ChapterSettled

-----------------------------------------------------------------------------
(* The jumps. *)

\* What the shipped configurations have in common: the first phase is the one a
\* session of a novel already begun starts in, and no phase leads on to it.
ShippedShape ==
  /\ First = "prepare"
  /\ \A m \in Modes, p \in Phases : Config[m][p].next # First

\* The phases the gate lets a Run go back to, and those the session row will let a
\* later Run go back to, are phases of this round; a row that says done is not
\* gone back from.
VisitedBacked ==
  /\ visited \subseteq hist.been
  /\ saved.phase # "done" => saved.visited \subseteq saved.hist.been

\* The phases an empty row lets a Run go back to.
LEMMA EmptySaveVisited ==
  ASSUME ShippedShape, NEW p \in {"", "prepare", First}
  PROVE  EmptySave(p).visited \subseteq EmptySave(p).hist.been
BY DEF ShippedShape, EmptySave, FreshHist

\* The tools and the skills leave the phases of the round alone.
LEMMA ToolCallVisited ==
  ASSUME TypeOK, ToolCall \/ \E s \in Skills : ReadSkill(s)
  PROVE  visited' = visited /\ saved' = saved /\ hist'.been = hist.been
<1>0. hist \in Hist
  BY DEF TypeOK
<1>1. \A t, success : Executed(t, success).been = hist.been
  BY <1>0 DEF Executed, Hist
<1>2. visited' = visited /\ saved' = saved
  BY DEF ToolCall, ToolBlocked, CallPlain, CallChapterList, CallCheck, CallSubAgent, CallFails,
         ReadSkill, Executes
<1>3. hist'.been = hist.been
  <2>1. \A t, success, h : h = [Executed(t, success) EXCEPT !.counted = h.counted]
                           => h.been = hist.been
    BY <1>0, <1>1 DEF Executed, Hist
  <2> QED
    BY <1>0, <1>1 DEF ToolCall, ToolBlocked, CallPlain, CallChapterList, CallCheck,
       CallSubAgent, CallFails, ReadSkill, Executed, Hist
<1> QED
  BY <1>2, <1>3

LEMMA EnterVisited ==
  ASSUME ShippedShape, TypeOK, VisitedBacked,
         NEW target \in Phases, NEW rd, Enter(target, rd)
  PROVE  VisitedBacked'
<1>1. Cfg.next # First
  BY DEF ShippedShape, Cfg, TypeOK
<1>2. hist'.been = hist.been \cup {target}
  BY <1>1 DEF Enter, EnterHist, TypeOK, Hist
<1>3. visited' \subseteq visited \cup {target} /\ saved' = saved
  BY DEF Enter
<1> QED
  BY <1>2, <1>3 DEF VisitedBacked

LEMMA StillOpenVisited ==
  ASSUME TypeOK, NEW s \in SavedState
  PROVE  /\ StillOpen(s).visited = s.visited
         /\ StillOpen(s).hist.been = s.hist.been
<1>1. saved.hist \in Hist /\ s.hist \in Hist
  BY DEF TypeOK, SavedState
<1> QED
  BY <1>1 DEF StillOpen, SavedState, Hist

LEMMA LoadedVisited ==
  ASSUME ShippedShape, TypeOK, VisitedBacked, NEW begun \in BOOLEAN
  PROVE  /\ Row(begun).phase # "done" => Row(begun).visited \subseteq Row(begun).hist.been
         /\ Loaded(begun).visited \subseteq Loaded(begun).hist.been
<1> DEFINE Reset == [EmptySave("prepare") EXCEPT !.visited = {"prepare"}]
<1>0. /\ EmptySave("prepare") \in SavedState /\ EmptySave(First) \in SavedState
      /\ Reset \in SavedState
      /\ Reset.visited \subseteq Reset.hist.been
  BY EmptySaveType, PhasesFacts DEF EmptySave, SavedState, FreshHist
<1>1. Row(begun).phase # "done" => Row(begun).visited \subseteq Row(begun).hist.been
  BY <1>0, EmptySaveVisited, StillOpenVisited DEF Row, VisitedBacked
<1> HIDE DEF Reset
<1>2. CASE Row(begun).phase = "done"
  <2>1. Loaded(begun) = StillOpen(Reset)
    BY <1>2 DEF Loaded, Reset
  <2> QED
    BY <1>0, <1>1, <2>1, StillOpenVisited
<1>3. CASE Row(begun).phase # "done"
  <2>1. Loaded(begun) \in {StillOpen(EmptySave(First)), Row(begun)}
    BY <1>3 DEF Loaded
  <2>2. /\ StillOpen(EmptySave(First)).visited = EmptySave(First).visited
        /\ StillOpen(EmptySave(First)).hist.been = EmptySave(First).hist.been
    BY <1>0, StillOpenVisited
  <2>3. EmptySave(First).visited \subseteq EmptySave(First).hist.been
    BY EmptySaveVisited
  <2> QED
    BY <1>1, <1>3, <2>1, <2>2, <2>3
<1> QED
  BY <1>2, <1>3

LEMMA NextVisited ==
  ASSUME ShippedShape, TypeOK, VisitedBacked, [Next]_vars
  PROVE  VisitedBacked'
<1>1. CASE ToolCall \/ \E s \in Skills : ReadSkill(s)
  BY <1>1, ToolCallVisited DEF VisitedBacked
<1>2. ASSUME NEW target \in Phases, SetPhase(target) PROVE VisitedBacked'
  <2>1. PICK rd : Enter(target, rd) \/ Refused(target, rd)
    BY <1>2 DEF SetPhase
  <2>2. Refused(target, rd) => VisitedBacked'
    BY DEF Refused, VisitedBacked
  <2> QED
    BY <2>1, <2>2, EnterVisited
<1>3. CASE SetPhaseStay
  <2>1. visited' = visited /\ saved' = saved /\ hist'.been = hist.been
    BY <1>3 DEF SetPhaseStay, TypeOK, Hist
  <2> QED
    BY <2>1 DEF VisitedBacked
<1>4. CASE AutoAdvance
  <2>1. Cfg.next \in Phases
    BY <1>4, ConfigType DEF AutoAdvance, ShouldAutoAdvance, Cfg, PhaseConfig, TypeOK
  <2>2. Refused(Cfg.next, reads) => VisitedBacked'
    BY DEF Refused, VisitedBacked
  <2> QED
    BY <1>4, <2>1, <2>2, EnterVisited DEF AutoAdvance
<1>5. ASSUME NEW batchIntent \in BOOLEAN, NEW begun \in BOOLEAN,
             StartRun(batchIntent, begun)
      PROVE  VisitedBacked'
  BY <1>5, LoadedVisited DEF StartRun, VisitedBacked
<1>6. CASE EndRun
  <2>1. SaveState.phase # "done" => SaveState.visited \subseteq SaveState.hist.been
    BY DEF SaveState, EmptySave, HistToSave, VisitedBacked, TypeOK, Hist
  <2> QED
    BY <1>6, <2>1 DEF EndRun, NoGate, FreshHist, VisitedBacked
<1>7. CASE Crash
  BY <1>7, CrashRow DEF Crash, NoGate, FreshHist, VisitedBacked
<1>8. ASSUME NEW m \in Modes, SetPhaseMode(m) PROVE VisitedBacked'
  BY <1>8 DEF SetPhaseMode, gate, VisitedBacked
<1>9. CASE UNCHANGED vars
  BY <1>9 DEF vars, gate, VisitedBacked
<1> QED
  BY <1>1, <1>2, <1>3, <1>4, <1>5, <1>6, <1>7, <1>8, <1>9 DEF Next

\* Whatever the phases allow and require, in a gate of the shipped shape a jump
\* stays in the round.  Where a phase leads on to the first one it need not: the
\* visited phases are forgotten on the wrong move (SetPhase, wasVisited).
THEOREM JumpsStayInRoundHolds ==
  ASSUME ShippedShape
  PROVE  Spec => JumpsStayInRound
<1>1. Init => VisitedBacked
  <2>1. EmptySave("").visited \subseteq EmptySave("").hist.been
    BY EmptySaveVisited
  <2>2. FreshHist(First).been = {First}
    BY DEF FreshHist
  <2> QED
    BY <2>1, <2>2 DEF Init, VisitedBacked
<1>2. TypeOK /\ VisitedBacked /\ [Next]_vars => VisitedBacked'
  BY NextVisited
<1>3. TypeOK /\ VisitedBacked /\ [Next]_vars
        => [Leaving => \/ Cfg.next \in {"", phase'}
                       \/ phase' \in hist.been
                       \/ mode = "batch" /\ Cfg.loop /\ phase' \in Prev(phase)]_vars
  <2> SUFFICES ASSUME TypeOK, VisitedBacked, [Next]_vars, Leaving
               PROVE  \/ Cfg.next \in {"", phase'}
                      \/ phase' \in hist.been
                      \/ mode = "batch" /\ Cfg.loop /\ phase' \in Prev(phase)
    OBVIOUS
  <2>1. TargetAllowed(phase')
    BY LeavingNeedsCanLeave DEF CanLeave
  <2> QED
    BY <2>1 DEF TargetAllowed, VisitedBacked
<1> QED
  BY <1>1, <1>2, <1>3, TypeCorrect, PTL DEF Spec, JumpsStayInRound

-----------------------------------------------------------------------------
(* The operations on one session.                                          *)

\* A closed channel belongs to an operation that has registered one, and that
\* will not register another.
ClosedBegun == \A o \in closed : Open(o) \/ pc[o] = "ended"

\* An operation that began alone, and has not been joined, is alone; and what
\* the manager holds is its own.
SoloAlone ==
  \A o \in past.solo :
    /\ pc[o] # "idle"
    /\ o \in Active => Active = {o}
    /\ Held(o) => cancels = o \/ o \in cancelled
    /\ Open(o) => done = o

\* Only a chat in its loop is about to save the row.
SnapLooping == \A o \in snap : pc[o] = "looping"

\* The title is asked for by the chat that created the session, once, when it
\* begins its turn.
TitleOnce ==
  /\ row = "none" => creator = NoOp /\ title = "off"
  /\ creator # NoOp /\ pc[creator] \in {"idle", "checked", "loaded", "cleared",
                                       "registered", "open"} => title = "off"

\* The stages of a deletion that meets nothing unusual.
CleanStages ==
  past.clean =>
    /\ title = "settled"
    /\ deleter # "off"
    /\ deleter # "returned" => \A o \in Active : Open(o) /\ o \in past.solo
    /\ deleter = "waiting" => \A o \in Active : waitFor = o
    /\ deleter = "go" => Active = {}
    /\ deleter = "returned" => /\ row = "deleted" /\ rows = {}
                               /\ \A o \in Active : pc[o] = "checked"

Registrations == OwnedRegistrations /\ NoDoubleClose /\ ClosedBegun

RowSavers == SnapLooping /\ TitleOnce

\* The inductive invariant.
TurnsInv == TurnsTypeOK /\ Registrations /\ SoloAlone /\ RowSavers /\ CleanStages

-----------------------------------------------------------------------------
(* One step of the specification. *)

\* Every step keeps the types.
LEMMA TurnsTypeStep ==
  ASSUME TurnsTypeOK, TurnsNext
  PROVE  TurnsTypeOK'
<1> USE OpsAssumption DEF TurnsTypeOK, Goto, manager, db, naming, deletion, Ops,
       Stages, Past
<1>1. ASSUME NEW o \in Chats, ChatLoad(o) PROVE TurnsTypeOK'
  BY <1>1 DEF ChatLoad, Begin
<1>2. ASSUME NEW o \in Chats, ChatCancelsPrevious(o) PROVE TurnsTypeOK'
  BY <1>2 DEF ChatCancelsPrevious, Cancel
<1>3. ASSUME NEW o \in Ops, CallRegister(o) PROVE TurnsTypeOK'
  BY <1>3 DEF CallRegister, Register
<1>4. ASSUME NEW o \in Ops, CallRegisterShutdown(o) PROVE TurnsTypeOK'
  BY <1>4 DEF CallRegisterShutdown, RegisterShutdown
<1>5. ASSUME NEW o \in Chats, BeginTurn(o) PROVE TurnsTypeOK'
  BY <1>5 DEF BeginTurn
<1>6. ASSUME NEW o \in Chats, CommitUserChanges(o) PROVE TurnsTypeOK'
  BY <1>6 DEF CommitUserChanges, MayWrite
<1>7. ASSUME NEW o \in Chats, StoreMessages(o) PROVE TurnsTypeOK'
  BY <1>7 DEF StoreMessages
<1>8. ASSUME NEW o \in Chats, AppendRow(o) PROVE TurnsTypeOK'
  BY <1>8 DEF AppendRow
<1>9. ASSUME NEW o \in Chats, ReadUsage(o) PROVE TurnsTypeOK'
  BY <1>9 DEF ReadUsage
<1>10. ASSUME NEW o \in Chats, SaveUsage(o) PROVE TurnsTypeOK'
  BY <1>10 DEF SaveUsage
<1>11. ASSUME NEW o \in Chats, EndTurn(o) PROVE TurnsTypeOK'
  BY <1>11 DEF EndTurn, MayWrite
<1>12. ASSUME NEW o \in Chats, CommitAIChanges(o) PROVE TurnsTypeOK'
  BY <1>12 DEF CommitAIChanges, MayWrite
<1>13. ASSUME NEW o \in Ops, CallUnregister(o) PROVE TurnsTypeOK'
  BY <1>13 DEF CallUnregister, Unregister
<1>14. ASSUME NEW o \in Compressions, CheckIdle(o) PROVE TurnsTypeOK'
  BY <1>14 DEF CheckIdle, Begin
<1>15. ASSUME NEW o \in Compressions, CompressLoad(o) PROVE TurnsTypeOK'
  BY <1>15 DEF CompressLoad
<1>16. ASSUME NEW o \in Compressions, Persist(o) PROVE TurnsTypeOK'
  BY <1>16 DEF Persist
<1>17. CASE ReadTitle
  BY <1>17 DEF ReadTitle
<1>18. CASE SaveTitle
  BY <1>18 DEF SaveTitle
<1>19. CASE CancelChat
  BY <1>19 DEF CancelChat, Cancel
<1>20. CASE DeleteCancels
  BY <1>20 DEF DeleteCancels, Cancel
<1>21. CASE DeleteLooksUp
  BY <1>21 DEF DeleteLooksUp
<1>22. CASE DeleteHears
  BY <1>22 DEF DeleteHears
<1>23. CASE DeleteTimesOut
  BY <1>23 DEF DeleteTimesOut
<1>24. CASE DeleteRows
  BY <1>24 DEF DeleteRows
<1> QED
  BY <1>1, <1>2, <1>3, <1>4, <1>5, <1>6, <1>7, <1>8, <1>9, <1>10, <1>11,
    <1>12, <1>13, <1>14, <1>15, <1>16, <1>17, <1>18, <1>19, <1>20, <1>21,
    <1>22, <1>23, <1>24
     DEF TurnsNext, ChatStep, CompressStep, Deleting

\* The deferred Unregister of whoever ends first leaves nothing of the others
\* behind that could be closed again.
LEMMA RegistrationStep ==
  ASSUME TurnsTypeOK, Registrations, TurnsNext
  PROVE  Registrations'
<1> USE OpsAssumption DEF TurnsTypeOK, Goto, manager, db, naming, deletion, Ops,
       Registrations, OwnedRegistrations, NoDoubleClose, ClosedBegun, Open,
       Held
<1>1. ASSUME NEW o \in Chats, ChatLoad(o) PROVE Registrations'
  BY <1>1 DEF ChatLoad, Begin
<1>2. ASSUME NEW o \in Chats, ChatCancelsPrevious(o) PROVE Registrations'
  BY <1>2 DEF ChatCancelsPrevious, Cancel
<1>3. ASSUME NEW o \in Ops, CallRegister(o) PROVE Registrations'
  BY <1>3 DEF CallRegister, Register
<1>4. ASSUME NEW o \in Ops, CallRegisterShutdown(o) PROVE Registrations'
  BY <1>4 DEF CallRegisterShutdown, RegisterShutdown
<1>5. ASSUME NEW o \in Chats, BeginTurn(o) PROVE Registrations'
  BY <1>5 DEF BeginTurn
<1>6. ASSUME NEW o \in Chats,
             \/ CommitUserChanges(o)
             \/ StoreMessages(o)
             \/ AppendRow(o)
             \/ ReadUsage(o)
             \/ SaveUsage(o)
             \/ EndTurn(o)
             \/ CommitAIChanges(o)
      PROVE  Registrations'
  BY <1>6 DEF CommitUserChanges, MayWrite, StoreMessages, AppendRow, ReadUsage,
     SaveUsage, EndTurn, CommitAIChanges
<1>7. ASSUME NEW o \in Ops, CallUnregister(o) PROVE Registrations'
  BY <1>7 DEF CallUnregister, Unregister
<1>8. ASSUME NEW o \in Compressions, CheckIdle(o) PROVE Registrations'
  BY <1>8 DEF CheckIdle, Begin
<1>9. ASSUME NEW o \in Compressions, CompressLoad(o) PROVE Registrations'
  BY <1>9 DEF CompressLoad
<1>10. ASSUME NEW o \in Compressions, Persist(o) PROVE Registrations'
  BY <1>10 DEF Persist
<1>11. CASE ReadTitle \/ SaveTitle
  BY <1>11 DEF ReadTitle, SaveTitle
<1>12. CASE CancelChat \/ DeleteCancels
  BY <1>12 DEF CancelChat, Cancel, DeleteCancels
<1>13. CASE DeleteLooksUp \/ DeleteHears \/ DeleteTimesOut \/ DeleteRows
  BY <1>13 DEF DeleteLooksUp, DeleteHears, DeleteTimesOut, DeleteRows
<1> QED
  BY <1>1, <1>2, <1>3, <1>4, <1>5, <1>6, <1>7, <1>8, <1>9, <1>10, <1>11,
    <1>12, <1>13
     DEF TurnsNext, ChatStep, CompressStep, Deleting

\* Nobody takes the registration of an operation that is alone.
LEMMA SoloStep ==
  ASSUME TurnsTypeOK, Registrations, SoloAlone, TurnsNext
  PROVE  SoloAlone'
<1> USE OpsAssumption DEF TurnsTypeOK, Goto, manager, db, naming, deletion, Ops,
       Registrations, OwnedRegistrations, SoloAlone, Open, Held, Active, Past
<1>1. ASSUME NEW o \in Chats, ChatLoad(o) PROVE SoloAlone'
  BY <1>1 DEF ChatLoad, Begin
<1>2. ASSUME NEW o \in Chats, ChatCancelsPrevious(o) PROVE SoloAlone'
  BY <1>2 DEF ChatCancelsPrevious, Cancel
<1>3. ASSUME NEW o \in Ops, CallRegister(o) PROVE SoloAlone'
  BY <1>3 DEF CallRegister, Register
<1>4. ASSUME NEW o \in Ops, CallRegisterShutdown(o) PROVE SoloAlone'
  BY <1>4 DEF CallRegisterShutdown, RegisterShutdown
<1>5. ASSUME NEW o \in Chats, BeginTurn(o) PROVE SoloAlone'
  BY <1>5 DEF BeginTurn
<1>6. ASSUME NEW o \in Chats,
             \/ CommitUserChanges(o)
             \/ StoreMessages(o)
             \/ AppendRow(o)
             \/ ReadUsage(o)
             \/ SaveUsage(o)
             \/ EndTurn(o)
             \/ CommitAIChanges(o)
      PROVE  SoloAlone'
  BY <1>6 DEF CommitUserChanges, MayWrite, StoreMessages, AppendRow, ReadUsage,
     SaveUsage, EndTurn, CommitAIChanges
<1>7. ASSUME NEW o \in Ops, CallUnregister(o) PROVE SoloAlone'
  BY <1>7 DEF CallUnregister, Unregister
<1>8. ASSUME NEW o \in Compressions, CheckIdle(o) PROVE SoloAlone'
  BY <1>8 DEF CheckIdle, Begin
<1>9. ASSUME NEW o \in Compressions, CompressLoad(o) PROVE SoloAlone'
  BY <1>9 DEF CompressLoad
<1>10. ASSUME NEW o \in Compressions, Persist(o) PROVE SoloAlone'
  BY <1>10 DEF Persist
<1>11. CASE ReadTitle \/ SaveTitle
  BY <1>11 DEF ReadTitle, SaveTitle
<1>12. CASE CancelChat \/ DeleteCancels
  BY <1>12 DEF CancelChat, Cancel, DeleteCancels
<1>13. CASE DeleteLooksUp \/ DeleteHears \/ DeleteTimesOut \/ DeleteRows
  BY <1>13 DEF DeleteLooksUp, DeleteHears, DeleteTimesOut, DeleteRows
<1> QED
  BY <1>1, <1>2, <1>3, <1>4, <1>5, <1>6, <1>7, <1>8, <1>9, <1>10, <1>11,
    <1>12, <1>13
     DEF TurnsNext, ChatStep, CompressStep, Deleting

\* Who is going to save the row whole.
LEMMA RowStep ==
  ASSUME TurnsTypeOK, RowSavers, TurnsNext
  PROVE  RowSavers'
<1> USE OpsAssumption DEF TurnsTypeOK, Goto, manager, db, naming, deletion, Ops,
       RowSavers, SnapLooping, TitleOnce
<1>1. ASSUME NEW o \in Chats, ChatLoad(o) PROVE RowSavers'
  BY <1>1 DEF ChatLoad, Begin
<1>2. ASSUME NEW o \in Chats,
             \/ ChatCancelsPrevious(o)
             \/ CommitUserChanges(o)
             \/ CommitAIChanges(o)
      PROVE  RowSavers'
  BY <1>2 DEF ChatCancelsPrevious, Cancel, CommitUserChanges, MayWrite,
     CommitAIChanges
<1>3. ASSUME NEW o \in Ops,
             \/ CallRegister(o)
             \/ CallRegisterShutdown(o)
             \/ CallUnregister(o)
      PROVE  RowSavers'
  BY <1>3 DEF CallRegister, Register, CallRegisterShutdown, RegisterShutdown,
     CallUnregister, Unregister
<1>4. ASSUME NEW o \in Chats, BeginTurn(o) PROVE RowSavers'
  BY <1>4 DEF BeginTurn
<1>5. ASSUME NEW o \in Chats, StoreMessages(o) PROVE RowSavers'
  BY <1>5 DEF StoreMessages
<1>6. ASSUME NEW o \in Chats, AppendRow(o) PROVE RowSavers'
  BY <1>6 DEF AppendRow
<1>7. ASSUME NEW o \in Chats, ReadUsage(o) PROVE RowSavers'
  BY <1>7 DEF ReadUsage
<1>8. ASSUME NEW o \in Chats, SaveUsage(o) PROVE RowSavers'
  BY <1>8 DEF SaveUsage
<1>9. ASSUME NEW o \in Chats, EndTurn(o) PROVE RowSavers'
  BY <1>9 DEF EndTurn, MayWrite
<1>10. ASSUME NEW o \in Compressions,
             \/ CheckIdle(o)
             \/ CompressLoad(o)
             \/ Persist(o)
      PROVE  RowSavers'
  BY <1>10 DEF CheckIdle, Begin, CompressLoad, Persist
<1>11. CASE ReadTitle
  BY <1>11 DEF ReadTitle
<1>12. CASE SaveTitle
  BY <1>12 DEF SaveTitle
<1>13. CASE
      CancelChat \/ DeleteCancels \/ DeleteLooksUp \/ DeleteHears \/ DeleteTimesOut
  BY <1>13 DEF CancelChat, Cancel, DeleteCancels, DeleteLooksUp, DeleteHears,
     DeleteTimesOut
<1>14. CASE DeleteRows
  BY <1>14 DEF DeleteRows
<1> QED
  BY <1>1, <1>2, <1>3, <1>4, <1>5, <1>6, <1>7, <1>8, <1>9, <1>10, <1>11,
    <1>12, <1>13, <1>14
     DEF TurnsNext, ChatStep, CompressStep, Deleting

\* While nothing unusual happens the deletion goes through its stages.
LEMMA CleanStep ==
  ASSUME TurnsInv, TurnsNext
  PROVE  CleanStages'
<1> USE OpsAssumption DEF TurnsTypeOK, Goto, manager, db, naming, deletion, Ops,
       TurnsInv, Registrations, NoDoubleClose, SoloAlone, RowSavers,
       SnapLooping, TitleOnce, CleanStages, Open, Held, Active, Past
<1>1. ASSUME NEW o \in Chats, ChatLoad(o) PROVE CleanStages'
  BY <1>1 DEF ChatLoad, Begin
<1>2. ASSUME NEW o \in Chats, ChatCancelsPrevious(o) PROVE CleanStages'
  BY <1>2 DEF ChatCancelsPrevious, Cancel
<1>3. ASSUME NEW o \in Ops, CallRegister(o) PROVE CleanStages'
  BY <1>3 DEF CallRegister, Register
<1>4. ASSUME NEW o \in Ops, CallRegisterShutdown(o) PROVE CleanStages'
  BY <1>4 DEF CallRegisterShutdown, RegisterShutdown
<1>5. ASSUME NEW o \in Chats, BeginTurn(o) PROVE CleanStages'
  BY <1>5 DEF BeginTurn
<1>6. ASSUME NEW o \in Chats,
             \/ CommitUserChanges(o)
             \/ StoreMessages(o)
             \/ EndTurn(o)
             \/ CommitAIChanges(o)
      PROVE  CleanStages'
  BY <1>6 DEF CommitUserChanges, MayWrite, StoreMessages, EndTurn,
     CommitAIChanges
<1>7. ASSUME NEW o \in Chats, AppendRow(o) \/ ReadUsage(o) \/ SaveUsage(o)
      PROVE  CleanStages'
  BY <1>7 DEF AppendRow, ReadUsage, SaveUsage
<1>8. ASSUME NEW o \in Ops, CallUnregister(o) PROVE CleanStages'
  BY <1>8 DEF CallUnregister, Unregister
<1>9. ASSUME NEW o \in Compressions, CheckIdle(o) PROVE CleanStages'
  BY <1>9 DEF CheckIdle, Begin
<1>10. ASSUME NEW o \in Compressions, CompressLoad(o) PROVE CleanStages'
  BY <1>10 DEF CompressLoad
<1>11. ASSUME NEW o \in Compressions, Persist(o) PROVE CleanStages'
  BY <1>11 DEF Persist
<1>12. CASE ReadTitle \/ SaveTitle
  BY <1>12 DEF ReadTitle, SaveTitle
<1>13. CASE CancelChat
  BY <1>13 DEF CancelChat, Cancel
<1>14. CASE DeleteCancels
  BY <1>14 DEF DeleteCancels, Cancel
<1>15. CASE DeleteLooksUp
  BY <1>15 DEF DeleteLooksUp
<1>16. CASE DeleteHears
  BY <1>16 DEF DeleteHears
<1>17. CASE DeleteTimesOut
  BY <1>17 DEF DeleteTimesOut
<1>18. CASE DeleteRows
  BY <1>18 DEF DeleteRows
<1> QED
  BY <1>1, <1>2, <1>3, <1>4, <1>5, <1>6, <1>7, <1>8, <1>9, <1>10, <1>11,
    <1>12, <1>13, <1>14, <1>15, <1>16, <1>17, <1>18
     DEF TurnsNext, ChatStep, CompressStep, Deleting

-----------------------------------------------------------------------------
(* The invariant and what follows from it. *)

LEMMA TurnsInitInv == TurnsInit => TurnsInv
BY OpsAssumption
   DEF TurnsInit, TurnsInv, TurnsTypeOK, Stages, Past, Ops, Active, Registrations,
       OwnedRegistrations, NoDoubleClose, ClosedBegun, SoloAlone, RowSavers,
       SnapLooping, TitleOnce, CleanStages

LEMMA TurnsStutterInv == TurnsInv /\ UNCHANGED turnsVars => TurnsInv'
<1> SUFFICES ASSUME TurnsInv, UNCHANGED turnsVars PROVE TurnsInv'
  OBVIOUS
<1> USE DEF TurnsInv, turnsVars, manager, db, naming, deletion
<1>1. TurnsTypeOK'
  BY DEF TurnsTypeOK
<1>2. Registrations'
  BY DEF Registrations, OwnedRegistrations, NoDoubleClose, ClosedBegun, Open, Held
<1>3. SoloAlone' /\ CleanStages'
  BY DEF SoloAlone, CleanStages, Active, Open, Held
<1>4. RowSavers'
  BY DEF RowSavers, SnapLooping, TitleOnce
<1> QED
  BY <1>1, <1>2, <1>3, <1>4

\* Whatever operations meet on a session, in any number and order, what the
\* manager holds, what runs alone and how far a deletion has come stay in step.
THEOREM TurnsSound == TurnsSpec => []TurnsInv
<1>1. TurnsInv /\ TurnsNext => TurnsInv'
  BY TurnsTypeStep, RegistrationStep, SoloStep, RowStep, CleanStep DEF TurnsInv
<1>2. TurnsInv /\ [TurnsNext]_turnsVars => TurnsInv'
  BY <1>1, TurnsStutterInv
<1> QED
  BY TurnsInitInv, <1>2, PTL DEF TurnsSpec

\* Every variable keeps its type, and DeleteSession never waits on a channel
\* that is not there (WaitForStop).
THEOREM TurnsTypeCorrect == TurnsSpec => []TurnsTypeOK
<1>1. TurnsInv => TurnsTypeOK
  BY DEF TurnsInv
<1> QED
  BY <1>1, TurnsSound, PTL

\* Unregister never closes a channel twice (CancelManager.Unregister).
THEOREM NoDoubleCloseHolds == TurnsSpec => []NoDoubleClose
<1>1. TurnsInv => NoDoubleClose
  BY DEF TurnsInv, Registrations
<1> QED
  BY <1>1, TurnsSound, PTL

\* What is registered belongs to an operation under way (the deferred
\* UnregisterCancel).
THEOREM OwnedRegistrationsHolds == TurnsSpec => []OwnedRegistrations
<1>1. TurnsInv => OwnedRegistrations
  BY DEF TurnsInv, Registrations
<1> QED
  BY <1>1, TurnsSound, PTL

\* An operation that has the session to itself can be stopped (CancelChat,
\* DeleteSession).
THEOREM SoloStoppableHolds == TurnsSpec => []SoloStoppable
<1>1. TurnsInv => SoloStoppable
  BY DEF TurnsInv, SoloAlone, SoloStoppable
<1> QED
  BY <1>1, TurnsSound, PTL

\* A deletion that meets nothing unusual is final (DeleteSession).
THEOREM CleanDeleteHolds == TurnsSpec => []CleanDelete
<1>1. TurnsInv => CleanDelete
  BY DEF TurnsInv, CleanStages, CleanDelete
<1> QED
  BY <1>1, TurnsSound, PTL
=============================================================================
