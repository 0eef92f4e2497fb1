----------------------------- MODULE PhaseGate -----------------------------
(***************************************************************************)
(* The phase gate of the agent (src/internal/agent/phase_gate.go) as the   *)
(* agent loop drives it (src/internal/agent/agent.go) for ONE session.     *)
(*                                                                         *)
(* A Run of the agent owns one gate: it is created from the configuration, *)
(* loaded from the session row, consulted before every tool call, told of  *)
(* every result, moved by set_phase or by the automatic advance, and saved *)
(* to the session row when the Run ends.  A killed process saves nothing.  *)
(*                                                                         *)
(* `hist' and `saved.hist' are history variables: what really happened in  *)
(* the current phase, which the gate's own bookkeeping has to agree with.  *)
(***************************************************************************)
EXTENDS Naturals, Sequences, FiniteSets

CONSTANTS
  PhaseOrder,    \* the configured phases, in configuration order
  Tools,         \* tool names other than set_phase, whose own count no require asks
  Skills,        \* skill names
  Files,         \* classes of files the edit tool can be pointed at
  Errors,        \* [ERROR] lines check_story_consistency can print
  CheckTypes,    \* the checks the tool runs when check_types is left out
  FullTypes,     \* fullConsistencyTypes: what the gate takes for "all"
  TypeOf,        \* the check that prints an error
  Mutating,      \* tools isMutatingTool answers TRUE for
  MiniMaintain,  \* miniMaintainTools
  Config         \* Config[mode][phase]: one parsed phase-gate-config block

Phases == {PhaseOrder[i] : i \in DOMAIN PhaseOrder}
First  == PhaseOrder[1]
Modes  == {"single", "batch"}

PhaseConfig ==
  [tools   : SUBSET Tools,           \* tools: and the categories it expands to
   require : SUBSET Tools,
   skills  : SUBSET Skills,          \* auto_skill_injection without wildcard
   globs   : SUBSET (SUBSET Skills), \* the skills each wildcard entry matches
   next    : Phases \cup {""},
   loop    : BOOLEAN,
   paths   : SUBSET Files]

ASSUME ConfigAssumption ==
  /\ PhaseOrder \in Seq(STRING) /\ PhaseOrder # <<>>
  /\ {"prepare", "write", "done"} \subseteq Phases
  /\ "" \notin Phases
  /\ "set_phase" \notin Tools
  /\ {"edit", "get_chapter_list", "check_story_consistency", "run_subagent",
      "auto_skill_injection"} \subseteq Tools
  /\ Files # {}
  /\ FullTypes \subseteq CheckTypes
  /\ TypeOf \in [Errors -> CheckTypes]
  /\ Mutating \subseteq Tools
  /\ {"edit", "run_subagent"} \subseteq Mutating
  /\ {"get_chapter_list", "check_story_consistency", "auto_skill_injection"}
       \cap Mutating = {}
  /\ MiniMaintain \subseteq Tools
  /\ Config \in [Modes -> [Phases -> PhaseConfig]]

VARIABLES
  running,    \* a Run of the session is in progress
  mode,       \* g.mode
  phase,      \* g.currentPhase
  ok,         \* tools with g.successfulTools[t] > 0
  rejected,   \* the report in g.lastToolResults["run_subagent"] fails the chapter
  errs,       \* g.consistencyErrors
  counted,    \* g.countedOK is set and true
  visited,    \* g.visited
  reads,      \* g.readsByPhase
  roundDone,  \* g.roundCompleted
  saved,      \* sessions.current_phase and sessions.called_tools
  savedMode,  \* sessions.phase_mode; an empty one counts as single
  hist        \* history: what happened in the current phase and round

gate == <<mode, phase, ok, rejected, errs, counted, visited, reads, roundDone>>
vars == <<running, gate, saved, savedMode, hist>>

NoReads   == [p \in Phases |-> {}]
Reads     == [Phases -> SUBSET Skills]

\* What the history variable records: the tools that succeeded since the phase
\* was entered (in batch writing: since the chapter was begun), the errors a
\* check reported and no later check covering them has found gone, those of them
\* only a killed Run knew, whether this Run found the chapter's length in range, and
\* the phases entered since the round began.
Hist ==
  [done : SUBSET Tools, open : SUBSET Errors, lost : SUBSET Errors,
   counted : BOOLEAN, been : SUBSET Phases]

FreshHist(p) ==
  [done |-> {}, open |-> {}, lost |-> {}, counted |-> FALSE, been |-> {p}]

SavedState ==
  [phase : Phases \cup {""}, tools : SUBSET Tools,
   visited : SUBSET Phases, reads : Reads, errs : SUBSET Errors, hist : Hist]

EmptySave(p) ==
  [phase |-> p, tools |-> {}, visited |-> {First}, reads |-> NoReads,
   errs |-> {}, hist |-> FreshHist(IF p = "" THEN First ELSE p)]

TypeOK ==
  /\ running \in BOOLEAN
  /\ mode \in Modes
  /\ phase \in Phases
  /\ ok \subseteq Tools
  /\ rejected \in BOOLEAN
  /\ errs \subseteq Errors
  /\ counted \in BOOLEAN
  /\ visited \subseteq Phases
  /\ reads \in Reads
  /\ roundDone \in BOOLEAN
  /\ saved \in SavedState
  /\ savedMode \in Modes
  /\ hist \in Hist

-----------------------------------------------------------------------------
(* The gate's tests on the current phase.                                  *)

Cfg == Config[mode][phase]

\* prevPhaseName: the phase configured before p, if there is one.
Prev(p) == {PhaseOrder[i] : i \in {j \in DOMAIN PhaseOrder :
                                     j + 1 \in DOMAIN PhaseOrder /\ PhaseOrder[j + 1] = p}}

RequireMet == Cfg.require \subseteq ok

ResultGateMet == errs = {} /\ ~rejected

InjectionsMet(rd) ==
  /\ Cfg.skills \subseteq rd[phase]
  /\ \A g \in Cfg.globs : g \cap rd[phase] # {}

WordCountMet == phase = "write" => counted

\* Mutant: the batch loop may go anywhere, not only to the phase before.
TargetAllowedLoopAnywhere(target) ==
  \/ Cfg.next \in {"", target}
  \/ mode = "batch" /\ Cfg.loop
  \/ target \in visited

TargetAllowed(target) ==
  \/ Cfg.next = ""
  \/ target = Cfg.next
  \/ mode = "batch" /\ Cfg.loop /\ target \in Prev(phase)
  \/ target \in visited

\* The gate's own tools are never refused, and not asked for skills.
GateTools == {"get_phase_gate_config", "update_phase_gate_config"}

CheckToolAllowed(t, rd) ==
  \/ t \in GateTools
  \/ t \in Cfg.tools /\ (t \in Mutating => InjectionsMet(rd))

\* injectPhaseSkills: the phase's skills go into the context and count as read,
\* unless the store has none of them.  Wildcard entries are never marked.
Injected(rd, p) == {rd, [rd EXCEPT ![p] = @ \cup Config[mode][p].skills]}

-----------------------------------------------------------------------------
(* Tool calls: the gate's check, the execution, and what OnToolCall records. *)

\* The reads after the check of t: a mutating tool refused for want of skills
\* makes the loop inject them and ask again.
ReadsAtCheck(t) ==
  IF t \in (Cfg.tools \cap Mutating) \ GateTools /\ ~InjectionsMet(reads)
    THEN Injected(reads, phase) ELSE {reads}

\* CheckEditPath: the files t may be pointed at; only the edit tool is asked.
PathsAllowed(t) == IF t = "edit" THEN Cfg.paths ELSE Files

Executes(t) ==
  /\ running
  /\ reads' \in ReadsAtCheck(t)
  /\ CheckToolAllowed(t, reads')
  /\ UNCHANGED <<running, mode, phase, visited, roundDone, saved, savedMode>>

\* Tools whose result the loop or the gate looks into.
ResultTools == {"get_chapter_list", "check_story_consistency", "run_subagent",
                "auto_skill_injection"}

\* Mutant: require counts calls, not successes.
OnToolCallCountsAll(t, success) == ok' = ok \cup {t}

OnToolCall(t, success) ==
  ok' = IF success THEN ok \cup {t} ELSE ok

Executed(t, success) ==
  [hist EXCEPT !.done = IF success THEN @ \cup {t} ELSE @]

\* t is refused, whatever its file or for one of its files.
ToolBlocked(t) ==
  /\ running
  /\ reads' \in ReadsAtCheck(t)
  /\ ~(CheckToolAllowed(t, reads') /\ PathsAllowed(t) = Files)
  /\ UNCHANGED <<running, mode, phase, ok, rejected, errs, counted, visited,
                 roundDone, saved, savedMode, hist>>

CallPlain(t, success) ==
  /\ t \notin ResultTools
  /\ Executes(t)
  /\ PathsAllowed(t) # {}
  /\ OnToolCall(t, success)
  /\ hist' = Executed(t, success)
  /\ UNCHANGED <<rejected, errs, counted>>

\* get_chapter_list fails when the chapter is too short or too long; with no
\* chapter to look at its result carries no word_count_ok.
CallChapterList(wc) ==
  /\ Executes("get_chapter_list")
  /\ OnToolCall("get_chapter_list", wc # "short")
  /\ counted' = IF wc = "none" THEN counted ELSE wc = "ok"
  /\ hist' = [Executed("get_chapter_list", wc # "short") EXCEPT
                !.counted = IF wc = "none" THEN @ ELSE wc = "ok"]
  /\ UNCHANGED <<rejected, errs>>

\* Mutant: every check rebuilds the set.
RecordConsistencyCheckRebuilds(types, found) == errs' = found

\* recordConsistencyCheck: a full check rebuilds the set, a narrowed one adds.
RecordConsistencyCheck(types, found) ==
  errs' = IF FullTypes \subseteq types THEN found ELSE errs \cup found

CallCheck(types, found) ==
  /\ Executes("check_story_consistency")
  /\ OnToolCall("check_story_consistency", TRUE)
  /\ RecordConsistencyCheck(types, found)
  /\ hist' = [Executed("check_story_consistency", TRUE) EXCEPT
                !.open = {e \in @ : TypeOf[e] \notin types} \cup found,
                !.lost = {e \in @ : TypeOf[e] \notin types}]
  /\ UNCHANGED <<rejected, counted>>

\* run_subagent starts a review or a memory agent; the gate keeps the last
\* report that is not blank, whichever agent wrote it.  Only a review's report
\* has a verdict, and only the failing one counts.
CallSubAgent(agentType, report) ==
  /\ agentType = "memory" => report # "fail"
  /\ Executes("run_subagent")
  /\ OnToolCall("run_subagent", TRUE)
  /\ rejected' = IF report = "blank" THEN rejected ELSE report = "fail"
  /\ hist' = Executed("run_subagent", TRUE)
  /\ UNCHANGED <<errs, counted>>

\* One of these tools fails outright: only the count of attempts changes.
CallFails(t) ==
  /\ Executes(t)
  /\ OnToolCall(t, FALSE)
  /\ hist' = Executed(t, FALSE)
  /\ UNCHANGED <<rejected, errs, counted>>

\* auto_skill_injection called by the model: what it returned counts as read.
ReadSkill(s) ==
  /\ running
  /\ "auto_skill_injection" \in Cfg.tools
  /\ OnToolCall("auto_skill_injection", TRUE)
  /\ reads' = [reads EXCEPT ![phase] = @ \cup {s}]
  /\ hist' = Executed("auto_skill_injection", TRUE)
  /\ UNCHANGED <<running, mode, phase, rejected, errs, counted, visited,
                 roundDone, saved, savedMode>>

-----------------------------------------------------------------------------
(* Phase changes.                                                          *)

CanLeave(target, rd) ==
  /\ RequireMet
  /\ ResultGateMet
  /\ InjectionsMet(rd)
  /\ WordCountMet
  /\ TargetAllowed(target)

\* A round is complete when following next leads to a phase it has been in.
RoundWraps(target, seen) == Cfg.next = target /\ target \in seen

\* Mutant: the last chapter's word count is carried into write.
CountedOnEntryKept(target) == counted

CountedOnEntry(target) == target # "write" /\ counted

EnterHist(target) ==
  [hist EXCEPT !.done = {}, !.open = {}, !.lost = {}, !.counted = FALSE,
               !.been = IF target = First /\ Cfg.next = First THEN {First}
                                                             ELSE @ \cup {target}]

\* The tail of a successful SetPhase, and the injection the caller does after it.
Enter(target, rd) ==
  /\ phase' = target
  /\ ok' = {}
  /\ rejected' = FALSE
  /\ errs' = {}
  /\ counted' = CountedOnEntry(target)
  /\ visited' = IF RoundWraps(target, visited) THEN {target}
                                               ELSE visited \cup {target}
  /\ roundDone' = (roundDone \/ RoundWraps(target, visited))
  /\ reads' \in Injected(rd, target)
  /\ hist' = EnterHist(target)
  /\ UNCHANGED <<running, mode, saved, savedMode>>

\* A refused SetPhase has already forgotten the word count if it aims at write.
Refused(target, rd) ==
  /\ counted' = CountedOnEntry(target)
  /\ reads' = rd
  /\ UNCHANGED <<running, mode, phase, ok, rejected, errs, visited, roundDone,
                 saved, savedMode, hist>>

\* set_phase to another phase.  Refused with a warning that names the tool
\* auto_skill_injection, whether for skills not read or for that tool not
\* called, the loop injects the current phase's skills and tries once more.
ReadsAtMove ==
  IF \/ "auto_skill_injection" \in Cfg.require \ ok
     \/ RequireMet /\ ResultGateMet /\ ~InjectionsMet(reads)
    THEN Injected(reads, phase) ELSE {reads}

SetPhase(target) ==
  /\ running
  /\ target # phase
  /\ \E rd \in ReadsAtMove :
       \/ CanLeave(target, rd) /\ Enter(target, rd)
       \/ ~CanLeave(target, rd) /\ Refused(target, rd)

BatchChapter == mode = "batch" /\ phase = "write"

ChapterDone ==
  /\ MiniMaintain \subseteq ok
  /\ "check_story_consistency" \in Cfg.tools => "check_story_consistency" \in ok

\* set_phase to the phase the gate is in: in batch writing it declares the next
\* chapter, and the counts start again.
SetPhaseStay ==
  /\ running
  /\ BatchChapter => ChapterDone
  /\ ok' = IF BatchChapter THEN {} ELSE ok
  /\ counted' = (~BatchChapter /\ counted)
  /\ hist' = IF BatchChapter THEN [hist EXCEPT !.done = {}, !.counted = FALSE]
                             ELSE hist
  /\ UNCHANGED <<running, mode, phase, rejected, errs, visited, reads, roundDone,
                 saved, savedMode>>

ShouldAutoAdvance ==
  /\ ~(mode = "batch" /\ Cfg.loop)
  /\ Cfg.next \notin {"", phase}
  /\ RequireMet

\* The automatic advance at the end of a loop iteration: no second attempt.
AutoAdvance ==
  /\ running
  /\ ShouldAutoAdvance
  /\ \/ CanLeave(Cfg.next, reads) /\ Enter(Cfg.next, reads)
     \/ ~CanLeave(Cfg.next, reads) /\ Refused(Cfg.next, reads)

-----------------------------------------------------------------------------
(* The life of a Run.                                                      *)

\* The gate is a local variable of Run: between Runs there is none.
NoGate ==
  /\ running' = FALSE
  /\ mode' = "single" /\ phase' = First /\ ok' = {} /\ rejected' = FALSE
  /\ errs' = {} /\ counted' = FALSE /\ visited' = {First}
  /\ reads' = NoReads /\ roundDone' = FALSE /\ hist' = FreshHist(First)

\* What was reported stays reported, whatever the row makes of it.
StillOpen(s) ==
  [s EXCEPT !.hist.open = saved.hist.open, !.hist.lost = saved.hist.lost]

\* The row as chatImpl leaves it: a new session of a novel already begun starts
\* in prepare.
Row(begun) ==
  IF saved.phase = "" /\ begun THEN StillOpen(EmptySave("prepare")) ELSE saved

\* LoadState, and ResetTo prepare when the row says done.
Loaded(begun) ==
  CASE Row(begun).phase = "done" ->
         StillOpen([EmptySave("prepare") EXCEPT !.visited = {"prepare"}])
    [] Row(begun).phase = ""     -> StillOpen(EmptySave(First))
    [] OTHER                     -> Row(begun)

StartRun(batchIntent, begun) ==
  /\ ~running
  /\ running' = TRUE
  /\ mode' = IF batchIntent THEN "batch" ELSE savedMode
  /\ savedMode' = IF batchIntent THEN "batch" ELSE savedMode
  /\ saved' = Row(begun)
  /\ phase' = Loaded(begun).phase
  /\ ok' = Loaded(begun).tools
  /\ visited' = Loaded(begun).visited
  /\ reads' = Loaded(begun).reads
  /\ errs' = Loaded(begun).errs
  /\ hist' = Loaded(begun).hist
  /\ rejected' = FALSE /\ counted' = FALSE /\ roundDone' = FALSE

\* A word count is worth nothing in a later Run.
HistToSave == [hist EXCEPT !.counted = FALSE]

\* The deferred save; in phase done the recorded calls are dropped.
SaveState ==
  IF phase = "done" THEN EmptySave("done")
  ELSE [phase |-> phase, tools |-> ok, visited |-> visited, reads |-> reads,
        errs |-> errs, hist |-> HistToSave]

EndRun ==
  /\ running
  /\ saved' = SaveState
  /\ savedMode' = IF phase = "prepare" /\ roundDone THEN "single" ELSE mode
  /\ NoGate

\* The process is killed: the deferred save does not run.  The row stays as it
\* is; what the Run was told of errors happened all the same, and is lost where the
\* row does not say it.
Crash ==
  /\ running
  /\ saved' = [saved EXCEPT !.hist.open = @ \cup hist.open,
                            !.hist.lost = @ \cup (hist.open \ saved.errs)]
  /\ NoGate
  /\ UNCHANGED savedMode

\* The user switches the mode in the interface; a Run in progress keeps its own.
SetPhaseMode(m) ==
  /\ savedMode' = m
  /\ UNCHANGED <<running, gate, saved, hist>>

Init ==
  /\ running = FALSE
  /\ mode = "single" /\ phase = First /\ ok = {} /\ rejected = FALSE
  /\ errs = {} /\ counted = FALSE /\ visited = {First}
  /\ reads = NoReads /\ roundDone = FALSE /\ hist = FreshHist(First)
  /\ saved = EmptySave("")
  /\ savedMode = "single"

ToolCall ==
  \/ \E t \in Tools : ToolBlocked(t)
  \/ \E t \in Tools, success \in BOOLEAN : CallPlain(t, success)
  \/ \E wc \in {"none", "ok", "short"} : CallChapterList(wc)
  \/ \E types \in (SUBSET CheckTypes) \ {{}} :
       \E e \in SUBSET {x \in Errors : TypeOf[x] \in types} : CallCheck(types, e)
  \/ \E a \in {"review", "memory"}, r \in {"blank", "fail", "other"} :
       CallSubAgent(a, r)
  \/ \E t \in ResultTools : CallFails(t)

Next ==
  \/ ToolCall
  \/ \E s \in Skills : ReadSkill(s)
  \/ \E target \in Phases : SetPhase(target)
  \/ SetPhaseStay
  \/ AutoAdvance
  \/ \E batchIntent, begun \in BOOLEAN : StartRun(batchIntent, begun)
  \/ EndRun
  \/ Crash
  \/ \E m \in Modes : SetPhaseMode(m)

Spec == Init /\ [][Next]_vars

-----------------------------------------------------------------------------
(* Properties.                                                             *)

\* The gate of a Run moves from one phase to another.
Leaving == running /\ running' /\ phase' # phase

\* A batch writing Run declares the next chapter.
NextChapter == running /\ running' /\ phase' = phase /\ hist.done # {} /\ hist'.done = {}

\* A phase is left only when every tool it requires has succeeded since the
\* phase was entered (in batch writing: since the chapter was begun), across
\* interrupted and resumed Runs: phase_gate.go resets the counts on every move.
RequireDischarged == [][Leaving => Cfg.require \subseteq hist.done]_vars

\* An error the consistency check reported in this phase, of one of the types
\* the gate takes for a full check, keeps the gate in the phase until a check of
\* its type no longer reports it; narrowing check_types or resuming in a new
\* turn does not get around it (recordConsistencyCheck, LoadState).  An error only
\* a killed Run was told of is forgotten with it: the save is deferred to the
\* Run's end (agent.go:605), and the Run that resumes may leave.
ErrorsBlockExit ==
  [][Leaving => \A e \in hist.open : \/ TypeOf[e] \notin FullTypes
                                     \/ e \in hist.lost]_vars

\* write is left only after get_chapter_list found the length in range, called
\* in this Run, since write was entered and since the batch chapter was declared:
\* the last chapter's result never lets this one pass.
CountedBeforeLeavingWrite == [][Leaving /\ phase = "write" => hist.counted]_vars

\* The next batch chapter is declared only when all of miniMaintain has
\* succeeded for this one, and the consistency check where the phase allows it.
ChapterSettled ==
  [][NextChapter =>
       /\ MiniMaintain \subseteq hist.done
       /\ "check_story_consistency" \in Cfg.tools
            => "check_story_consistency" \in hist.done]_vars

\* A move goes to the next phase (to any, from a phase that names none) or back to
\* one this round has really been in (in batch mode a looping phase also back to the
\* one before it): a new round never uses the phases of the round before to jump
\* ahead (SetPhase, ResetTo, LoadState).
JumpsStayInRound ==
  [][Leaving => \/ Cfg.next \in {"", phase'}
                \/ phase' \in hist.been
                \/ mode = "batch" /\ Cfg.loop /\ phase' \in Prev(phase)]_vars

\* The gate's bookkeeping never claims more than what happened.
Backed(tools, open, h) ==
  /\ tools \subseteq h.done
  /\ {e \in h.open : TypeOf[e] \in FullTypes} \subseteq open \cup h.lost

\* The inductive invariant behind the properties above: what the gate believes
\* of the current phase, and what the session row will make it believe after a
\* restart, is backed by what happened.
GateInv ==
  /\ TypeOK
  /\ Backed(ok, errs, hist)
  /\ Backed(saved.tools, saved.errs, saved.hist)
  /\ saved.phase \in {"", "done"} => saved.errs = {}
  /\ phase = "write" /\ counted => hist.counted
=============================================================================
