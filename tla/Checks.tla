------------------------------- MODULE Checks -------------------------------
(***************************************************************************)
(* check_story_consistency and get_entity_appearances of                   *)
(* src/internal/mcp_tools/appearance_tools.go over the tables they read:   *)
(* what they report while chapters are written, recorded and deleted and   *)
(* people, items, threads and nodes change.  Every check reads rows by     *)
(* their ids or by chapter numbers; the two are not the same, for an id is *)
(* never used again and a number is.                                       *)
(***************************************************************************)
EXTENDS Integers, Sequences, SequencesExt, FiniteSets, FiniteSetsExt

CONSTANTS
  People, Items,
  Threads, Nodes, \* ids: the lists of the checks are cut in their order
  Plans,        \* [volumes, beats]: volumes are [start, end, promised], with the
                \* chapters of their promises; beats are chapters in order
  Bodies,       \* what update_chapter_meta records: [people, action, promised]
  Texts,        \* texts of a chapter: sequences of lines
  ThreadTargets, NodeTargets,  \* the chapter each is planned for when it is created
  Targets,      \* bound: chapters a plan is moved to
  Vanish,       \* chapters without a scene before one is missed (30)
  Lookback,     \* chapters pacing_gap and the reminder look back (5)
  MinGap,       \* chapters without action it minds (3)
  Tolerance,    \* chapters a promise may be late (3)
  DriftWindow, DriftSample, DriftActions,  \* 8, 5 and 2 of type_drift
  Window,       \* chapters beat_window looks ahead (3)
  Lag, Lead,    \* chapters a node may be late (3) and early (5)
  LedgerCap, ScopeCap,  \* rows in a list of ledger_integrity (20) and scope_guard (10)
  SceneCap,     \* newest scenes that appearances are looked for in (200)
  Begun,        \* chapters there are at first
  MaxChapter,   \* bound: chapter numbers
  MaxChanges    \* bound: changes

Ids == 1 .. MaxChapter + MaxChanges
None == 0

\* The drift is looked for as far back as the gap, in more chapters than it needs.
ASSUME ChecksConstants ==
  /\ {Vanish, Lookback, MinGap, Tolerance, DriftWindow, DriftSample, DriftActions,
      Window, Lag, Lead, LedgerCap, ScopeCap, SceneCap, Begun, MaxChapter,
      MaxChanges} \subseteq Nat
  /\ Threads \cup Nodes \cup Targets \subseteq Nat /\ IsFiniteSet(Threads \cup Nodes)
  /\ Begun <= MaxChapter
  /\ MinGap > 0 /\ Lookback <= DriftWindow /\ DriftSample <= DriftWindow
  /\ ThreadTargets \in [Threads -> Nat \ {0}] /\ NodeTargets \in [Nodes -> Nat \ {0}]
  /\ Bodies \subseteq [people : SUBSET People, action : BOOLEAN, promised : BOOLEAN]
  /\ Texts \subseteq Seq(STRING)
  /\ \A p \in Plans : /\ p.beats \in Seq(Nat)
                      /\ p.volumes \in Seq([start : Nat, end : Nat, promised : SUBSET Nat])

VARIABLES
  chapters,  \* id -> row, of the chapters there are
  files,     \* number -> text
  nextId,
  scenes,    \* sequence of <<chapter id, person>>, by the ids of the scenes
  uses,      \* <<chapter id, item>>: item occurrences
  people, items,  \* status and the chapter id of its change, or None
  threads,   \* status, the chapter id it is resolved in, or None, and its target
  nodes,     \* status, the chapter number it happened in, or None, and its target
  plan,
  changes,   \* how many changes there were
  told       \* the chapter number in which each dead person was told to die

vars == <<chapters, files, nextId, scenes, uses, people, items, threads, nodes, plan,
          changes, told>>

-----------------------------------------------------------------------------
\* Queries

Blank == [people |-> {}, action |-> FALSE, promised |-> FALSE]

Row(number, body) == [num |-> number, body |-> body]

\* The number of a chapter id; 0 when the map has no such key.
NumberOf(id) == IF id \in DOMAIN chapters THEN chapters[id].num ELSE 0

Between(first, last) == {id \in DOMAIN chapters : chapters[id].num \in first .. last}

Numbers == {chapters[id].num : id \in DOMAIN chapters}

MaxChapterNumber == Max(Numbers \cup {0})

AtLeast(n, low) == IF n < low THEN low ELSE n

\* The first rows of a list that is cut; SQLite keeps the ids of equals in order.
FirstRows(rows, limit, Before(_, _)) ==
  {x \in rows : Cardinality({y \in rows : Before(y, x)}) < limit}

\* How many chapters come, from the last one back, before the first with action.
Streak(ids) ==
  LET acting == {id \in ids : chapters[id].body.action}
  IN Cardinality({id \in ids : \A a \in acting : chapters[id].num > chapters[a].num})

-----------------------------------------------------------------------------
\* The checks, for the chapter number they are called with

ForeshadowOverdue(current) ==
  {k \in Threads : threads[k].status = "pending" /\ threads[k].target \in 1 .. current - 1}

\* lastSeen joins the chapters that exist; the recent ones have no upper end.
LastSeen(p) == Max({NumberOf(s[1]) : s \in {s \in ToSet(scenes) : s[2] = p}} \cup {0})

VanishedCharacters(current) ==
  LET recent == {s[2] : s \in {s \in ToSet(scenes) : NumberOf(s[1]) >= AtLeast(current - Vanish, 1)}}
  IN {p \in People \ recent : LastSeen(p) \in 1 .. current - Vanish}

Gone(i) == items[i].status \in {"destroyed", "lost"}

\* One bound for all: the latest of the chapters in which an item was lost.
ItemConflicts ==
  LET lostIn == {items[i].changed : i \in {i \in Items : Gone(i)}} \ {None}
      known  == lostIn \cap DOMAIN chapters
      later  == {id \in DOMAIN chapters : \A k \in known : chapters[id].num > chapters[k].num}
  IN IF known = {} THEN {}
     ELSE {i \in Items : Gone(i) /\ \E u \in uses : u[1] \in later /\ u[2] = i}

\* The dead whose chapter is there, the chapters from the first death on, and for
\* each the first later one that names them.
Deaths == {p \in People : people[p].status = "dead" /\ NumberOf(people[p].changed) # 0}

DeathOf(p) == NumberOf(people[p].changed)

\* Mutant: the chapters from the last death on.
LastDeath(current) == Max({DeathOf(p) : p \in Deaths} \cup {1})

FirstDeath(current) == Min({DeathOf(p) : p \in Deaths} \cup {current})

DeadAppeared(current) ==
  LET later   == Between(FirstDeath(current), current)
      Seen(p) == {chapters[id].num : id \in {id \in later : /\ p \in chapters[id].body.people
                                                            /\ chapters[id].num > DeathOf(p)}}
  IN {[person |-> p, death |-> DeathOf(p), seen |-> Min(Seen(p))] : p \in {q \in Deaths : Seen(q) # {}}}

\* The chapters pacing_gap names, counted back from the current one; none below MinGap.
PacingGap(current) ==
  LET idle == Streak(Between(AtLeast(current - Lookback + 1, 1), current))
  IN IF idle >= MinGap THEN current - idle + 1 .. current ELSE {}

\* TypeDriftStreak, of which the agent reminds at the beginning of write.
TypeDriftStreak(before) ==
  Streak(Between(AtLeast(before - Lookback, 1), before - 1))

TypeDrift(current) ==
  LET first == AtLeast(current - DriftWindow + 1, 1)
  IN /\ current - first + 1 >= DriftSample
     /\ Cardinality({id \in Between(first, current) : chapters[id].body.action}) < DriftActions

\* The promises of the first volume the chapter is in; those of the others are not
\* looked at.
PromisedHere(current) ==
  LET here == {i \in DOMAIN plan.volumes :
                 current \in plan.volumes[i].start .. plan.volumes[i].end}
  IN IF here = {} THEN {} ELSE plan.volumes[Min(here)].promised

Completed(n) == nodes[n].status = "completed"

\* Of these, what is as late as it may be or later: kept when a node was completed
\* since, or when one of the last chapters tells it.
PromiseUnfulfilled(current) ==
  LET Kept(c) == \/ \E n \in Nodes : Completed(n) /\ nodes[n].actual \in c .. current
                 \/ \E id \in Between(current - 3, current) : chapters[id].body.promised
  IN {c \in PromisedHere(current) : c + Tolerance <= current /\ ~ Kept(c)}

\* A resolved thread whose chapter is not there, a node that happened in none.
BrokenThreads ==
  {k \in Threads : /\ threads[k].status = "resolved" /\ threads[k].chapter # None
                   /\ threads[k].chapter \notin DOMAIN chapters}

BrokenNodes ==
  {n \in Nodes : Completed(n) /\ (nodes[n].actual = None \/ nodes[n].actual > MaxChapterNumber)}

\* Mutant: an id is taken for a number.
LedgerIntegrityByNumber ==
  [threads |-> {k \in Threads : /\ threads[k].status = "resolved"
                                /\ threads[k].chapter > MaxChapterNumber},
   nodes   |-> FirstRows(BrokenNodes, LedgerCap, <)]

LedgerIntegrity ==
  [threads |-> FirstRows(BrokenThreads, LedgerCap, <),
   nodes   |-> FirstRows(BrokenNodes, LedgerCap, <)]

BeatWindow(current) == {b \in ToSet(plan.beats) : b \in current + 1 .. current + Window}

LateNodes(current) ==
  {n \in Nodes : nodes[n].status = "pending" /\ nodes[n].target \in 1 .. current - Lag - 1}

EarlyNodes ==
  {n \in Nodes : nodes[n].actual # None /\ nodes[n].target - nodes[n].actual > Lead}

SoonerNode(m, n) ==
  \/ nodes[m].target < nodes[n].target
  \/ nodes[m].target = nodes[n].target /\ m < n

\* No volume has the chapter, nodes that are late, nodes that came early.
ScopeGuard(current) ==
  [outside |-> \A v \in ToSet(plan.volumes) : current \notin v.start .. v.end,
   late    |-> FirstRows(LateNodes(current), ScopeCap, SoonerNode),
   early   |-> FirstRows(EarlyNodes, ScopeCap, <)]

\* Promises without a beat; without any beat nothing is looked at.
Promised == UNION {v.promised : v \in ToSet(plan.volumes)}

UnmatchedPromises ==
  IF plan.beats = << >> THEN {} ELSE Promised \ ToSet(plan.beats)

\* detectDupParagraphs collects lines until a blank one or the end and forgets them
\* there; headings, quotes and short paragraphs are passed over.  A line is blank, "#",
\* "-" (short) or a text.
BlankLine == ""

Collected(lines) ==
  LET cur[i \in 0 .. Len(lines)] ==
        IF i = 0 THEN << >>
        ELSE IF lines[i] = BlankLine THEN << >> ELSE Append(cur[i - 1], lines[i])
  IN cur

Paragraphs(lines) ==
  {i \in DOMAIN lines : /\ i = Len(lines) \/ lines[i + 1] = BlankLine
                        /\ Collected(lines)[i] \notin {<< >>, <<"-">>}
                        /\ Collected(lines)[i][1] # "#"}

DupParagraphs(current) ==
  LET lines == IF current \in DOMAIN files THEN files[current] ELSE << >>
  IN {i \in Paragraphs(lines) :
        \E j \in Paragraphs(lines) : j < i /\ Collected(lines)[j] = Collected(lines)[i]}

-----------------------------------------------------------------------------
\* The report: errors, then warnings, by the name of their check.
Errors(current) ==
  ({"foreshadow_overdue"} \X ForeshadowOverdue(current))
  \cup ({"item_conflict"} \X ItemConflicts)
  \cup ({"dead_appeared"} \X {d.person : d \in DeadAppeared(current)})
  \cup ({"promise_fulfillment"} \X PromiseUnfulfilled(current))
  \cup ({"init_consistency"} \X UnmatchedPromises)
  \cup ({"resolved_chapter"} \X LedgerIntegrity.threads)
  \cup ({"actual_chapter"} \X LedgerIntegrity.nodes)
  \cup ({"dup_paragraph"} \X DupParagraphs(current))

Warnings(current) ==
  LET scope == ScopeGuard(current) IN
  ({"character_vanished"} \X VanishedCharacters(current))
  \cup ({"pacing_gap"} \X PacingGap(current))
  \cup ({"beat_window"} \X BeatWindow(current))
  \cup ({"scope_guard"} \X (scope.late \cup scope.early))
  \cup (IF scope.outside THEN {<<"volume_range", current>>} ELSE {})
  \cup (IF TypeDrift(current) THEN {<<"type_drift", current>>} ELSE {})

-----------------------------------------------------------------------------
\* Appearances

\* The newest scenes, whoever is in them.
NewestScenes == {scenes[i] : i \in {i \in DOMAIN scenes : i > Len(scenes) - SceneCap}}

\* The list is cut before it is put in order, and what comes first is the order
\* of a map: any Limit of them.
Cut(numbers, limit) ==
  {some \in SUBSET numbers : Cardinality(some) = IF Cardinality(numbers) < limit
                                                 THEN Cardinality(numbers) ELSE limit}

CharacterAppearances(p, limit) ==
  Cut({NumberOf(s[1]) : s \in {s \in NewestScenes : s[2] = p}} \ {0}, limit)

-----------------------------------------------------------------------------
Init ==
  /\ chapters = [id \in 1 .. Begun |-> Row(id, Blank)]
  /\ files = [n \in 1 .. Begun |-> << >>]
  /\ nextId = Begun + 1
  /\ scenes = << >> /\ uses = {}
  /\ people = [p \in People |-> [status |-> "alive", changed |-> None]]
  /\ items = [i \in Items |-> [status |-> "active", changed |-> None]]
  /\ threads = [k \in Threads |-> [status |-> "pending", chapter |-> None,
                              target |-> ThreadTargets[k]]]
  /\ nodes = [n \in Nodes |-> [status |-> "pending", actual |-> None,
                              target |-> NodeTargets[n]]]
  /\ plan \in Plans
  /\ changes = 0
  /\ told = [p \in People |-> None]

text    == <<chapters, files, nextId>>
records == <<scenes, uses, people, items, threads, nodes, plan>>

Change == changes < MaxChanges /\ changes' = changes + 1

CreateChapter ==
  LET number == MaxChapterNumber + 1 IN
  /\ number <= MaxChapter
  /\ chapters' = [id \in DOMAIN chapters \cup {nextId} |->
                    IF id = nextId THEN Row(number, Blank) ELSE chapters[id]]
  /\ files' = [n \in DOMAIN files \cup {number} |-> IF n = number THEN << >> ELSE files[n]]
  /\ nextId' = nextId + 1
  /\ UNCHANGED <<records, told>>

\* The file goes, then the row; nothing else that names the chapter does.
DeleteChapter(id) ==
  /\ chapters' = [k \in DOMAIN chapters \ {id} |-> chapters[k]]
  /\ files' = [n \in DOMAIN files \ {NumberOf(id)} |-> files[n]]
  /\ UNCHANGED <<nextId, records, told>>

UpdateChapterMeta(id) ==
  /\ \E body \in Bodies : chapters' = [chapters EXCEPT ![id].body = body]
  /\ UNCHANGED <<files, nextId, records, told>>

SaveContent(id) ==
  /\ \E lines \in Texts : files' = [files EXCEPT ![NumberOf(id)] = lines]
  /\ UNCHANGED <<chapters, nextId, records, told>>

CreateScene(id, p) ==
  /\ scenes' = Append(scenes, <<id, p>>)
  /\ UNCHANGED <<text, uses, people, items, threads, nodes, plan, told>>

CreateItemOccurrence(id, i) ==
  /\ uses' = uses \cup {<<id, i>>}
  /\ UNCHANGED <<text, scenes, people, items, threads, nodes, plan, told>>

\* update_character: a change of the status comes with its chapter, and the dead
\* do not come back; the chapter may be corrected.
UpdateCharacter(id, p) ==
  /\ people' = [people EXCEPT ![p] = [status |-> "dead", changed |-> id]]
  /\ told' = [told EXCEPT ![p] = NumberOf(id)]
  /\ UNCHANGED <<text, scenes, uses, items, threads, nodes, plan>>

\* update_item: the chapter need not be given; what is destroyed stays so.
UpdateItem(id, i) ==
  /\ items[i].status # "destroyed"
  /\ \E status \in {"active", "lost", "destroyed"}, given \in {id, None} :
       items' = [items EXCEPT ![i] =
                   [status |-> status, changed |-> IF given = None THEN @.changed ELSE given]]
  /\ UNCHANGED <<text, scenes, uses, people, threads, nodes, plan, told>>

\* A plan is moved, or loses its target by a zero the update tools take.
Moved(row) == {[row EXCEPT !.target = t] : t \in Targets \cup {None}}

\* update_timeline_entry resolves in a chapter that exists.  The interface names one
\* that may not be there, or none; either gives up and takes up again.
UpdateTimelineEntry(k) ==
  /\ \E row \in Moved(threads[k])
        \cup {[threads[k] EXCEPT !.status = s] : s \in {"pending", "resolved", "abandoned"}}
        \cup {[threads[k] EXCEPT !.status = "resolved", !.chapter = c] :
                c \in DOMAIN chapters \cup {nextId}} :
       threads' = [threads EXCEPT ![k] = row]
  /\ UNCHANGED <<text, scenes, uses, people, items, nodes, plan, told>>

\* update_arc_node and the interface take any number for the chapter it happened
\* in, or none.
UpdateArcNode(n) ==
  /\ \E row \in Moved(nodes[n])
        \cup {[nodes[n] EXCEPT !.status = s] : s \in {"pending", "abandoned"}}
        \cup {[nodes[n] EXCEPT !.status = "completed", !.actual = number] :
                number \in None .. MaxChapter + 1} :
       nodes' = [nodes EXCEPT ![n] = row]
  /\ UNCHANGED <<text, scenes, uses, people, items, threads, plan, told>>

\* Volumes and beats are edited by tools of their own.
ChangePlan ==
  /\ plan' \in Plans
  /\ UNCHANGED <<text, scenes, uses, people, items, threads, nodes, told>>

Next ==
  /\ Change
  /\ \/ CreateChapter \/ ChangePlan
     \/ \E id \in DOMAIN chapters :
          \/ DeleteChapter(id) \/ UpdateChapterMeta(id) \/ SaveContent(id)
          \/ \E p \in People : CreateScene(id, p) \/ UpdateCharacter(id, p)
          \/ \E i \in Items : CreateItemOccurrence(id, i) \/ UpdateItem(id, i)
     \/ \E k \in Threads : UpdateTimelineEntry(k)
     \/ \E n \in Nodes : UpdateArcNode(n)

Spec == Init /\ [][Next]_vars

-----------------------------------------------------------------------------
Currents == 1 .. MaxChapter + 1

\* An error that is reported is one: whoever is said to be seen dead was told to
\* die in the chapter named and is in the later one named; an item in conflict was
\* used after its own loss, if its chapter is known.
SeenDead(current) ==
  \A d \in DeadAppeared(current) :
    /\ told[d.person] = d.death
    /\ \E id \in DOMAIN chapters :
         /\ d.person \in chapters[id].body.people
         /\ chapters[id].num = d.seen /\ d.seen \in d.death + 1 .. current

UsedAfterLoss ==
  \A i \in ItemConflicts :
    NumberOf(items[i].changed) # 0 =>
      \E u \in uses : u[2] = i /\ NumberOf(u[1]) > NumberOf(items[i].changed)

\* A use after an item's own loss is reported.  Exempt is one that comes no later
\* than the loss of another item: the check takes one chapter for all, the last.
LossReported ==
  \A u \in uses :
    /\ Gone(u[2]) /\ NumberOf(items[u[2]].changed) # 0
    /\ NumberOf(u[1]) > NumberOf(items[u[2]].changed)
    => \/ u[2] \in ItemConflicts
       \/ \E i \in Items \ {u[2]} :
            Gone(i) /\ NumberOf(items[i].changed) >= NumberOf(u[1])

\* A contradiction is reported as long as the chapters it is between are there:
\* a dead person named in a later chapter, in every check from then on; a person
\* without a scene in more than Vanish chapters, and nobody else; a paragraph that
\* stands twice in the chapter, though not as part of another.
DeathReported(current) ==
  \A p \in Deaths, id \in Between(1, current) :
    p \in chapters[id].body.people /\ chapters[id].num > told[p] =>
      \E d \in DeadAppeared(current) : d.person = p /\ d.seen <= chapters[id].num

AbsenceReported(current) ==
  \A p \in People :
    p \in VanishedCharacters(current) <=> LastSeen(p) \in 1 .. current - Vanish - 1

Block(lines, i, j) ==
  /\ i <= j /\ \A k \in i .. j : lines[k] # BlankLine
  /\ i = 1 \/ lines[i - 1] = BlankLine
  /\ j = Len(lines) \/ lines[j + 1] = BlankLine
  /\ lines[i] # "#" /\ SubSeq(lines, i, j) # <<"-">>

DuplicatesReported(current) ==
  current \in DOMAIN files =>
    LET lines == files[current]
        Twice == \E i, j, k, l \in DOMAIN lines :
                   /\ Block(lines, i, j) /\ Block(lines, k, l) /\ j < k
                   /\ SubSeq(lines, i, j) = SubSeq(lines, k, l)
    IN DupParagraphs(current) # {} <=> Twice

\* What is reported is so, and what is so is reported, a use after a loss but for
\* the exempt one, which the description of the tool (:280) has as an error too
\* (src/internal/mcp_tools/appearance_tools.go:422, :494, :578, :1145).
ContradictionsReported ==
  /\ UsedAfterLoss /\ LossReported
  /\ \A current \in Currents :
       /\ SeenDead(current) /\ DeathReported(current)
       /\ AbsenceReported(current) /\ DuplicatesReported(current)

\* The checks leave no gap between them, whatever chapters are deleted.  A thread
\* past its target is overdue, or resolved in a chapter that is there, or its
\* resolution is an error; a node past its target and the lag is late, or happened
\* in a chapter that may be there, or is an error.  Four cases are exempt: what
\* was given up or has no target; a thread the interface resolved in no chapter
\* (app/timeline_view.go:112), which no check looks at; and one of more rows
\* than the list of its check holds.  A promise with its beat is
\* announced until its chapter, and an error once its tolerance is over, unless it
\* was kept, for as long as the volume that promised it is written.
ThreadWatched(current, k) ==
  threads[k].target \in 1 .. current - 1 =>
    \/ {<<"foreshadow_overdue", k>>, <<"resolved_chapter", k>>} \cap Errors(current) # {}
    \/ threads[k].status = "resolved" /\ threads[k].chapter \in DOMAIN chapters
    \/ threads[k].status = "abandoned"
    \/ threads[k].status = "resolved" /\ threads[k].chapter = None
    \/ k \in BrokenThreads /\ Cardinality(BrokenThreads) > LedgerCap

NodeWatched(current, n) ==
  nodes[n].target \in 1 .. current - Lag - 1 =>
    \/ <<"scope_guard", n>> \in Warnings(current)
    \/ <<"actual_chapter", n>> \in Errors(current)
    \/ Completed(n) /\ nodes[n].actual \in 1 .. MaxChapterNumber
    \/ nodes[n].status = "abandoned"
    \/ n \in LateNodes(current) /\ Cardinality(LateNodes(current)) > ScopeCap
    \/ n \in BrokenNodes /\ Cardinality(BrokenNodes) > LedgerCap

PromiseWatched(current, c) ==
  plan.beats # << >> =>
    \/ <<"init_consistency", c>> \in Errors(current)
    \/ /\ current \in c - Window .. c - 1 => <<"beat_window", c>> \in Warnings(current)
       /\ \/ current < c + Tolerance
          \/ {<<"promise_fulfillment", c>>, <<"volume_range", current>>}
               \cap (Errors(current) \cup Warnings(current)) # {}
          \/ \E v \in ToSet(plan.volumes) : current \in v.start .. v.end /\ c \notin v.promised
          \/ \E n \in Nodes : Completed(n) /\ nodes[n].actual \in c .. current
          \/ \E id \in DOMAIN chapters : chapters[id].body.promised

\* The three counts of chapters without action agree: the pacing check warns when
\* the reminder at the beginning of the next chapter does; no chapter it names has
\* action, also when numbers are missing; and it names no more of them than a
\* window without type drift can hold.
RemindersAgree(current) ==
  /\ PacingGap(current) # {} <=> TypeDriftStreak(current + 1) >= MinGap
  /\ \A id \in DOMAIN chapters :
       chapters[id].num \in PacingGap(current) => ~ chapters[id].body.action
  /\ current >= DriftSample /\ ~ TypeDrift(current) =>
       Cardinality(PacingGap(current)) <= DriftWindow - DriftActions

\* Nothing that was planned or promised slips between the checks, but for the
\* exempt cases, and they agree
\* (src/internal/mcp_tools/appearance_tools.go:638, :949, :1106).
NothingUnwatched ==
  \A current \in Currents :
    /\ RemindersAgree(current)
    /\ \A k \in Threads : ThreadWatched(current, k)
    /\ \A n \in Nodes : NodeWatched(current, n)
    /\ \A c \in Promised : PromiseWatched(current, c)
=============================================================================
