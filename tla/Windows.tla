------------------------------- MODULE Windows -------------------------------
(***************************************************************************)
(* What get_timeline and get_story_arcs of src/internal/mcp_tools show the *)
(* model of the threads and nodes when it names the chapter it is at, over *)
(* the tables that Checks keeps: the two tools and the consistency check   *)
(* cut the same rows at chapter numbers of their own.  A query that is cut *)
(* leaves open which of two rows with one target comes first: a window is  *)
(* the set of the replies there may be.                                    *)
(***************************************************************************)
EXTENDS Checks

CONSTANTS
  Recent,  \* rows of the past that are shown (10)
  Cap,     \* rows any other list is cut at (100)
  Listed,  \* appearances that are shown (20)
  Stop     \* nodes at the breakpoint of a paused arc (2)

ASSUME WindowsConstants ==
  {Recent, Cap, Listed, Stop} \subseteq Nat /\ Stop > 0

\* The targets of the rows.
ThreadDue == [k \in Threads |-> threads[k].target]
NodeDue   == [n \in Nodes |-> nodes[n].target]

\* The first `limit` of the rows xs, latest or earliest target first.
Lesser(a, b) == IF a < b THEN a ELSE b

Chosen(xs, due, limit, Precedes(_, _)) ==
  {some \in SUBSET xs :
     /\ Cardinality(some) = Lesser(limit, Cardinality(xs))
     /\ \A x \in some, y \in xs \ some : ~ Precedes(due[y], due[x])}

Latest(xs, due, limit)   == Chosen(xs, due, limit, >)
Earliest(xs, due, limit) == Chosen(xs, due, limit, <)

Past(xs, due, current)   == {x \in xs : due[x] < current}

\* Mutant: what is planned for the current chapter is not ahead.
AheadOnly(xs, due, current) == {x \in xs : due[x] > current}

Ahead(xs, due, current)  == {x \in xs : due[x] >= current}

-----------------------------------------------------------------------------
\* get_timeline

PendingThreads  == {k \in Threads : threads[k].status = "pending"}
ResolvedThreads == {k \in Threads : threads[k].status = "resolved"}

ListBefore(current) == Latest(Past(Threads, ThreadDue, current), ThreadDue, Recent)
ListPendingBefore(current) ==
  Latest(Past(PendingThreads, ThreadDue, current), ThreadDue, Cap)
ListAfter(current)  == Earliest(Ahead(Threads, ThreadDue, current), ThreadDue, Cap)

\* What is resolved ahead of its chapter counts as irregular.
TimelineRows(current) ==
  {[history |-> history, anomalies |-> pending \cup (future \cap ResolvedThreads),
    future |-> future] :
     history \in ListBefore(current), pending \in ListPendingBefore(current),
     future \in ListAfter(current)}

\* What is irregular is left out of the past and of what is ahead.
FormatTimeline(rows) ==
  [past      |-> rows.history \ rows.anomalies,
   irregular |-> rows.anomalies,
   ahead     |-> rows.future \ ResolvedThreads]

Timeline(current) == {FormatTimeline(rows) : rows \in TimelineRows(current)}

-----------------------------------------------------------------------------
\* get_story_arcs, for the arc of the nodes

PendingNodes == {n \in Nodes : nodes[n].status = "pending"}

ListNodesBeforeByArc(current) == Latest(Past(Nodes, NodeDue, current), NodeDue, Recent)
ListPendingNodesBeforeByArc(current) ==
  Earliest(Past(PendingNodes, NodeDue, current), NodeDue, Cap)
ListNodesAfterByArc(current)  == Earliest(Ahead(Nodes, NodeDue, current), NodeDue, Cap)

\* Where a paused arc stopped, whatever the chapter.
GetBreakpoint ==
  [before : Latest(Nodes \ PendingNodes, NodeDue, Stop),
   pending : Earliest(PendingNodes, NodeDue, Stop)]

\* Of an active arc, the past holds also what is irregular.
FormatActiveArc(current) ==
  [past      : ListNodesBeforeByArc(current),
   irregular : ListPendingNodesBeforeByArc(current),
   ahead     : ListNodesAfterByArc(current)]

\* Of an arc that is over only its name is shown.
ArcWindow(status, current) ==
  CASE status = "active" -> FormatActiveArc(current)
    [] status = "paused" -> GetBreakpoint
    [] OTHER             -> {<< >>}

-----------------------------------------------------------------------------
Lists(w, x) == {list \in DOMAIN w : x \in w[list]}

\* No list of pending rows, or of rows ahead, is cut.
ThreadsFit(current) ==
  /\ Cardinality(Past(PendingThreads, ThreadDue, current)) <= Cap
  /\ Cardinality(Ahead(Threads, ThreadDue, current)) <= Cap

NodesFit(current) ==
  /\ Cardinality(Past(PendingNodes, NodeDue, current)) <= Cap
  /\ Cardinality(Ahead(Nodes, NodeDue, current)) <= Cap

ThreadsShown(current) ==
  \A w \in Timeline(current) :
    /\ \A k \in PendingThreads : Cardinality(Lists(w, k)) = 1
    /\ {k \in w.irregular \cap PendingThreads : threads[k].target # None}
         = ForeshadowOverdue(current)
    /\ \A k \in w.irregular \ PendingThreads :
         threads[k].status = "resolved" /\ threads[k].target >= current

NodesShown(current) ==
  \A w \in ArcWindow("active", current) :
    /\ LateNodes(current) \subseteq w.irregular
    /\ \A n \in PendingNodes : Cardinality(Lists(w, n) \ {"past"}) = 1

BreakpointShown(current) ==
  LateNodes(current) # {} =>
    \/ \A w \in ArcWindow("paused", current) : w.pending \cap LateNodes(current) # {}
    \/ \E n \in PendingNodes : nodes[n].target = None

AppearancesShown(current) ==
  \A p \in People : \A list \in CharacterAppearances(p, Listed) :
    /\ p \in VanishedCharacters(current) => \A n \in list : n < current - Vanish
    /\ /\ list # {} /\ Cardinality(list) < Listed /\ Len(scenes) <= SceneCap
       /\ p \notin VanishedCharacters(current)
       => \E n \in list : n >= current - Vanish

\* As chapters are written, things resolved, given up, moved, completed ahead or late
\* and chapters deleted, what the model is shown and what the check reports do not
\* part.  A pending thread is shown once: ahead until its chapter is written and then
\* as irregular, which is when the check calls it overdue; a resolved one is irregular
\* only ahead of its chapter.  A pending node of an active arc is ahead or irregular,
\* and irregular when it is late for the check; a paused arc in which some are late
\* shows one of them.  The appearances of a person, cut as they are, name no chapter
\* that would contradict the check of who has vanished.  Exempt are lists that are cut,
\* scenes beyond the newest, and pending rows whose target was set to zero: they are
\* irregular and never overdue, and stand before the late ones of a paused arc
\* (src/internal/mcp_tools/timeline_tools.go:59, :274, storyarc_tools.go:55, :457,
\* appearance_tools.go:102, :331).
WindowsAgree ==
  \A current \in Currents :
    /\ ThreadsFit(current) => ThreadsShown(current)
    /\ NodesFit(current) => NodesShown(current)
    /\ BreakpointShown(current)
    /\ AppearancesShown(current)
=============================================================================
