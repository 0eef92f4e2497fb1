-------------------------------- MODULE Story --------------------------------
(***************************************************************************)
(* What a novel is made of besides its text, as tables that the tools of   *)
(* concurrent sessions and the interface change, with the operation log    *)
(* and the rollback of a session's turns.                                  *)
(*                                                                         *)
(* Bound: a behaviour uses the tables of one part.  No operation writes    *)
(* the tables of two parts; the owner of an item and the characters of a   *)
(* scene are not looked up.                                                *)
(***************************************************************************)
EXTENDS Characters, Places, Threads, Items, Ledger, Notes

CONSTANT Beginning  \* for each part, the rows of its tables at first

Parts == DOMAIN Beginning

RowsOf(t) ==
  CASE t = "characters"          -> Character
    [] t = "character_relations" -> CharacterRelation
    [] t = "locations"           -> Location
    [] t = "location_relations"  -> LocationRelation
    [] t = "story_arcs"          -> StoryArc
    [] t = "arc_nodes"           -> ArcNode
    [] t = "volumes"             -> Volume
    [] t = "items"               -> Item
    [] t = "item_occurrences"    -> ItemOccurrence
    [] t = "chapters"            -> Chapter
    [] t = "timeline_entries"    -> TimelineEntry
    [] t = "reader_perspectives" -> ReaderPerspective
    [] t = "lore"                -> Lore
    [] t = "scenes"              -> Scene
    [] OTHER                     -> Note

\* The rows that point at others or are pointed at by relations, and the items.
EndRows ==
  [characters          |-> Character,
   character_relations |-> [source : Nat, target : Nat, is_current : BOOLEAN, text : Texts],
   locations           |-> [parent : Nat, text : Texts],
   location_relations  |-> [a : Nat, b : Nat, text : Texts],
   story_arcs          |-> StoryArc,
   arc_nodes           |-> [arc : Nat, status : {"pending", "completed"}],
   items               |-> Item,
   timeline_entries    |-> [status : {"pending", "resolved"}, resolved_chapter_id : Nat]]

\* The other rows that are saved whole.
SavedRows == Volume \cup ReaderPerspective \cup Note

IsList(f) == f \in Seq(Range(f))

\* None is no row and no rollback, and a novel begins with rows of its tables.
ASSUME StoryAssumption ==
  /\ DOMAIN EndRows \subseteq Tables
  /\ None \notin [sess : Sessions, turn : Nat]
  /\ \A t \in DOMAIN EndRows : None \notin EndRows[t]
  /\ None \notin SavedRows
  /\ \A part \in Parts : \A t \in DOMAIN Beginning[part] : IsList(Beginning[part][t])
  /\ \A part \in Parts : \A t \in DOMAIN EndRows \cap DOMAIN Beginning[part] :
       Beginning[part][t] \in Seq(EndRows[t])

Init ==
  \E part \in Parts :
    /\ LogInit(part)
    /\ db = [rows |-> [t \in Tables |-> IF t \in DOMAIN Beginning[part]
                                        THEN Beginning[part][t] ELSE <<>>],
             log |-> <<>>]

InPart(part, PartNext) == hist.part = part /\ PartNext

Next ==
  \/ LogNext
  \/ InPart("characters", CharactersNext)
  \/ InPart("places", PlacesNext)
  \/ InPart("threads", ThreadsNext)
  \/ InPart("items", ItemsNext)
  \/ InPart("ledger", LedgerNext)
  \/ InPart("notes", NotesNext)

Spec == Init /\ [][Next]_vars

-----------------------------------------------------------------------------
(* Properties.                                                             *)

\* Types of the variables.
TypeOK ==
  /\ \A t \in Tables : \A i \in Ids(db, t) : i <= MaxRows /\ db.rows[t][i] \in RowsOf(t)
  /\ \A k \in DOMAIN db.log :
       LET r == db.log[k]
       IN  /\ r.kind \in {"create", "update", "delete"} /\ r.table \in Tables
           /\ r.old = None \/ r.old \in RowsOf(r.table)
  /\ turn \in [Sessions -> 0 .. MaxTurns] /\ steps \in 0 .. MaxSteps[hist.part]
  /\ DOMAIN op = Actors
  /\ hist.stale \subseteq Actors

Row(rows, e) == IF e[2] \in DOMAIN rows[e[1]] THEN rows[e[1]][e[2]] ELSE None

TouchesSince(s, n, e) == {x \in hist.touches : x.row = e /\ x.at[s] >= n}

Undoes(x, s, n) == x.by.sess = s /\ x.by.turn >= n

\* After a rollback to the start of a turn, a row that nothing but logged
\* statements of the undone turns has touched since, among them edits of the user
\* that were credited to such a turn, is what it was when the turn began, also when
\* the row was deleted, or deleted and put back.
LoggedTurnUndone ==
  hist.undone # None =>
    LET s == hist.undone.sess
        n == hist.undone.turn
    IN  \A e \in {x.row : x \in hist.touches} :
          (\A x \in TouchesSince(s, n, e) : x.logged /\ Undoes(x, s, n))
            => Row(db.rows, e) = Row(hist.marks[s][n], e)

\* The step in which an actor makes what it decided on before.
Writes(a) == op[a] # None /\ op'[a] # op[a]

RollsBack == hist'.undone # hist.undone

\* Rows that point at a row that is not there.
Dangling(d) ==
     {<<"character_relations", k>> : k \in
        {k \in Ids(d, "character_relations") :
           LET r == d.rows["character_relations"][k]
           IN  ~({r.source, r.target} \subseteq Ids(d, "characters"))}}
  \cup {<<"location_relations", k>> : k \in
        {k \in Ids(d, "location_relations") :
           LET r == d.rows["location_relations"][k]
           IN  ~({r.a, r.b} \subseteq Ids(d, "locations"))}}
  \cup {<<"locations", k>> : k \in
        {k \in Ids(d, "locations") :
           d.rows["locations"][k].parent \notin {NoParent} \cup Ids(d, "locations")}}
  \cup {<<"arc_nodes", k>> : k \in
        {k \in Ids(d, "arc_nodes") :
           d.rows["arc_nodes"][k].arc \notin Ids(d, "story_arcs")}}

\* The interface has just written location or node e, and looks for no end of
\* either (CreateLocation, UpdateLocation, CreateArcNode).
SetByInterface(e) ==
  /\ e[1] \in {"locations", "arc_nodes"}
  /\ Row(db'.rows, e) # Row(db.rows, e)
  /\ \A s \in Sessions : ~Writes(s)

\* Relations, parents and nodes keep their ends: a step makes a row that points at
\* nothing only when the interface points a location or a node there, when its actor
\* decided on what another has changed since, when it takes the place of a relation
\* that did so before, or when turns are rolled back.
EndsStand ==
  [][\/ \A e \in Dangling(db') \ Dangling(db) : SetByInterface(e)
     \/ RollsBack
     \/ \E a \in Actors : /\ Writes(a)
                          /\ \/ a \in hist.stale
                             \/ /\ op[a].do = "edit_relation"
                                /\ <<op[a].table, op[a].id>> \in Dangling(db)]_vars

Final(t, r) == \/ t = "characters" /\ r.status = "dead"
               \/ t = "items" /\ r.status \in Finals

\* What is dead, destroyed or consumed is not brought back by a tool, unless the
\* tool had read the row before it became so.
FinalsStand ==
  [][\A t \in {"characters", "items"} : \A i \in Ids(db, t) \cap Ids(db', t) :
       Final(t, db.rows[t][i]) /\ ~Final(t, db'.rows[t][i]) =>
         RollsBack \/ Writes(User) \/ \E s \in Sessions \cap hist.stale : Writes(s)]_vars

\* Of the relations of one direction between two characters, at most one holds: a
\* second one comes only of an edit of one that was retired, of a decision on what
\* another has changed since, or of a rollback.
OneHolds ==
  [][\A i, j \in 1 .. MaxRows :
       Cardinality(CurrentOf(db', i, j)) > 1 =>
         \/ Cardinality(CurrentOf(db, i, j)) > 1
         \/ RollsBack
         \/ \E a \in Actors : /\ Writes(a)
                              /\ a \in hist.stale \/ op[a].do = "edit_relation"]_vars
=============================================================================
