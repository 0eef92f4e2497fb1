------------------------------- MODULE Places -------------------------------
(***************************************************************************)
(* Locations, which have a parent, and the undirected relations between    *)
(* them: src/internal/mcp_tools/location_tools.go and delete_tools.go,     *)
(* src/internal/location and src/app/location_view.go.                     *)
(***************************************************************************)
EXTENDS OperationLog

NoParent == 0

Location         == [parent : 0 .. MaxRows, text : {"old", "new"}]
LocationRelation == [a : 1 .. MaxRows, b : 1 .. MaxRows, text : {"old", "new"}]

LocationIds == Ids(db, "locations")
LinkIds     == Ids(db, "location_relations")
Parent(i)   == db.rows["locations"][i].parent
Link(k)     == db.rows["location_relations"][k]

Children(i) == {j \in LocationIds : Parent(j) = i}
LinksOf(i)  == {k \in LinkIds : i \in {Link(k).a, Link(k).b}}
Linked(a, b) == \E k \in LinkIds : Link(k).a = a /\ Link(k).b = b

Known(i) == i = NoParent \/ i \in LocationIds

\* create_location looks for the parents, then inserts.
create_location(s) ==
  \E parent \in {NoParent} \cup LocationIds :
    Will(s, "create", "locations", 0, None, [parent |-> parent, text |-> "old"])

\* update_location looks for the new parent; nothing asks where the parent is.
update_location(s, i) ==
  Edit(s, "locations", i, Location,
       LAMBDA old, new : new.parent # old.parent => Known(new.parent))

\* create_location_relation: no loop, both ends exist, and no relation yet, with
\* the smaller id first.
create_location_relation(s, i, j) ==
  LET a == IF i < j THEN i ELSE j
      b == IF i < j THEN j ELSE i
  IN  /\ i # j /\ {i, j} \subseteq LocationIds
      /\ ~Linked(a, b)
      /\ Will(s, "link", "location_relations", 0, None,
              [a |-> a, b |-> b, text |-> "old"])

\* The unique index on the pair refuses a second one.
WriteLink(s) ==
  /\ About(s, "link") /\ Room("location_relations") /\ Tick /\ Done(s)
  /\ IF Linked(op[s].new.a, op[s].new.b)
     THEN UNCHANGED <<db, turn, hist>>
     ELSE Commits(s, Create(db, s, "location_relations", op[s].new))

update_location_relation(s, k) ==
  Edit(s, "location_relations", k, LocationRelation,
       LAMBDA old, new : new.a = old.a /\ new.b = old.b)

\* Mutant: only the relations are looked for.
IgnoreChildren(s, i) == delete_record(s, "locations", i, LinksOf(i))

\* delete_record refuses a location that has children or relations.
deleteLocation(s, i) == delete_record(s, "locations", i, Children(i) \cup LinksOf(i))
deleteLocationRelation(s, k) == delete_record(s, "location_relations", k, {})

\* The interface takes any parent, there or not.
CreateLocation ==
  /\ Room("locations")
  /\ \E parent \in 0 .. MaxRows :
       AtOnce(User, Create(db, User, "locations", [parent |-> parent, text |-> "old"]))

UpdateLocation(i) == PatchAndSave("locations", i, Location)

\* The children become roots; the relations go.
DeleteLocation(i) ==
  /\ i \in LocationIds
  /\ LET reparented == Updates(db, "locations", Children(i),
                               LAMBDA r : [r EXCEPT !.parent = NoParent])
     IN  AtOnce(User, DeleteWhere(DeleteWhere(reparented, "location_relations", LinksOf(i)),
                                  "locations", {i}))

PlacesNext ==
  \/ \E s \in Sessions : create_location(s) \/ WriteLink(s)
  \/ \E s \in Sessions, i \in 1 .. MaxRows :
       \/ update_location(s, i) \/ deleteLocation(s, i)
       \/ update_location_relation(s, i) \/ deleteLocationRelation(s, i)
  \/ \E s \in Sessions, i, j \in 1 .. MaxRows : create_location_relation(s, i, j)
  \/ CreateLocation
  \/ \E i \in 1 .. MaxRows : UpdateLocation(i) \/ DeleteLocation(i)
=============================================================================
