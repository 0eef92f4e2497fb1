------------------------------- MODULE Threads -------------------------------
(***************************************************************************)
(* Story arcs with their nodes, and volumes: storyarc_tools.go,            *)
(* volume_tools.go and delete_tools.go of src/internal/mcp_tools, the      *)
(* store of src/internal/volume, src/app/storyarc_view.go and              *)
(* src/app/outline_view.go.                                                *)
(***************************************************************************)
EXTENDS OperationLog

\* An arc has a type, and may have a range of chapters that is in order.
StoryArc == [arc_type : {"main", "volume"}, ordered : BOOLEAN]
ArcNode  == [arc : 1 .. MaxRows, status : {"pending", "completed"}]
Volume   == [sort_order : 1 .. MaxRows + 1]

ArcIds     == Ids(db, "story_arcs")
NodeIds    == Ids(db, "arc_nodes")
VolumeIds  == Ids(db, "volumes")
Node(k)    == db.rows["arc_nodes"][k]
NodesOf(i) == {k \in NodeIds : Node(k).arc = i}

Creates(a, t, row) == Room(t) /\ AtOnce(a, Create(db, a, t, row))

\* create_story_arc: a volume must have a range in order.
create_story_arc(s) ==
  \E arc \in StoryArc :
    /\ arc.arc_type = "volume" => arc.ordered
    /\ Creates(s, "story_arcs", arc)

\* update_story_arc takes any type and any range.
update_story_arc(s, i) ==
  Edit(s, "story_arcs", i, StoryArc, LAMBDA old, new : TRUE)

\* create_arc_node looks for the arcs, then inserts up to ten nodes.
create_arc_node(s, i) ==
  /\ i \in ArcIds
  /\ Will(s, "create", "arc_nodes", 0, None, [arc |-> i, status |-> "pending"])

update_arc_node(s, k) ==
  Edit(s, "arc_nodes", k, ArcNode, LAMBDA old, new : new.arc = old.arc)

\* delete_record refuses an arc that has nodes.
deleteStoryArc(s, i) == delete_record(s, "story_arcs", i, NodesOf(i))
deleteArcNode(s, k)  == delete_record(s, "arc_nodes", k, {})

\* The interface checks no range and no arc.
CreateStoryArc == \E arc \in StoryArc : Creates(User, "story_arcs", arc)

UpdateStoryArc(i) ==
  Edit(User, "story_arcs", i, StoryArc, LAMBDA old, new : TRUE)

DeleteStoryArc(i) ==
  /\ i \in ArcIds
  /\ AtOnce(User, DeleteWhere(DeleteWhere(db, "arc_nodes", NodesOf(i)), "story_arcs", {i}))

\* Nobody looks for the arc.
CreateArcNode(i) == Creates(User, "arc_nodes", [arc |-> i, status |-> "pending"])

UpdateArcNode(k) ==
  Edit(User, "arc_nodes", k, ArcNode, LAMBDA old, new : new.arc = old.arc)

DeleteArcNode(k) == k \in NodeIds /\ AtOnce(User, DeleteWhere(db, "arc_nodes", {k}))

\* create_volume reads the volumes for the next place in the order.
create_volume(s) ==
  Will(s, "create", "volumes", 0, None,
       [sort_order |-> Cardinality(VolumeIds) + 1])

\* update_volume of a tool and SaveVolume of the interface change what is given.
update_volume(a, i) ==
  Edit(a, "volumes", i, Volume, LAMBDA old, new : TRUE)

\* delete_volume reads the row, asks the user, and deletes by the id alone, which
\* the hooks cannot tell: no record.
delete_volume(s, i) ==
  /\ i \in VolumeIds
  /\ Will(s, "delete_silently", "volumes", i, db.rows["volumes"][i], None)

WriteDeleteVolume(s) ==
  /\ About(s, "delete_silently") /\ Tick /\ Done(s)
  /\ Commits(s, DeleteWhere(db, "volumes", {op[s].id}))

SaveVolume ==
  \E place \in 1 .. MaxRows : Creates(User, "volumes", [sort_order |-> place])

DeleteVolume(i) == i \in VolumeIds /\ AtOnce(User, DeleteWhere(db, "volumes", {i}))

ThreadsNext ==
  \/ \E s \in Sessions : create_story_arc(s) \/ create_volume(s) \/ WriteDeleteVolume(s)
  \/ \E s \in Sessions, i \in 1 .. MaxRows :
       \/ update_story_arc(s, i) \/ deleteStoryArc(s, i)
       \/ create_arc_node(s, i) \/ update_arc_node(s, i) \/ deleteArcNode(s, i)
       \/ delete_volume(s, i)
  \/ \E a \in Actors, i \in 1 .. MaxRows : update_volume(a, i)
  \/ CreateStoryArc \/ SaveVolume
  \/ \E i \in 1 .. MaxRows :
       \/ UpdateStoryArc(i) \/ DeleteStoryArc(i)
       \/ CreateArcNode(i) \/ UpdateArcNode(i) \/ DeleteArcNode(i) \/ DeleteVolume(i)
=============================================================================
