-------------------------------- MODULE Notes --------------------------------
(***************************************************************************)
(* What the writing is held to: the outline and its beats, preferences,    *)
(* lore and scenes: outline_tools.go, novel_tools.go, lore_tools.go,       *)
(* scene_tools.go and delete_tools.go of src/internal/mcp_tools, the       *)
(* stores of src/internal/outline, lore and scene, and the views           *)
(* outline_view.go, novel.go, lore_view.go and scene_view.go of src/app.   *)
(*                                                                         *)
(* A row of these tables is its text, and what tells tables apart: the     *)
(* version of a lore entry and the chapter of a scene.                     *)
(***************************************************************************)
EXTENDS OperationLog

NoteTexts == {"blank", "old", "new"}

Note  == [text : NoteTexts]
Lore  == [text : NoteTexts, version : 1 .. MaxSteps[hist.part] + 1]
Scene == [text : NoteTexts, chapter_id : 0 .. 1]

Insert(a, t, r) == Room(t) /\ AtOnce(a, Create(db, a, t, r))

\* A row is read and some of its columns are written, without a record.
EditColumns(a, t, i, new) ==
  /\ Has(db, t, i)
  /\ Will(a, "write_columns", t, i, db.rows[t][i], new)

\* The version of a lore entry counts in the statement, whatever was read; the
\* chapter of a scene is not among the columns.
Stored(t, r, new) ==
  CASE t = "lore"   -> [new EXCEPT !.version = r.version + 1]
    [] t = "scenes" -> [new EXCEPT !.chapter_id = r.chapter_id]
    [] OTHER        -> new

WriteColumns(a) ==
  /\ About(a, "write_columns") /\ Tick /\ Done(a)
  /\ Commits(a, Updates(db, op[a].table, {op[a].id},
                        LAMBDA r : Stored(op[a].table, r, op[a].new)))

DeleteRows(a, t, i) == Has(db, t, i) /\ AtOnce(a, DeleteWhere(db, t, {i}))

\* Lore.
create_lore(a) == Insert(a, "lore", [text |-> "old", version |-> 1])

update_lore(a, i) ==
  \E text \in NoteTexts \ {"blank"} :
    EditColumns(a, "lore", i, [text |-> text, version |-> 1])

delete_lore(a, i)      == DeleteRows(a, "lore", i)
deleteLoreRecord(s, i) == delete_record(s, "lore", i, {})

\* Scenes: planned without a chapter, or of one that is there.
create_scene(a) ==
  \E chapter \in 0 .. 1 : Insert(a, "scenes", [text |-> "old", chapter_id |-> chapter])

\* update_scene takes a chapter to fill in; the interface takes none.
update_scene(a, i) ==
  \E text \in NoteTexts \ {"blank"}, chapter \in IF a = User THEN {0} ELSE 0 .. 1 :
    EditColumns(a, "scenes", i, [text |-> text, chapter_id |-> chapter])

delete_scene(a, i)      == DeleteRows(a, "scenes", i)
deleteSceneRecord(s, i) == delete_record(s, "scenes", i, {})

\* Preferences: saved whole; the interface deletes by the id alone.
create_preference(a)    == Insert(a, "preferences", [text |-> "old"])
update_preference(a, i) == Edit(a, "preferences", i, [text : {"old", "new"}],
                                LAMBDA old, new : TRUE)
deletePreference(s, i)  == delete_record(s, "preferences", i, {})
DeletePreference(i)     == DeleteRows(User, "preferences", i)

\* The outline of the novel, one row: Upsert looks for it, then inserts it or saves
\* it whole.  A tool begins from what it reads, the interface from its own form.
Upsert(a) ==
  \E text \in NoteTexts \ {"blank"} :
    IF Ids(db, "outlines") = {}
    THEN Will(a, "insert_outline", "outlines", 0, None, [text |-> text])
    ELSE \E i \in Ids(db, "outlines") :
           Will(a, "save", "outlines", i, db.rows["outlines"][i], [text |-> text])

\* The unique index on the novel refuses a second outline.
InsertOutline(a) ==
  /\ About(a, "insert_outline") /\ Room("outlines") /\ Tick /\ Done(a)
  /\ IF Ids(db, "outlines") # {}
     THEN UNCHANGED <<db, turn, hist>>
     ELSE Commits(a, Create(db, a, "outlines", op[a].new))

\* Beats: a tool reads one and saves it; the interface saves the id and the text of
\* its form, unread; both delete by the id alone.
create_outline_beat(a)    == Insert(a, "outline_beats", [text |-> "old"])
update_outline_beat(s, i) == Edit(s, "outline_beats", i, [text : {"old", "new"}],
                                  LAMBDA old, new : TRUE)
UpdateOutlineBeat(i) ==
  \E text \in {"old", "new"} :
    /\ i <= Len(db.rows["outline_beats"])
    /\ AtOnce(User, Save(db, User, "outline_beats", i, [text |-> text]))
delete_outline_beat(a, i) == DeleteRows(a, "outline_beats", i)

NotesNext ==
  \/ \E a \in Actors :
       \/ create_lore(a) \/ create_scene(a) \/ create_preference(a)
       \/ create_outline_beat(a)
       \/ Upsert(a) \/ InsertOutline(a) \/ WriteColumns(a)
  \/ \E a \in Actors, i \in 1 .. MaxRows :
       \/ update_lore(a, i) \/ delete_lore(a, i)
       \/ update_scene(a, i) \/ delete_scene(a, i)
       \/ update_preference(a, i) \/ delete_outline_beat(a, i)
  \/ \E s \in Sessions, i \in 1 .. MaxRows :
       \/ deleteLoreRecord(s, i) \/ deleteSceneRecord(s, i) \/ deletePreference(s, i)
       \/ update_outline_beat(s, i)
  \/ \E i \in 1 .. MaxRows : DeletePreference(i) \/ UpdateOutlineBeat(i)
=============================================================================
