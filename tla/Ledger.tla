------------------------------- MODULE Ledger -------------------------------
(***************************************************************************)
(* The chapters as rows, the timeline entries that are resolved in one of  *)
(* them, and what the reader knows: timeline_tools.go,                     *)
(* reader_perspective_tools.go, chapter_meta_tools.go and delete_tools.go  *)
(* of src/internal/mcp_tools, src/app/timeline_view.go, reader.go and      *)
(* chapter.go.                                                             *)
(***************************************************************************)
EXTENDS OperationLog

NoChapter == 0

Chapter == [number : 1 .. MaxRows, meta : {"old", "new"}]

\* An entry that is abandoned counts as pending here.
TimelineEntry == [status : {"pending", "resolved"},
                  resolved_chapter_id : NoChapter .. MaxRows]

\* Whether the reader knows it or is wrong about it, and whether the truth is noted.
ReaderPerspective == [type : {"known", "misconception"}, truth : BOOLEAN]

ChapterIds == Ids(db, "chapters")
EntryIds   == Ids(db, "timeline_entries")
Numbers(d) == {r.number : r \in Rows(d, "chapters")}

create_timeline_entry(a) ==
  /\ Room("timeline_entries")
  /\ AtOnce(a, Create(db, a, "timeline_entries",
                      [status |-> "pending", resolved_chapter_id |-> NoChapter]))

\* update_timeline_entry: an entry is resolved in a chapter that exists.  The
\* chapter is looked for, then the entry is read, then saved; when the status is
\* not given, neither is asked for.
ResolvedInAChapter(given, chapter) ==
  given = "resolved" => chapter # NoChapter /\ chapter \in ChapterIds

update_timeline_entry(s, k) ==
  /\ k \in EntryIds
  /\ \E given \in {"pending", "resolved", None},
        chapter \in NoChapter .. MaxRows :
       /\ given # None \/ chapter # NoChapter
       /\ ResolvedInAChapter(given, chapter)
       /\ LET old == db.rows["timeline_entries"][k]
              new == [status |-> IF given = None THEN old.status ELSE given,
                      resolved_chapter_id |-> IF chapter = NoChapter
                                              THEN old.resolved_chapter_id ELSE chapter]
          IN  Will(s, "save", "timeline_entries", k, old, new)

\* The interface asks nothing.
UpdateTimelineEntry(k) == PatchAndSave("timeline_entries", k, TimelineEntry)

DeleteTimelineEntry(k) == k \in EntryIds /\ AtOnce(User, DeleteWhere(db, "timeline_entries", {k}))
deleteTimelineEntry(s, k) == delete_record(s, "timeline_entries", k, {})

\* create_reader_perspective_entry: a misconception comes with the truth.
create_reader_perspective_entry(s) ==
  /\ Room("reader_perspectives")
  /\ \E r \in ReaderPerspective :
       /\ r.type = "misconception" => r.truth
       /\ AtOnce(s, Create(db, s, "reader_perspectives", r))

\* An update may change the type; a truth once noted is not taken away.
KeepsTruth(old, new) == old.truth => new.truth

update_reader_perspective_entry(a, k) ==
  Edit(a, "reader_perspectives", k, ReaderPerspective, KeepsTruth)

CreateReaderPerspective ==
  /\ Room("reader_perspectives")
  /\ \E r \in ReaderPerspective : AtOnce(User, Create(db, User, "reader_perspectives", r))

deleteReaderPerspectiveEntry(s, k) == delete_record(s, "reader_perspectives", k, {})
DeleteReaderPerspective(k) ==
  Has(db, "reader_perspectives", k) /\ AtOnce(User, DeleteWhere(db, "reader_perspectives", {k}))

\* CreateChapter reads the latest number, then inserts the next; the pair of novel
\* and number is unique.
CreateChapter ==
  LET latest == IF Numbers(db) = {} THEN 0
                ELSE CHOOSE n \in Numbers(db) : \A m \in Numbers(db) : m <= n
  IN  /\ latest < MaxRows
      /\ Will(User, "create_chapter", "chapters", 0, None,
              [number |-> latest + 1, meta |-> "old"])

\* The edit tool inserts the chapter whose file it creates, unless the number is
\* there: any number that its path names.
FirstOrCreate(s) ==
  \E number \in 1 .. MaxRows :
    Will(s, "create_chapter", "chapters", 0, None, [number |-> number, meta |-> "old"])

WriteChapter(a) ==
  /\ About(a, "create_chapter") /\ Room("chapters") /\ Tick /\ Done(a)
  /\ IF op[a].new.number \in Numbers(db)
     THEN UNCHANGED <<db, turn, hist>>
     ELSE Commits(a, Create(db, a, "chapters", op[a].new))

\* DeleteChapter deletes by the number; entries resolved in the chapter stay.
DeleteChapter(i) == i \in ChapterIds /\ AtOnce(User, DeleteWhere(db, "chapters", {i}))

\* update_chapter_meta and UpdateChapterTitle write columns and leave no record.
update_chapter_meta(a, i) ==
  /\ i \in ChapterIds
  /\ AtOnce(a, Updates(db, "chapters", {i}, LAMBDA r : [r EXCEPT !.meta = "new"]))

LedgerNext ==
  \/ \E a \in Actors : create_timeline_entry(a) \/ WriteChapter(a)
  \/ \E s \in Sessions : create_reader_perspective_entry(s) \/ FirstOrCreate(s)
  \/ \E s \in Sessions, i \in 1 .. MaxRows :
       \/ update_timeline_entry(s, i) \/ deleteTimelineEntry(s, i)
       \/ deleteReaderPerspectiveEntry(s, i)
  \/ \E a \in Actors, i \in 1 .. MaxRows :
       update_reader_perspective_entry(a, i) \/ update_chapter_meta(a, i)
  \/ CreateReaderPerspective \/ CreateChapter
  \/ \E i \in 1 .. MaxRows :
       \/ UpdateTimelineEntry(i) \/ DeleteTimelineEntry(i)
       \/ DeleteReaderPerspective(i) \/ DeleteChapter(i)
=============================================================================
