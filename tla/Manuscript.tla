----------------------------- MODULE Manuscript -----------------------------
(***************************************************************************)
(* One novel from its creation or import to its deletion: its row, its     *)
(* directory, its chapter rows and chapter files (src/app/novel.go,        *)
(* chapter.go, content.go, src/internal/chapter, git/rw.go, import).       *)
(* Three hands write at once: the agent's edit tool, which waits for the   *)
(* user between reading and writing, the user's editor, and the user's     *)
(* chapter list.  A text is a sequence of lines and its word count their   *)
(* number.  Nobody opens a novel whose import dialog is still up.          *)
(***************************************************************************)
EXTENDS ImportText

CONSTANTS
  Files,       \* texts that may be imported: sequences of Line
  Spines,      \* EPUBs: sequences of [read : BOOLEAN, lines : Seq(Nat)]
  MaxChapter,  \* bound: chapter numbers
  Written,     \* bound: the chapters that are made and edited
  Contents,    \* texts the tool and the user write
  MinWords, MaxWords, \* the bounds of the word count check
  Continued,   \* bound: the imported files that are worked on afterwards
  MaxLogged    \* bound: words in the writing log

Chapters == 1 .. MaxChapter
NoFile   == <<-1>>
NoRow    == -1

ASSUME ManuscriptConstants ==
  /\ \A f \in Files : f \in Seq(Line)
  /\ \A s \in Spines : s \in Seq([read : BOOLEAN, lines : Seq(Nat)])
  /\ {MaxChapter, MinWords, MaxWords, MaxLogged} \subseteq Nat
  /\ Written \subseteq 1 .. MaxChapter
  /\ \A c \in Contents : c \in Seq(Nat)

VARIABLES
  listed,   \* the novel has its row
  repo,     \* and its directory
  file,     \* chapters/NNN.md
  row,      \* the word_count column of each chapter row
  logged,   \* the words of the positive entries of the writing log
  tool,     \* the edit tool
  editor,   \* the editor of the interface
  list,     \* the chapter and book lists of the interface
  imp,      \* the import, at rest until the novel is begun: no other gets its number
  uncounted,  \* history: chapters whose count is missed: two hands wrote at once, the update
              \* failed or found no row, a rollback or an import that failed left the file
  missed,   \* history: the words whose log entry could not be written
  imported  \* history: the words the import put in the rows

vars == <<listed, repo, file, row, logged, tool, editor, list, imp, uncounted, missed,
          imported>>

novel  == <<listed, repo, file, row>>
hands  == <<tool, editor, list>>
record == <<logged, missed, uncounted, imported>>

Words(t) == Len(t)
Rows     == {n \in Chapters : row[n] # NoRow}

\* The sum of the column, as the number of the words themselves.
WordsIn(column) == Cardinality(UNION {{n} \X (1 .. column[n]) : n \in Chapters})

AtRest    == [at |-> "rest"]
Empty     == [n \in Chapters |-> NoFile]
NoRows    == [n \in Chapters |-> NoRow]

\* The hands that are between the first and the last step of a change of chapter n.
Busy(h, n) == h.at \in {"written", "logged", "created", "removed"} /\ h.n = n

Init ==
  /\ listed = FALSE /\ repo = FALSE
  /\ file = Empty /\ row = NoRows /\ logged = 0
  /\ tool = AtRest /\ editor = AtRest /\ list = AtRest /\ imp = AtRest
  /\ uncounted = {} /\ missed = 0 /\ imported = 0

\* The novel is open in the interface.
Open == listed /\ imp.at = "closed"

\* git.WriteFile makes the directories it needs.
WriteFile(n, text) == file' = [file EXCEPT ![n] = text] /\ repo' = TRUE

\* The write of chapter n by one hand while `others` are at work.
Crossing(n, others) ==
  uncounted' = IF \E h \in others : Busy(h, n) THEN uncounted \cup {n} ELSE uncounted

-----------------------------------------------------------------------------
\* Creating and deleting the novel

\* CreateNovel: the row goes again when the repository cannot be made, what was made of
\* the directory stays.
CreateNovel ==
  /\ imp.at = "rest"
  /\ \/ listed' = TRUE /\ repo' = TRUE
     \/ repo' \in BOOLEAN /\ UNCHANGED listed
  /\ imp' = [at |-> "closed"]
  /\ UNCHANGED <<file, row, hands, record>>

\* DeleteNovel: the rows in one transaction, then the directory.
DeleteNovel ==
  /\ Open /\ list = AtRest
  /\ listed' = FALSE /\ row' = NoRows /\ logged' = 0 /\ missed' = 0 /\ imported' = 0
  /\ list' = [at |-> "unlisted"]
  /\ UNCHANGED <<repo, file, tool, editor, imp, uncounted>>

RemoveDirectory ==
  /\ list.at = "unlisted"
  /\ \/ repo' = FALSE /\ file' = Empty
     \/ UNCHANGED <<repo, file>>
  /\ list' = AtRest
  /\ UNCHANGED <<listed, row, tool, editor, imp, record>>

-----------------------------------------------------------------------------
\* The chapter list

\* GetLatestNumber
LatestNumber == IF Rows = {} THEN 0 ELSE Max(Rows)

\* CreateChapter: the row, then an empty file, whatever stands there.
CreateRow ==
  /\ Open /\ list = AtRest
  /\ LatestNumber + 1 \in Written
  /\ row' = [row EXCEPT ![LatestNumber + 1] = 0]
  /\ list' = [at |-> "created", n |-> LatestNumber + 1]
  /\ Crossing(LatestNumber + 1, {tool, editor})
  /\ UNCHANGED <<listed, repo, file, logged, missed, imported, tool, editor, imp>>

CreateFile ==
  /\ list.at = "created"
  /\ \/ WriteFile(list.n, << >>) /\ Crossing(list.n, {tool, editor})
     \/ UNCHANGED <<file, repo, uncounted>>
  /\ list' = AtRest
  /\ UNCHANGED <<listed, row, logged, missed, imported, tool, editor, imp>>

\* DeleteChapter: the file, then the row.
DeleteFile ==
  /\ Open /\ list = AtRest
  /\ \E n \in Rows :
       /\ file' = [file EXCEPT ![n] = NoFile]
       /\ list' = [at |-> "removed", n |-> n]
       /\ Crossing(n, {tool, editor})
  /\ UNCHANGED <<listed, repo, row, logged, missed, imported, tool, editor, imp>>

DeleteRow ==
  /\ list.at = "removed"
  /\ \/ row' = [row EXCEPT ![list.n] = NoRow]
     \/ UNCHANGED row
  /\ list' = AtRest
  /\ UNCHANGED <<listed, repo, file, tool, editor, imp, record>>

-----------------------------------------------------------------------------
\* The statistics add up the positive entries of the log.
Gain(delta) == IF delta > 0 THEN delta ELSE 0

\* What the column says of the chapter of h, and what a text gains over a count.
OldCount(h)     == IF h.n \in Rows THEN row[h.n] ELSE 0
Delta(h, count) == Gain(Words(h.text) - count)

\* Seeded bugs.  The column is set only where words were added; and before the log, whose
\* difference is then none.
CountingGrowth(h, h2) ==
  \/ /\ h.at = "written"
     /\ logged' = logged + Delta(h, OldCount(h))
     /\ h2 = [h EXCEPT !.at = "logged"]
     /\ UNCHANGED <<row, missed, uncounted>>
  \/ /\ h.at = "logged"
     /\ row' = IF h.n \in Rows /\ Words(h.text) > row[h.n]
               THEN [row EXCEPT ![h.n] = Words(h.text)] ELSE row
     /\ h2 = AtRest
     /\ UNCHANGED <<logged, missed, uncounted>>

CountingRowFirst(h, h2) ==
  \/ /\ h.at = "written"
     /\ row' = IF h.n \in Rows THEN [row EXCEPT ![h.n] = Words(h.text)] ELSE row
     /\ h2 = [h EXCEPT !.at = "logged"]
     /\ UNCHANGED <<logged, missed, uncounted>>
  \/ /\ h.at = "logged"
     /\ logged' = logged + Delta(h, OldCount(h))
     /\ h2 = AtRest
     /\ UNCHANGED <<row, missed, uncounted>>

\* Counting a chapter that was written, by the tool or the editor: the difference to the
\* old count is logged, then the column set.  A turn may be cancelled meanwhile and every
\* statement may fail, unseen: an old count that cannot be read is 0.  h is the hand, h2
\* it afterwards.
Counting(h, h2) ==
  \/ /\ h.at = "written"
     /\ \/ \E old \in {OldCount(h), 0} : logged' = logged + Delta(h, old) /\ UNCHANGED missed
        \/ missed' = missed + Delta(h, OldCount(h)) /\ UNCHANGED logged
     /\ h2 = [h EXCEPT !.at = "logged"]
     /\ UNCHANGED <<row, uncounted>>
  \/ /\ h.at = "logged"
     /\ \/ h.n \in Rows /\ row' = [row EXCEPT ![h.n] = Words(h.text)] /\ UNCHANGED uncounted
        \/ uncounted' = uncounted \cup {h.n} /\ UNCHANGED row
     /\ h2 = AtRest
     /\ UNCHANGED <<logged, missed>>

\* SaveContent of a chapter that was open in the editor: it may have been deleted.
Type ==
  /\ Open /\ editor = AtRest
  /\ \E n \in Rows, c \in Contents : editor' = [at |-> "typed", n |-> n, text |-> c]
  /\ UNCHANGED <<novel, record, tool, list, imp>>

SaveContent ==
  /\ editor.at = "typed" /\ logged + missed + Words(editor.text) <= MaxLogged
  /\ \/ /\ WriteFile(editor.n, editor.text) /\ Crossing(editor.n, {tool, list})
        /\ editor' = [editor EXCEPT !.at = "written"]
     \/ editor' = AtRest /\ UNCHANGED <<file, repo, uncounted>>
  /\ UNCHANGED <<listed, row, logged, missed, imported, tool, list, imp>>

CountSaved ==
  /\ Counting(editor, editor')
  /\ UNCHANGED <<listed, repo, file, imported, tool, list, imp>>

-----------------------------------------------------------------------------
\* The edit tool: a chapter, or an outline, which may be there already.  `exists` is
\* what it saw when it read.

\* A file that is not there reads as empty.
Current(n) == IF file[n] = NoFile THEN << >> ELSE file[n]

\* What would change nothing asks nobody.
Propose ==
  /\ Open /\ tool = AtRest
  /\ \E n \in Written :
       \/ \E c \in Contents \ {Current(n)} :
            tool' = [at |-> "waiting", kind |-> "chapter", n |-> n, text |-> c,
                     exists |-> file[n] # NoFile, current |-> Current(n)]
       \/ \E exists \in BOOLEAN :
            tool' = [at |-> "waiting", kind |-> "outline", n |-> n, text |-> << >>,
                     exists |-> exists, current |-> << >>]
  /\ UNCHANGED <<novel, record, editor, list, imp>>

Reject ==
  /\ tool.at = "waiting"
  /\ tool' = AtRest
  /\ UNCHANGED <<novel, record, editor, list, imp>>

\* Step 6, after the approval: a file that was not there gets its chapter row, an
\* outline too.
KeepRow ==
  /\ tool.at = "waiting"
  /\ row' = IF ~ tool.exists /\ tool.n \notin Rows THEN [row EXCEPT ![tool.n] = 0] ELSE row
  /\ tool' = [tool EXCEPT !.at = "checked"]
  /\ UNCHANGED <<listed, repo, file, editor, list, imp, record>>

\* Steps 7 and 8: a file that reads differently now is refused, a file that is gone is
\* written again.
WriteChapter ==
  /\ tool.at = "checked" /\ tool.kind = "chapter"
  /\ logged + missed + Words(tool.text) <= MaxLogged
  /\ \/ /\ file[tool.n] \in {NoFile, tool.current}
        /\ WriteFile(tool.n, tool.text) /\ Crossing(tool.n, {editor, list})
        /\ tool' = [at |-> "written", n |-> tool.n, text |-> tool.text]
     \/ tool' = AtRest /\ UNCHANGED <<file, repo, uncounted>>
  /\ UNCHANGED <<listed, row, logged, missed, imported, editor, list, imp>>

WriteOutline ==
  /\ tool.at = "checked" /\ tool.kind = "outline"
  /\ repo' = TRUE
  /\ tool' = AtRest
  /\ UNCHANGED <<listed, file, row, editor, list, imp, record>>

CountEdited ==
  /\ Counting(tool, tool')
  /\ UNCHANGED <<listed, repo, file, imported, editor, list, imp>>

\* RollbackBeforeTurn: a chapter reads again as before a turn, and its row goes if the
\* turn made it.  The update of the column is not in the operation log and stays.
RollBack ==
  /\ Open
  /\ \E n \in Written, text \in Contents \cup {NoFile} :
       /\ file' = [file EXCEPT ![n] = text]
       /\ row' \in {row, [row EXCEPT ![n] = NoRow]}
       /\ uncounted' = uncounted \cup {n}
  /\ UNCHANGED <<listed, repo, logged, missed, imported, hands, imp>>

\* GetChapterList with a chapter number: the row's count against the bounds.
WordCountOk(n) == row[n] \in MinWords .. MaxWords

-----------------------------------------------------------------------------
\* Import

\* Import: nothing is made of a file that does not parse or needs the model's help.
Parse ==
  /\ imp.at = "rest"
  /\ \/ \E f \in Files :
          /\ ParseTxt(f).ok /\ Len(ParseTxt(f).chapters) <= MaxChapter
          /\ imp' = [at |-> "novel", source |-> "txt", of |-> f, chapters |-> ParseTxt(f).chapters]
     \/ \E s \in Spines :
          /\ ParseEpub(s).ok
          /\ imp' = [at |-> "novel", source |-> "epub", of |-> s, chapters |-> ParseEpub(s).chapters]
  /\ UNCHANGED <<novel, record, hands>>

\* ImportWithLLM, offered after that: with the pattern the model made from the first lines.
AnalyzeWithLLM ==
  /\ imp.at = "rest"
  /\ \E f \in {g \in Files : ParseTxt(g).llm} : \E found \in SUBSET DOMAIN f :
       LET r == ParseWithPattern(f, found)
       IN /\ r.ok /\ Len(r.chapters) <= MaxChapter
          /\ imp' = [at |-> "novel", source |-> "txt", of |-> f, chapters |-> r.chapters]
  /\ UNCHANGED <<novel, record, hands>>

InsertNovel ==
  /\ imp.at = "novel"
  /\ \/ listed' = TRUE /\ imp' = [imp EXCEPT !.at = "repo"]
     \/ imp' = [imp EXCEPT !.at = "failed"] /\ UNCHANGED listed
  /\ UNCHANGED <<repo, file, row, record, hands>>

\* Mutant: only the row goes.
CleanupImportRow == listed' = FALSE /\ imp' = [imp EXCEPT !.at = "failed"] /\ UNCHANGED <<repo, file>>

\* cleanupImport: the directory, then the novel's row.  Either may fail, and a directory
\* that cannot go may have lost files: what is left stays.
CleanupImport ==
  \/ /\ repo' = FALSE /\ file' = Empty /\ listed' = FALSE
     /\ imp' = [imp EXCEPT !.at = "failed"]
  \/ /\ repo' \in {repo, FALSE} /\ listed' \in {listed, FALSE}
     /\ \E kept \in SUBSET Chapters :
          /\ repo' \/ kept = {}
          /\ file' = [n \in Chapters |-> IF n \in kept THEN file[n] ELSE NoFile]
     /\ imp' = [imp EXCEPT !.at = "left"]

\* The repository with its first files, then the chapters one by one, all of it staged.
MakeRepo ==
  /\ imp.at = "repo"
  /\ \/ repo' = TRUE /\ imp' = [imp EXCEPT !.at = "files"] /\ UNCHANGED <<listed, file>>
     \/ CleanupImport
  /\ UNCHANGED <<row, record, hands>>

WriteChapters ==
  /\ imp.at = "files"
  /\ \E next \in {n \in DOMAIN imp.chapters : file[n] = NoFile /\ \A m \in 1 .. n - 1 : file[m] # NoFile} :
       \/ WriteFile(next, imp.chapters[next]) /\ UNCHANGED <<listed, imp>>
       \/ CleanupImport
  /\ UNCHANGED <<row, record, hands>>

StageAll ==
  /\ imp.at = "files" /\ \A n \in DOMAIN imp.chapters : file[n] # NoFile
  /\ \/ imp' = [imp EXCEPT !.at = "rows"] /\ UNCHANGED <<listed, repo, file>>
     \/ CleanupImport
  /\ UNCHANGED <<row, record, hands>>

\* All chapter rows with their counts in one transaction; a commit that fails changes
\* nothing of what is here.
InsertChapters ==
  /\ imp.at = "rows"
  /\ \/ /\ row' = [n \in Chapters |->
                     IF n \in DOMAIN imp.chapters THEN Words(imp.chapters[n]) ELSE NoRow]
        /\ imported' = WordsIn(row')
        /\ imp' = [imp EXCEPT !.at = "done"]
        /\ UNCHANGED <<listed, repo, file>>
     \/ CleanupImport /\ UNCHANGED <<row, imported>>
  /\ UNCHANGED <<logged, missed, uncounted, hands>>

\* The dialog goes.
Dismissed == [at |-> IF imp.at = "failed" \/ imp.of \in Continued THEN "closed" ELSE "kept"]

\* The files an import that did not end well left without a row.
Rowless == {n \in Chapters \ Rows : file[n] # NoFile}

CloseImport ==
  /\ imp.at \in {"done", "failed", "left"}
  /\ imp' = Dismissed
  /\ uncounted' = uncounted \cup Rowless
  /\ UNCHANGED <<novel, logged, missed, imported, hands>>

-----------------------------------------------------------------------------
\* The process ends at any point and is started again.
Crash ==
  /\ tool' = AtRest /\ editor' = AtRest /\ list' = AtRest
  /\ imp' = IF imp.at \in {"rest", "kept", "closed"} THEN imp ELSE Dismissed
  /\ uncounted' = uncounted \cup {n \in Chapters : \E h \in {tool, editor, list} : Busy(h, n)}
                        \cup IF imp.at = "closed" THEN {} ELSE Rowless
  /\ UNCHANGED <<novel, logged, missed, imported>>

Next ==
  \/ CreateNovel \/ DeleteNovel \/ RemoveDirectory
  \/ CreateRow \/ CreateFile \/ DeleteFile \/ DeleteRow
  \/ Type \/ SaveContent \/ CountSaved
  \/ Propose \/ Reject \/ KeepRow \/ WriteChapter \/ WriteOutline \/ CountEdited \/ RollBack
  \/ Parse \/ AnalyzeWithLLM \/ InsertNovel \/ MakeRepo \/ WriteChapters \/ StageAll \/ InsertChapters
  \/ CloseImport
  \/ Crash

Spec == Init /\ [][Next]_vars

-----------------------------------------------------------------------------
\* Properties

\* The word count check reads the chapter's column and never its text.  It still says
\* what the text says, once no hand is at work on the chapter: through saves, edits
\* that wait, are rejected or refused, deletions, placeholders of outlines and imports.
\* Not so for a chapter in `uncounted`: two hands wrote it at once or the process ended
\* within a change, the update of the column failed, unseen, or found no row, a rollback
\* put its file back, or a broken-off import left it
\* (src/internal/mcp_tools/novel_tools.go:84, rw_tools.go:189, src/app/content.go:67).
CountCheckTrue ==
  Open => \A n \in Rows \ uncounted :
    (file[n] # NoFile /\ ~ \E h \in {tool, editor, list} : Busy(h, n))
      => (WordCountOk(n) <=> Words(file[n]) \in MinWords .. MaxWords)

\* The words written that the statistics show, the sum of what the log added, are never
\* less than the words the chapters hold without the imported ones and those whose entry
\* failed, however the counts of two hands interleave, whichever other statement fails
\* and wherever the process ends
\* (src/internal/writing/store.go:66, src/app/content.go:74).
ProgressCovers == listed => WordsIn(row) <= logged + missed + imported

\* The chapters made of a text hold every line from the first heading on, each once and
\* in order but for blank lines at their ends.
LinesKept(of, chapters) ==
  LET Has(n, i) == i \in ToSet(chapters[n])
  IN /\ \A n \in DOMAIN chapters : \A k \in 1 .. Len(chapters[n]) - 1 :
          chapters[n][k] < chapters[n][k + 1]
     /\ \A m, n \in DOMAIN chapters : m < n =>
          \A i \in ToSet(chapters[m]), j \in ToSet(chapters[n]) : i < j
     /\ \A i \in DOMAIN of :
          (~ of[i].blank /\ \E n \in DOMAIN chapters, j \in 1 .. i : Has(n, j))
            => \E n \in DOMAIN chapters : Has(n, i)

\* An import that is over has made the whole novel or nothing: when it is done, the
\* chapters numbered from 1 hold every line from the first heading on, each has its row
\* with its count, and of an EPUB every item is a chapter or reported as skipped; when
\* it failed, neither row nor directory is left, unless its own clean-up failed too, of
\* which the log alone tells: then no chapter has a row, and a chapter's file that is
\* left has its text (src/internal/import/import.go:70, :181, txt.go:84, epub.go:91).
ImportWhole ==
  /\ imp.at = "done" =>
       /\ listed /\ repo
       /\ \A n \in Chapters :
            IF n \in DOMAIN imp.chapters
            THEN file[n] = imp.chapters[n] /\ row[n] = Words(file[n])
            ELSE file[n] = NoFile /\ row[n] = NoRow
       /\ imp.source = "txt" => LinesKept(imp.of, imp.chapters)
       /\ imp.source = "epub" => Len(imp.chapters) + Cardinality(Skipped(imp.of)) = Len(imp.of)
  /\ imp.at = "failed" => ~ listed /\ ~ repo /\ file = Empty /\ row = NoRows
  /\ imp.at = "left" =>
       /\ row = NoRows
       /\ \A n \in Chapters : file[n] # NoFile => n \in DOMAIN imp.chapters /\ file[n] = imp.chapters[n]
=============================================================================
