# A TLA+ model of goink

goink is a desktop program in which a language model writes novels: a Go
backend (`src/app`, `src/internal`) runs an agent that reads and edits the
chapter files of a novel, keeps facts about characters, timelines and
foreshadowing in SQLite, keeps the text in a git repository per novel, and
indexes it in a vector store. This directory models the parts of it that are
hard to test: where several goroutines meet, where something must survive a
restart, where a long conversation drives a small state machine, where several
tables or several tools have to agree on a chapter number.

The modules are translated from the Go source. `PROJECT.json` maps the
definitions to the lines they stand for, every property to the hazard it watches,
and to a plausible mistake in the code that breaks it. (Operators that take an
operator, such as `Edit` of `OperationLog`, and variables have no entry of
their own: the definitions built of them have one.)

## Inventory

| Component | Source | State | Operations | What is hard |
|---|---|---|---|---|
| Phase gate | `internal/agent/phase_gate.go` | current phase, successful calls, last review report, open consistency errors, word count, visited phases, skills read per phase, mode | `OnToolCall`, `SetPhase`, `CheckToolAllowed`, `OnSkillInjected`, `ShouldAutoAdvance`, `SaveState`, `LoadState`, `ResetTo` | long sequences; two modes; what is saved and what is not; a killed process |
| Agent loop | `internal/agent/agent.go`, `interrupt.go`, `compress.go` | message buffers, pending tool outputs, retry counters | `Run`, `RunSubAgent`, `injectPhaseSkills`, `autoAdvancePhase`, `Compress` | stream errors and cancellation in the middle of an answer |
| LLM stream | `internal/llm/stream.go` | an event channel, an idle timer | `ChatStream`, `parseSSE` | who closes, who waits, what was sent already |
| Reviews | `internal/review`, `RunSubAgent` | records | `submit_review`, `ParseReport` | two conversations, two forms of a rating |
| Turns | `app/chat.go` | one goroutine per chat, compression or title | `chatImpl`, `CancelChat`, `DeleteSession`, `CompressContext`, `generateTitle` | overlap of operations on one session |
| Cancel manager | `internal/agent/cancel.go` | a cancel function and a shutdown channel per session | `Register`, `Unregister`, `Cancel`, `WaitForStop` | one entry, many owners; closing a channel twice |
| Session store | `internal/session/store.go` | rows of sessions, messages, turns | `NextTurn`, `UpdateSessionMeta`, `UpdateSessionUsage`, `SavePhaseGateState`, `DeleteSession` | read the row, save all of it |
| Rollback | `internal/rollback`, `internal/storage/operation_log.go`, `internal/git` | operation log, turn commits, git | `RollbackBeforeTurn`, the GORM hooks, `RollbackInTx`, `RevertNoCommit` | a commit in the database and one in git, crashes between them |
| Domain stores | `internal/chapter`, `character`, `location`, `timeline`, `storyarc`, `item`, `lore`, `scene`, ... with the tools of `internal/mcp_tools` and the views of `app` | 17 tables | create, update, delete, by the agent's tools and by the interface | a row is read, judged and written in separate statements |
| Consistency checks | `internal/mcp_tools/appearance_tools.go`, `timeline_tools.go`, `storyarc_tools.go` | none: they read | the 12 checks, appearances, the windows shown to the model | ids and chapter numbers; lags, tolerances, limits |
| Edit tool | `internal/mcp_tools/rw_tools.go` | a file | `ReadTool`, `EditTool` with four ways to change a text | what was approved against what is in the file; fuzzy search |
| Approval service | `internal/approval/approval.go` | a channel per tool-call id, the mode | `RequestApproval`, `Complete`, `SetMode` | answer, cancellation and clean-up meet at one entry |
| Novels and chapters | `app/novel.go`, `chapter.go`, `content.go`, `internal/writing` | rows, files, word counts, writing log | create, delete, save, count | three hands, row and file apart |
| Import | `internal/import` | a novel half made | `Import`, `ParseTXT`, `ParseEPUB`, `AnalyzeWithLLM`, `cleanupImport` | a failure at every step; what counts as a heading |
| Pattern extraction | `internal/pattern/extract.go` | saved summaries, blocks of a round | `Extract` | rounds that must end; cancellation between saves |
| Refresh queue | `internal/rag/refresh_queue.go` | channel, pending map, timer, rebuild | `Submit`, `consumer`, `refreshRetry`, `Stop`, `RebuildNovel` | debounce; a consumer that feeds its own channel |
| Chunks and search | `internal/rag/splitter.go`, `vector_store.go`, `internal/search` | chunks per chapter, a cache of texts | `SplitText`, `BuildChapterChunks`, `Search` | positions, overlaps, two searches merged |
| Backup, prompts and skills, export, api server, websocket, webdav, cache probe, settings, frontend | | | | not modelled, see below |

How they interact: a chat loads the session row, cancels whoever is registered
for the session, registers itself, commits the user's own edits to git and calls
the agent's `Run`. `Run` owns one phase gate, loaded from the row and saved to it
in a deferred function. It asks the model and performs each call as it comes out
of the stream; before each the loop asks the gate, after it it tells the gate the
result. A tool reads and writes the tables, where the GORM hooks log what changed
under the session and turn of the context. The edit tool waits in the approval
service for the user, writes the chapter file, counts its words and submits it to
the refresh queue, whose consumer cuts the text into chunks and replaces those of the
chapter in the vector store. The consistency checks read tables and files; what they
report goes back into the gate. The user can stop, delete, compress, save a
chapter, answer a proposal, switch modes, edit a table and rebuild the index at any of
these moments.

What makes each modelled component correct:

- **Phase gate.** A phase is left only for work really done in it; errors found
  keep it closed; nothing carried over from another phase, chapter or Run opens
  it; a move stays within the round.
- **Agent loop.** No call is taken twice; every call has its result in the
  conversation before the model is asked again, whatever broke; what was
  streamed is kept; a Run ends.
- **Turns.** No channel is closed twice (a panic); a running operation can be
  stopped; a deleted session stays deleted; every wait ends.
- **Rollback and tables.** A rolled back turn is undone in files and rows alike or
  in neither; no uncommitted text is lost; references keep their ends and what is final
  stays so, unless two hands crossed or the interface, which looks less closely, did it.
- **Checks.** What is reported is so, what is so is reported, and no plan slips
  between two checks or is hidden from the windows, but for the cases named below.
- **Manuscript.** The word count that is checked is that of the file, where its update was
  made; an import is whole or gone, where its clean-up works.
- **Edits and index.** An edit changes what it names; every number shown is that
  of the line; every text can be found.
- **Refresh queue.** Once quiet, a chapter's chunks are those of its file,
  once; the consumer does not deadlock with itself; `Stop` returns.
- **Approval.** An answer reaches whom it is for; what is written was approved and
  does not overwrite what the tool has not seen; a cancelled request wakes.
- **Pattern extraction.** Rounds end, the last call fits a window that is large enough, no summary
  is replaced that the extraction could have seen.

## Modules

| Module | What it models | Checked by | Proofs |
|---|---|---|---|
| `PhaseGate` | the gate of one session as the loop drives it, over any number of Runs, with crashes and mode switches | `MCPhaseGate` | `Session_proofs` |
| `Turns` | chats, compressions, title goroutine, cancellation and deletion of one session | `MCTurns` | `Session_proofs` |
| `Dialogue` | abstract: what a Run promises the conversation | by refinement | `AgentLoop_proofs` |
| `Stream`, `AgentLoop` | one streamed answer; one Run around it | `MCAgentLoop` | `AgentLoop_proofs` |
| `Review` | a review as a record and a verdict | `MCReview` | |
| `Rollback` | session row, turn commits, git, `RollbackBeforeTurn`, crashes | `MCRollback` | `Rollback_proofs` |
| `OperationLog` | tables, hooks, log, `RollbackInTx` | `MCStory` | `Story_proofs` |
| `Characters`, `Places`, `Threads`, `Items`, `Ledger`, `Notes` | the operations of the tools and of the interface on 17 tables | `MCStory` | `Story_proofs` |
| `Story` | the composition of those six over one log | `MCStory` | `Story_proofs` |
| `Checks`, `Windows` | the consistency checks, appearances, and the windows on threads and arcs | `MCChecks` | `Readers_proofs` |
| `Edits` | the text operations of read and edit | `MCEdits` | |
| `Chunks` | how the text `Edits` changes is cut into chunks and searched | `MCEdits` | |
| `ImportText` | pure: how a text or an EPUB becomes chapters | `MCManuscript` | |
| `Manuscript` | one novel under edit tool, editor, chapter list, import and crashes | `MCManuscript` | `Manuscript_proofs` |
| `Pattern` | `Extract` on one novel | `MCPattern` | `Readers_proofs` |
| `RefreshQueue` | writers, consumer, rebuild and shutdown for one novel | `MCRefreshQueue` | `RefreshQueue_proofs` |
| `Approval` | edits of one file, the approval service and the user | `MCApproval` | `Approval_proofs` |

### PhaseGate

State and code: `mode`, `phase`, `visited`, `reads`, `roundDone` are the fields
of `PhaseGate`; `ok` is the set of tools whose `successfulTools` count is
positive; `rejected` abstracts `lastToolResults["run_subagent"]` to whether
`reviewVerdictRe` reads a failing verdict off it; `errs` is `consistencyErrors`;
`counted` is `wordCountOK` being set and true. `saved` and `savedMode` are the
columns of the session row. `hist` is a history variable: what really happened
in the current phase, which the gate's bookkeeping has to agree with.

Actions: one for each kind of tool call as `Run` treats it (refused, plain,
`get_chapter_list`, `check_story_consistency`, `run_subagent`, a skill read by
the model, a failing one), `SetPhase` with the second attempt after an
injection, `SetPhaseStay` (the batch chapter boundary), `AutoAdvance`,
`StartRun`, `EndRun` with the deferred save, `Crash` without it, and
`SetPhaseMode`. The parsed configuration is the constant `Config`, so that the
theorems hold for every configuration a user can write. A wildcard skill entry
is the set of skills it matches.

### Dialogue, Stream, AgentLoop, Review

`Dialogue` is the promise of a Run, in four actions: ask, take a call, tell the
results of all that was taken, end. `AgentLoop` is the loop of `agent.go` and `Stream` the goroutine of
`ChatStream` behind it: an event channel of bounded capacity, texts sent as they come, calls
collected until the lines end or break and sent after that, an idle timer, errors that may or may not be
retried, a channel that is closed last. The loop reads events one by one and
performs a call when it arrives, while others are still to come, so that a cancellation
finds some calls done and others not; that a failure never does is proved below. Its actions are the branches of the
code's `select` and what follows the stream: `Retry` with its wait (`Wake`),
`FailWithPartial`, `Interrupt` with `flushInterruptedTools`, the answer that is stored
and the reminders behind it, the end by `MaxTurns`. Compression is one step between
two requests: `RetainMessages` chooses a cut among the messages of role user, which
the reminders have too. `RefinesDialogue` maps `pc` to the abstract state; `taken` and
`told` are histories that both modules share by name.

`Review` follows a rating from `submit_review` through `RunSubAgent` to the record and
the report the gate reads.

### Turns

One action per critical section of the cancel manager and per database
statement or transaction (the pool has one connection), in the order of
`chatImpl` and `CompressContext`. `cancels` and `done` hold whose cancel
function and channel the manager has; `closed` and `cancelled` what has
happened to them. The title goroutine and `UpdateSessionUsage` read the whole
row and save it later, which inserts a row that is gone. Messages, commits and
turns of an operation are one flag (`rows`).

### Rollback

The row's `last_turn_id` with the title goroutine's old copy of it (`snap`), the log
reduced to which turns have records, `turn_commits`, and git as head, index, working
tree and commits, a file being one hunk. A turn is taken apart into
`NextTurn`, the commit of the user's edits, its record, the prompt, the agent's texts,
the commit at the end and its record. `RollbackBeforeTurn` is a step for
each git command and transaction (`RbList`, `RbRevert` for each commit, newest first, `RbCommitDB`,
`RbCommitGit`, and the two failures with `Abort`). `Crash` may come between any two
steps; what is staged survives it. Nothing in the code keeps a turn from running beside a
rollback, so nothing in the model does.

### OperationLog, the six table modules, Story

`OperationLog` has the tables as functions from row ids to rows, the sequence of the
records the GORM hooks made, and for each actor what it has read and means to write
(`op`). `Create`, `Save`, `Updates` and `DeleteWhere` are the statements, each with what
the hooks can see of it; a statement of the user is credited to the turn of the last
record of the same row. `RollbackInTx` goes through the log from the newest record to the
oldest (`ReverseAll`, a recursive function) and reverses those of the turns, one at a time. `Characters`, `Places`, `Threads`, `Items`, `Ledger` and
`Notes` give each operation of the tools (in the tools' spelling, `update_character`) and of
the interface (`UpdateCharacter`): its look at the tables, its refusals, and its write as a step
of its own. `Story` composes them. A behaviour uses the tables of one part, since no
operation writes those of two. Each operation is as strict as its own code: the interface makes a
location under any parent and an arc's node under any arc, where the tools look first.

### Checks and Windows

`Checks` keeps chapters (ids that are never used again, numbers that are), scenes,
occurrences, people, items, threads, nodes, plans and texts, changed by the operations
that matter to the checks; the twelve checks of `check_story_consistency` are
operators over them, named as in the source, with their limits and the statuses each counts. A thread
or node may be given up, taken up again, moved or left without a target, and resolved in a
chapter that is not there, by whichever of tool and interface allows it. `Windows` adds the replies of
`get_timeline` and `get_story_arcs`, as sets of replies where a limit cuts rows of equal
rank.

### Edits and Chunks

`Edits` has a text, a call and its reply. The four ways to change a text and the four
layers of `search_replace` (exact but for newlines at the end, without the blanks around, quotes made
alike, a hint) are translated as functions on sequences of characters, and with them the map
back from what was compared to what is in the file, the hint of the nearest lines, the
two previews and `read`. `Chunks` cuts the same text as `SplitText` does, into
paragraphs, sentences and chunks with overlap and prefix, and models the search
in the cached text, the full text table and the merge of the two ranked lists.

### ImportText and Manuscript

`ImportText` is pure: the headings each pattern finds, the checks of their gaps and
lengths, the choice of a pattern, the pattern a model answers, the spine of an
EPUB. `Manuscript` holds one novel: its row, directory, files, rows with their word
counts and the writing log. The edit tool (`Propose`, `KeepRow`, `WriteChapter`,
`CountEdited`), the editor (`Type`, `SaveContent`, `CountSaved`) and the chapter list (`CreateRow`,
`CreateFile`, `DeleteFile`, `DeleteRow`) run at once. An import goes through
`Parse`, `InsertNovel`, `MakeRepo`, `WriteChapters`, `StageAll`, `InsertChapters`, each
of which may fail and lead to `CleanupImport`, which may fail itself. `Counting` is the count after an edit
or a save: three statements, none of whose failures anybody sees. `RollBack` is what a rollback does
to one chapter; `Rollback` has the protocol. `uncounted` and `missed` are histories of what a
failure, a crossing, a crash or a rollback left uncounted.

### Pattern

Chapters are their numbers of tokens. `PreAnalyzeBoundaries`, the summaries one by one, the
first round of blocks, the rounds of compression with their three exits, and the final
call; each call may succeed in several ways, fail or be cancelled. A new extraction begins where the
earlier one stands, since nobody waits for that, and `UpdateSummary` is everybody else who writes the summary
column. The window is chosen with each extraction.

### RefreshQueue

A text is the number of the save it came from; the index of a chapter is the
list of texts it holds chunks of, so that an old text and a double insertion can be
told apart. The consumer's `select` takes any ready branch; a refresh is taken
apart into its delete and its insert; `refreshRetry` goes through the channel.
`RebuildNovel` runs beside it. `hist.spoiled` collects the chapters met by
something the code does not claim to repair.

### Approval

One action per critical section of the service and per file access of the edit
tool; `Complete` sends outside the lock, so taking the channel and sending are two
actions. Ids may be shared. The program also lets the user save the file, cancel
the turn and switch to automatic at any moment.

## Runs

| Run | Shows | Distinct states |
|---|---|---|
| `gate_core` | what lets the gate leave a phase has really happened there; moves stay in the round | 426,252 |
| `turns_core` | manager and deletion under a chat and a compression; a deletion returns, cancelled operations end | 29,357 |
| `agent_core` | every call is answered, results keep their calls, text is kept, the Run implements `Dialogue` and ends | 1,205,776 |
| `rollback_core` | files and rows are taken back together, a failed rollback leaves nothing staged, no uncommitted text goes | 6,690,661 |
| `story_core` | logged turns are undone exactly; references, finals and the one relation that holds survive two sessions and the interface | 1,510,593 |
| `checks_core` | what is reported is so, what contradicts is reported; no plan slips between checks; windows and appearances agree with them, wherever no list is cut | 379,557 |
| `edits_core` | an edit changes what it names; numbers are true; the index holds the whole text, in order, and finds it | 332,505 |
| `manuscript_core` | the word count check reads the truth, the statistics cover every word, an import is whole or gone, with statements and clean-ups that fail | 5,969,773 |
| `pattern_core` | the final call fits, no summary is replaced that could have been seen, every extraction ends | 253,963 |
| `refresh_core` | the index catches up, the consumer and `Stop` never hang | 398,366 |
| `approval_core` | an answer can be given, consent, no blind overwrite, no hanging request | 269,568 |
| `review_rating` (violation) | a reviewer's own rating is never found | |

Many properties hold only up to a case that the code does not handle, and each names
that case in its formula. Without its exemption the run fails, with a behaviour of the code
as the counterexample.

- Gate: an error that only a Run that was killed had been told of (`ErrorsBlockExit`).
- Turns: a session two operations share (`SoloStoppable`); a deletion that meets a turn which has
  begun and is not yet registered, or company, or begins meanwhile, or outlasts the wait
  (`CleanDelete`).
- Queue: a failed statement, a submission that was lost or late, a refresh inside a rebuild
  (`SettledFresh`). What the code does in these cases is therefore modelled and not judged.
- Approval: a text saved between the last look and the write, and a last look that failed
  (`SeesWhatItReplaces`); equal ids (`ConsentedWrites`, `Answerable`).
- Rollback: an old copy of the session row that was saved (`FilesRestored`); company of a turn, or an
  abort that fails (both); a start that finds something staged (`NothingHalfUndone`),
  or what a crashed rollback to another turn has staged (`FilesRestored`). `FilesRestored` is judged where the
  transaction commits: a crash before that is followed, and judged by `EveryTextKept` alone.
- Tables: what two hands decided on at once (`EndsStand`, `FinalsStand`, `OneHolds`), what the
  interface writes without looking (`EndsStand`, `FinalsStand`), an edit of a relation
  (`EndsStand`, `OneHolds`), a row that a statement the hooks cannot see has touched
  (`LoggedTurnUndone`).
- Agent loop: the results of the one answer whose reminder a compression has cut at
  (`NoOrphanResults`). `TextStored` says that no text is lost, and nothing of text stored twice.
- Checks: a use of a lost item no later than the loss of another (`ContradictionsReported`); what
  is given up, has no target, is resolved in no chapter, or is cut from a list
  (`NothingUnwatched`); lists that are cut, scenes beyond the newest, targets set to zero
  (`WindowsAgree`).
- Edits: a search of blanks and newlines only, and the empty lines before an append
  (`EditsLocal`); the position of a chunk that begins in the middle of a paragraph behind a
  short one (`IndexTrue`).
- Manuscript: a chapter two hands wrote at once, or whose count failed, was cut short by the end of
  the process, was left behind by a rollback, or never was because its import broke off
  (`CountCheckTrue`); words whose log entry failed (`ProgressCovers`); a clean-up that failed
  (`ImportWhole`).
- Pattern extraction: a window too small for the final budget (`FinalFits`), a summary somebody
  else wrote after it was looked for (`SummariesKept`).

### The finding

`ReviewersRating`. `RunSubAgent` gives `Run` its options by value and looks for the
reviewer's `submit_review` in its own copy of the messages. The reviewer's rating is never there; one
that the main agent tried to submit, and was refused, is.

### Known divergences

Met while modelling; the models do what the code does.

- Gate. The last report of `run_subagent` stands for the review's verdict whichever
  agent wrote it, and is not saved (`phase_gate.go:210`, against `:340`).
  `fullConsistencyTypes` lists eleven of the twelve checks, so that a
  `dup_paragraph` error vanishes with a check of the eleven (`:223`); the tool's own
  description says eleven too. A move along `next` to a phase already visited ends the round, also
  after a step back (`:777`). The gate is saved when a Run returns (`agent.go:605`): an error of
  the consistency check that a killed Run was told of is forgotten, and the Run that resumes may
  leave the phase, as long as nobody checks again.
- Turns. `chatImpl` reads the session before it registers; a `DeleteSession` in
  between has nobody to wait for and rows are left (`chat.go:547`). A compression is
  let in beside a turn that is still ending (`chat.go:571`).
- Queue. The old chunks go before the new ones come, though
  `refresh_queue.go:193` promises that the index is never empty.
- Rollback. It also takes back the edits the user made before the turn, which
  are committed under it, and the title goroutine can give an old `last_turn_id` back,
  so that two turns share a number.
- Relations. `editRelation` looks at the relation and not at its characters: the edit of one
  whose character is gone makes a second one that points at nothing
  (`character_tools.go:400`). It edits retired relations too, and the copy holds again.
- Interface. `CreateLocation` and `UpdateLocation` check no parent (`location_view.go:34`,
  `:67`) and `CreateArcNode` no arc (`storyarc_view.go:125`), unlike the tools, so that a row may
  point at nothing. `UpdateTimelineEntry` resolves a thread in no chapter
  (`timeline_view.go:111`), which no check reports.
- Reviews of stories. A promise of a volume's last chapters is never reported as late: the
  check looks at the volume of the present chapter only, and that is the next one when the
  tolerance is over (`appearance_tools.go:726`). A promise is late one chapter earlier than the
  comment says (`:753`, against `:752`). The check of conflicting items takes one chapter, the latest loss of
  all items (`:522`), and misses a use between an item's own loss and that one, where its description has
  every use after a loss as a hard error (`:280`). The lists of the ledger check and of `scope_guard` end at 20
  and 10 rows (`:967`, `:1042`), and of a person's scenes only the newest 200 are looked at
  (`:104`). The update tools take a target of zero (`timeline_tools.go:274`,
  `storyarc_tools.go:457`): the row is irregular in the window and never overdue in the check. A death
  whose chapter was deleted no longer contradicts anything. A promise that is told in
  key events counts in three chapters only. Appearances are cut at their limit before
  they are sorted (`appearance_tools.go:144`, unlike `:40`). The ledger check
  compares an id with numbers that may be used again. `get_story_arcs` shows a pending node of the
  past twice, and `scope_guard` warns of nodes of completed arcs that no window shows.
- Edits. An empty search is refused (`rw_tools.go:308`), one of newlines only is not: nothing is left of it
  (`:337`), and it is found at the front, or with `replace_all` between all characters; one of
  blanks that the file does not hold ends the same way (`:349`). An append drops the empty lines at the
  end of the file (`:301`), though its description says that what is there is not altered (`:571`).
  `replace_all` with quotes that differ replaces one variant only
  (`rw_tools.go:365`). `read` takes `end_line` 0 for 2000 lines, not for all (`:603`, `:645`), and
  panics on an end more than one before its start. The reread before a write
  does not notice that the chapter was deleted. The chapter's title and row change before the
  write may be refused.
- Chunks. `StartRunePos` decreases, and can be negative, behind a short sentence before one larger than a chunk
  (`splitter.go:91`, `:117`; `splitter_test.go:28` to `:36` expects neither, on a text where it does not happen). A sentence is never cut and
  a chunk may be larger than the embedder takes (`splitter.go:10`). The trigram table
  matches no word of two characters (`vector_store.go:39`). The merge takes a summary, a brief and
  the first chunk for one (`service.go:254`). The cache of texts is read while
  others write to it (`service.go:164`) and is never emptied.
- Manuscript. Outlines make chapter rows without files, which an export then
  fails on. A chapter made again blanks a file left behind. An import of a text drops what stands before
  its first heading. A crash during an import leaves a novel without chapters. Deleting
  a novel beside a waiting edit makes its directory again. The writing log is given a
  number here and an id there. The count after an edit runs on the turn's context, which may be
  cancelled, and ignores errors (`rw_tools.go:202` to `:219`): the new text then has the old count. A
  rollback puts a chapter's file back and leaves its count, since the hooks cannot log an update without a
  primary key (`operation_log.go:273`). The clean-up of an import runs on the import's own context, and
  what fails in it is only logged (`import.go:181`): a novel without chapters stays.
- Pattern extraction. The budget of the last call is a fixed 80,000 (`extract.go:28`), where
  `pattern/DESIGN.md:30` to `:43` has one that depends on the window: with a small window
  the last call may not fit. Two of the three ways out of the rounds pass on up to four fifths of the
  window (`:191`, `:200`), where `DESIGN.md:176` and `:182` promise about 80,000. Summaries are
  looked for once (`:57`) and saved later whatever the column holds by then (`:347`): what
  `update_chapter_meta` wrote meanwhile is lost. Boundary hints never extend a batch (`extract.go:604`, `:631`, against
  `DESIGN.md:108`); a failed batch ends the extraction, which `DESIGN.md` says is
  skipped.

### Bounds, and why they are enough

- `gate_core`: four phases of the shape of the default configuration (one with
  the batch loop, one with a required skill, one terminal), one tool for each
  role a tool can play in the gate, one skill, two file classes, one error of a
  type in `fullConsistencyTypes`, two modes. Runs, crashes and rounds are not
  bounded: the state space is finite. `done` leads nowhere, so that a round wraps only after a step back; the
  theorem covers the rest. A second error or skill adds only
  permutations, as all of them are used through set inclusion.
- `turns_core`: a chat and a compression, each of which begins once, are two operations
  on one session, each of which can overwrite the entry of the other; the theorems cover any number.
- `agent_core`: two requests before `MaxTurns`, two calls, two failures and two compressions, a channel of
  two events: a call can be in the channel, taken or cut while the other is elsewhere,
  and a cut can fall between an answer and its results. Three calls, and three requests, were
  checked apart and showed nothing else.
- `rollback_core`: one session, two turns, two chapters and up to two texts, three
  commits: a turn can have changed both files of which a later one changed one, and
  a rollback can meet what a crashed one to another turn has staged. Two sessions with
  one text less were checked apart.
- `story_core`: two sessions (symmetric) and the interface, two writing operations in each
  part, three among the characters, beyond rows chosen so that every refusal and every final
  state is near (`MCBeginning`), two turns. Three are what it takes to relate a character,
  to have it deleted meanwhile and to edit that relation. Each other part was also checked alone with three.
- `checks_core`: three chapters at first and three changes, so that a number can be
  deleted and used again; every limit is one row, or two, so that each list is cut and not cut; windows and lags of one or two chapters, which puts all their
  boundaries within the four numbers. One plan has two volumes, so that a promise can become
  late in the volume after its own. Four changes were checked apart.
- `edits_core`: every text of up to four characters over two letters of which one ends a
  sentence, a blank, a newline and two quotes; searches up to three. The four layers each match
  something the layers before do not, and a search may be of newlines or blanks only. Chunks of one to three tokens with overlaps of up
  to two make every boundary case of the splitter.
- `manuscript_core`: five texts and an EPUB for the branches of the import, two
  chapters that are worked on, texts of nothing or one line, at most two words in the log, which is
  what it takes to write a chapter, blank it and write it again. Of the imports, those of the EPUB are
  worked on afterwards, also where their clean-up failed.
- `pattern_core`: three chapters, one of them without text, two extractions that may overlap,
  two windows, of which one is too small for the final budget, one chapter others write during an extraction,
  answers that shrink, grow or are blank.
- `refresh_core`: `MaxSaves` 2 over two chapters gives two saves of one chapter,
  in either order of submission, or one of each; `Capacity` 1 makes the full channel the normal
  case (256 in the code); `MaxRetries` 2 is the code's value; one rebuild.
- `approval_core`: two edits with the same or different ids, two texts of the user. The number
  of answers, mode switches and saves is not bounded.

Deadlock checking is off where the modelled operations end or their bounds are used
up: a session that is deleted, a queue that has stopped, a Run that has returned.

### Fairness

- `Turns`: weak fairness of each operation's own steps (goroutines run, the
  database answers), of the end of a turn *once its context is cancelled*
  (the stream, the tools and the approval wait watch it), and of
  `DeleteSession`, whose wait has a timer. No turn is assumed to end by itself,
  no user to do anything.
- `AgentLoop`: weak fairness of the loop and of the stream's goroutine: the loop is one
  goroutine, and `parseSSE` gives a silent connection up after
  `streamIdleTimeout`. None for cancellation; failures are bounded by `MaxFaults`, as
  nothing in the code bounds them.
- `Pattern`: weak fairness of the extraction, whose calls end by the same timer; a stream that keeps
  trickling, which has no limit of its own, is assumed to end. Nobody has to start an extraction, and
  the number of those that overtake one is bounded.
- `RefreshQueue`: weak fairness of the consumer as a whole. That is one goroutine
  and its timer; which ready branch `select` takes is left open, so `Stop`
  returning does not rest on the order of the branches. Writers are finite in
  number of saves.
- `Approval`: weak fairness of each edit's own steps and of the send in `Complete`. None for
  the user.

The other modules state safety only.

## Proofs

There are eight modules of proofs. `Session_proofs` begins with the gate; it proves with TLAPS,
for every configuration that satisfies `ConfigAssumption`:

- `TypeCorrect`: `Spec => []TypeOK`;
- `GateSound`: `Spec => []GateInv`;
- `RequireDischargedHolds`, `ErrorsBlockExitHolds`,
  `CountedBeforeLeavingWriteHolds`: three action properties of `gate_core` of the same
  names, and `ChapterSettledHolds`: a batch chapter is declared only when the one
  before was settled.

`ConfigAssumption` says that the configuration names phases and tools that exist,
contains `prepare`, `write` and `done` (the code's own literals), that the tools the code treats
specially exist, and how `isMutatingTool` classifies five of them.

The argument: an exit is allowed by what the gate believes (`ok`, `errs`,
`counted`); the property speaks of what happened (`hist`). `GateInv` says that
belief is backed by what happened: tools counted as successful were successful,
errors of a known type still open are still in the set or were lost with a killed Run (`lost`), a
word count believed in `write` was taken in `write`. That alone is not inductive: a Run begins with
whatever the session row holds, and after a crash that is the row of an earlier
Run. So `GateInv` says the same of the row and of the history saved with it, and
`EndRun`, `Crash` and `StartRun` carry the fact from one to the other. The history of errors is not
set back with the row: what a killed Run was told of has happened all the same, and `Crash` adds to
`lost` what the row does not know. One lemma
per action shows that it preserves each conjunct; the properties then follow
from `GateInv` and the guards of `SetPhase`, `AutoAdvance` and `SetPhaseStay`.

`JumpsStayInRoundHolds` has an invariant of its own, `VisitedBacked`: the phases the
gate lets a Run go back to, and those the row will let a later Run go back to, are
phases of this round. It needs `ShippedShape`, which the shipped configuration satisfies
(`app/default_phase_gate_config.go`) and so does the one of `gate_core`: the first phase
is `prepare` and no phase leads on to it. Without it the property is false. If
`done` led on to `prepare`, going on from a `done` that was reached by a step back would
keep the phases of the round before: `SetPhase` takes the move for one within the round
(`phase_gate.go:775`). And with another first phase a row without a phase would count that one
as visited.

Then it proves the invariants of `turns_core` for any number of chats
and compressions; all it assumes is that the two kinds of operation are told
apart. `NoDoubleClose` needs `OwnedRegistrations` (a channel in the map is of an
operation still open) and that closed channels are of operations that do not
register again (`ClosedBegun`). `SoloStoppable` needs that an operation counted
as solo really is the only active one (`SoloAlone`): otherwise the end of another
would drop its entry. `CleanDelete` speaks of a state reached after the deletion, so
the invariant follows its stages (`CleanStages`): while it waits, every active
operation is alone and its channel is the one waited for; a closed channel is of
an operation that has ended; and nobody is left to save a row it read
earlier (`SnapLooping`, `TitleOnce`).

`Approval_proofs` proves all the safety properties of `approval_core` for any
number of edits, ids and texts. The core is `OnePlace`: the answer to a call is either
still to be given, or on its way, or in the channel, and it is nowhere before the
call has asked. From it follow that an answer finds room (`AnswersFit`), that nothing stays
registered (`NoLeftovers`) and, with ids of their own, that an answer reaches the call it was
given for (`Consented`).

`AgentLoop_proofs` proves, for any number of requests, calls, failures, retries and
compressions and any capacity of the channel, the safety properties of `agent_core` and the
refinement.
- `LoopInvariant`. Ids grow along one line: the calls taken, then those in the channel,
  then those the goroutine still holds (`InLine`), so none is taken twice. Once a call is
  on its way no error can follow it (`CallsLast`): that is why `FailWithPartial` and
  `Retry`, which do not store outputs, never drop one. `Books` says that between two answers all that
  was taken is told and all that was streamed is stored, which is `TextStored`.
- `RunIsDialogue`, the refinement: every action of the loop is a step of
  `Dialogue` or stutters, with `LoopInv` before and after it.
- `ConversationInvariant`. `CallsAnswered` by itself is not inductive: a compression throws
  away a prefix, and a result must not lose its call or a call its result by it. `Placed` says
  where a result stands: behind the message that calls, with nothing between but
  results and one reminder about overthinking. A cut falls on a message of role user
  (`NthFromEnd`), which can only be that reminder; what it leaves is the exemption
  of `NoOrphanResults`, and nothing else.

`Rollback_proofs` proves for any finite number of sessions, any number of files, turns,
commits and events:
- `EveryTextKeptHolds`. A rollback changes a file only in `RbRevert` and in `Abort`, and
  there git has checked that the file holds what is staged. That this is in a commit needs
  `AllCommitted`: head, index and the old side of every commit hold committed texts only.
- `NothingHalfUndoneHolds`, from `Restorable`: until its transaction a rollback that was
  alone and found nothing staged has changed only files that are staged as something else than head; those
  were as committed when it began, and hold in the working tree what is staged. Then
  `Abort` gives back exactly the tree of the beginning.
- `FilesRestoredHolds`: when the rows of the turns are taken back, a file that only those
  turns changed is staged as it was before the first of them. It needs no induction over the commits, since the chain is in
  the invariant (`RestoredInv`): every commit starts from what the one before it made, and a file
  that no commit of an interval touches is the same at both its ends (`Chained`). A turn's
  commits are later than its beginning and earlier than that of the next turn (`InOrder`),
  and a commit is a turn's or a rollback's (`OneMaker`). A rollback goes from the newest to the
  oldest; a file it has changed holds what was there before the oldest commit reverted so
  far (`Underway`). What an earlier rollback has committed, or a crashed one has staged, takes back only what
  a turn it was asked to undo did (`TakesBack`).

`Story_proofs` proves for any number of sessions, rows, turns and operations:
- `StoryInvariant`, from `StoryInv`: what an actor decided on is so until another changes
  a row (`Decided`): the row it read is the one that is there, the rows its new one points at
  are there, nothing points at the one it deletes. The actors another has overtaken are `hist.stale`,
  and nothing is said of those.
- `EndsStandHolds`, `FinalsStandHolds`, `OneHoldsHolds`. The statements of `OperationLog`
  come first: what a row that is added (`Added`), stored in another's place (`Replaced`), taken
  away (`Gone`, `Shrunk`) or retired and made anew (`RetireThenCreate`) does to dangling rows,
  to final ones and to those that hold. Then a lemma for each writing operation says that its guards and what it
  decided on are what the statement needs; the interface's writes of locations and nodes are `SetByInterface` and need
  nothing; the tables without references, finals or relations that
  hold are dealt with once (`ActsElsewhere`, `CreatesElsewhere`, `DeletesElsewhere`).

  The proof found what the run had not: with two operations no behaviour reaches an edit of a relation
  whose character is gone. The property now names it and the run takes three.
- `LoggedTurnUndoneHolds`, from `StoryInv` and `LogInv`. Nothing can be said of the tables as
  a whole: other sessions' records stand between those of the undone turns, and statements without a record
  change rows in between. So `LogInv` speaks of one row at a time, and for every turn a rollback could yet
  name: as long as nothing but logged statements of that turn and later ones of its session
  has touched the row since (`Alone`), the records of it that the rollback would take lead from
  what the row is back to what it was when the turn began (`Leads`): each tells what the row was
  before its statement (`Was`), and no update is reversed where the reversals so far have left no
  row, which is the case that `reverseOne` passes over. A statement adds at most one record for a row, which tells
  the row as it was (`Traced`), and a row that differs has been touched (`Touched`); with these
  `CommitLogged` needs only that each statement is so traced. `CreateTraced`, `SaveTraced` and the like show that for
  `Create`, `CreateAll`, `Save`, `Delete`, the silent statements, and the retiring of several relations with a new one in one
  transaction (`EvolveTraced`). A turn that begins finds no records of its own, since records are credited to
  turns that have begun (`Recorded`), the user's included (`CreditIs`). For the rollback itself
  `ReverseAll` is known by well-founded descent through the log (`ReversalExists`, `ReversalIs`),
  and so is what it has made of the row after each record (`ReversedTo`). TLC checked `LogInv` over the
  states of `story_core` before it was proved.

`Readers_proofs` proves, for any number of chapters, people, items, threads, nodes and changes
and any windows, lags and tolerances:
- `ChecksInvariant`: types, a number is one chapter's, and a death knows its chapter as long
  as that is there (`DeathsTold`), since ids are not used again.
- `ContradictionsReportedHolds`, check by check. What the check of paragraphs collects line by line is a recursive
  function; `CollectorExists` and `CollectedIs` say what it is, by well-founded descent to the
  first line where it would differ.
- `NothingUnwatchedHolds`, for threads, nodes and promises in turn. The three counts of chapters
  without action agree since each is the length of the last run of chapters without it
  (`StreakFacts`), however many numbers are missing.
  A list with no more rows than its limit shows them all; of a longer one the property says only that it is longer.
- `WindowsAgreeHolds`, for every limit: the property itself asks that no list is cut (`ThreadsFit`,
  `NodesFit`), list by list and chapter by chapter. With more rows the tools do hide what the checks
  report, which is what a limit does.

It then proves `FinalFits` and `SummariesKept` of `Pattern` for every novel, window, budget
and answer. `BlankIsBlank` is the strengthening for summaries: a chapter that waits for one, or is
about to get one, has none, unless others wrote it since it was loaded. `FinalChecked` is that for the
last call: its blocks were compared with the budget or with the window. How chapters are cut into batches
plays no part. `FinalFitsHolds` has one hypothesis: that the sum of the blocks, a fold, is a number.

`Manuscript_proofs` proves for any chapters, texts and EPUBs:
- `CountCheckTrueHolds`, from `Counted`: the one hand that is at work on a chapter has
  its text in the file (`InStep`); without a hand, the row counts the file, unless the chapter is
  `uncounted`. A chapter comes into that set only by a crossing, a count that failed or found no
  row, the end of the process, a rollback, or an import that left files without rows.
- `ProgressCoversHolds`, from `LogCovers`. The words of the column are counted as a set of
  pairs of chapter and word. Between the entry in the log and the update of the column an edit is
  ahead of it, so the invariant covers the column together with the texts logged
  ahead; without them it is not inductive, as two hands may log at once. An entry, made or `missed`, adds no
  less than it makes the covered set grow (`Gains`, `SetsCover`, `CoversStill`).
- `ImportWholeHolds`, from `ImportStages`, whose last stages are the clean-up that worked and the one that did not, and from lemmas about `ImportText`: positions
  in increasing order cut a text into chapters that keep every line (`LinesKept`),
  whatever headings were found; an EPUB's chapters and skipped items add up to its spine.

`RefreshQueue_proofs` proves for any number of writers, chapters, saves, retries and rebuilds
that the index catches up (`SettledIsFresh`), and `PendingIsArmed`. `QueueInv` follows a
text from the file to the index: with a writer (`StoredNext`), in the queue,
where of a chapter's tasks the one that is reached last holds the text submitted last
(`LastQueued`), and then in the index (`QueueFresh`). During a rebuild it says the
same of what the rebuild has read and not yet inserted (`RebuildFresh`).

All that the theorems assume of the constants are the named assumptions of the modules
(ranges of the bounds, distinct markers, finitely many sessions, the tables of `Story` and
well-formed rows at its beginning) and, for one theorem each, `ShippedShape` and that a sum of tokens is a number.

Only model-checked, and why:

- Everything under fairness: `DeleteReturns`, `CancelledEnds`, `RunEnds`, `ExtractionEnds`,
  `WorkedOff`, `StopReturns`, `Unblocked`. The proof system does not reach liveness.
- `NumbersTrue`, `IndexTrue`, `EditsLocal`, and the first part of `ImportText`
  (which headings are found): they say what recursive and folding operators over texts and lists
  compute, which takes induction over data. For the same reason `TypeOK` of `Pattern`
  is not proved: its batches come from a fold.
- `ReviewersRating`, which is violated.

## Not modelled, and why

- Backup and restore (`app/backup.go`): one user action that zips the data directory and
  unpacks it. Reading it shows that a restore goes on when its safety backup failed,
  writes over the open database and leaves a newer write-ahead log beside the restored
  file. Nothing in the code promises otherwise.
- Token estimates, usage sums, `active_version` and the rows a compression writes: reports
  and names, no protocol.
- `RebuildAll`: it calls `RebuildNovel` for novels without chunks, and takes a half
  built novel for built.
- Prompt assembly and skills, export, the search by name, diffs and histories of git:
  text and queries without state of their own.
- API server, websocket and webdav: I/O around operations that are modelled.
- The cache probe and simulation: a measuring tool beside the program.
- The frontend: its calls are the environment of the models.
- Embeddings and ranking scores: numbers; the models take any result they may give.
- Parts of modelled components: the 1000 messages at most that a Run is given
  (`store.go:258`), which could part a result from its call as a compression does; a chapter that is renumbered or
  deleted while an extraction runs; a chapter's row that a rollback puts back with the count
  it was deleted with.
- The number of times `autoAdvancePhase` continues a Run (`agent.go:1249`) is a bound of the model
  (`MaxAdvances`): `RunEnds` would not show a loop without end there, which the code
  leaves at the first phase that is not ready to be left or has none next.

## Plan

Done: the core (`PhaseGate`, `Turns`, `Approval` with proofs, `RefreshQueue`), the agent's
loop with its refinement, rollback and tables, checks, edits and index, manuscript and
import, pattern extraction.

Proved: the safety properties of the agent's loop with its refinement, the gate, turns,
approval, the refresh queue, the rollback, the manuscript, the checks and windows, pattern
extraction, and the story's tables with their rollback.

What could follow:

- `Review`: that the record never carries a reviewer's rating, which the finding shows on one
  instance.

## Running

    tlc -workers 2 -config PhaseGate_core.cfg MCPhaseGate
    tlapm Session_proofs.tla

The other configurations and proof modules run the same way.
