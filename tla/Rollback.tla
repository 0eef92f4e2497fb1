------------------------------ MODULE Rollback ------------------------------
(***************************************************************************)
(* What a turn leaves behind and how it is taken back: the row of a        *)
(* session (src/internal/session/store.go), the operation log that the     *)
(* GORM hooks write (src/internal/storage/operation_log.go), the commits   *)
(* of a turn in the novel's git repository (src/app/chat.go,               *)
(* src/internal/git/repo.go) and RollbackBeforeTurn                        *)
(* (src/internal/rollback/rollback.go), which undoes all three in steps.   *)
(*                                                                         *)
(* One step is one git command, with the staging and status before it, or  *)
(* one database statement or transaction.  The process may be killed       *)
(* between any two.  A session has at most one turn at a time here;        *)
(* overlapping turns are the matter of module Turns.                       *)
(***************************************************************************)
EXTENDS Naturals, Sequences, FiniteSets

CONSTANTS
  Sessions,    \* sessions of one novel
  NoSession,   \* no session
  Files,       \* chapter files; a file is one hunk for git
  MaxTurns,    \* bound on the turns of a session
  MaxEvents,   \* bound on the turns begun and texts written, taken together
  MaxCommits   \* bound on the commits of the repository

ASSUME RollbackAssumption ==
  /\ IsFiniteSet(Sessions) /\ NoSession \notin Sessions
  /\ MaxTurns \in Nat /\ MaxEvents \in Nat /\ MaxCommits \in Nat

VARIABLES
  lastTurn, \* last_turn_id of each session
  snap,     \* what a copy of the row that will be saved whole says of it,
            \* or how far the goroutine that makes it is
  log,      \* the turns with messages and records in the operation log
  head,     \* the files in the last commit,
  idx,      \* in git's index,
  wt,       \* and in the working tree
  commits,  \* every commit, as the trees before and after it
  reverting,\* REVERT_HEAD
  tc,       \* turn_commits
  turn,     \* the turn each session runs
  rb,       \* the rollback under way
  writes,   \* texts written so far
  hist      \* history: the state at the start of each turn, and disturbances

db     == <<lastTurn, snap, log, tc>>
git    == <<head, idx, wt, commits, reverting>>
vars   == <<db, git, turn, rb, writes, hist>>

Absent == 0
Trees  == [Files -> 0 .. MaxEvents]
Turns  == 1 .. MaxTurns
Asking == 0              \* the title is being asked for
Settled == MaxTurns + 1  \* nobody will save the row

Commit == [from : Trees, to : Trees]

Stages   == {"idle", "numbered", "user", "prompt", "running", "ai"}
RbStages == {"idle", "list", "revert", "db", "commit"}

\* `before' counts the commits each turn found; `stale' says that an old copy of a row has
\* been saved, `disturbed' that something else has happened since the rollback
\* began; `start' is what the rollback found, `other' in it that a rollback to
\* another turn had staged something; `asked' are the ones that staged what is staged,
\* `reverts' the commits of all.
TypeOK ==
  /\ lastTurn \in [Sessions -> 0 .. MaxTurns]
  /\ snap \in [Sessions -> {Asking, Settled} \cup Turns]
  /\ log \subseteq [sess : Sessions, turn : Turns]
  /\ head \in Trees /\ idx \in Trees /\ wt \in Trees
  /\ commits \in Seq(Commit)
  /\ reverting \in BOOLEAN
  /\ tc \subseteq [sess : Sessions, turn : Turns, type : {"user", "ai"},
                    hash : DOMAIN commits]
  /\ turn \in [Sessions -> [stage : Stages, id : 0 .. MaxTurns, hash : Nat]]
  /\ rb \in [stage : RbStages, sess : Sessions \cup {NoSession},
             target : 0 .. MaxTurns, last : 0 .. MaxTurns,
             left : SUBSET tc, git : BOOLEAN]
  /\ writes \in 0 .. MaxEvents
  /\ hist \in [before : [Sessions -> [Turns -> Nat]], stale : BOOLEAN, disturbed : BOOLEAN,
               start : [wt : Trees, commits : Nat, staged : BOOLEAN, other : BOOLEAN,
                        own : SUBSET Nat],
               asked : SUBSET (Sessions \X Turns),
               reverts : SUBSET [sess : Sessions, turn : Turns, hash : Nat]]

Idle    == [stage |-> "idle", id |-> 0, hash |-> 0]
NoRb    == [stage |-> "idle", sess |-> NoSession, target |-> 0, last |-> 0,
            left |-> {}, git |-> FALSE]
Clean   == [f \in Files |-> Absent]
NoStart == [wt |-> Clean, commits |-> 0, staged |-> FALSE, other |-> FALSE, own |-> {}]

Init ==
  /\ lastTurn = [s \in Sessions |-> 0]
  /\ snap = [s \in Sessions |-> Settled]
  /\ log = {} /\ tc = {} /\ commits = <<>>
  /\ head = Clean /\ idx = Clean /\ wt = Clean /\ reverting = FALSE
  /\ turn = [s \in Sessions |-> Idle]
  /\ rb = NoRb
  /\ writes = 0
  /\ hist = [before |-> [s \in Sessions |-> [t \in Turns |-> 0]],
             stale |-> FALSE, disturbed |-> FALSE, start |-> NoStart,
             asked |-> {}, reverts |-> {}]

\* Something happens beside a rollback.
Beside(h) == [h EXCEPT !.disturbed = @ \/ rb.stage # "idle"]
Disturb   == hist' = Beside(hist)

\* Bound: room for another turn or text.
Begun == {t \in Sessions \X Turns : t[2] <= lastTurn[t[1]]}
Room  == writes + Cardinality(Begun) < MaxEvents

\* A rollback is over.
Over(h) == [h EXCEPT !.disturbed = FALSE, !.start = NoStart]

-----------------------------------------------------------------------------
(* Git, from how repo.go calls it.                                         *)

Dirty == wt # head \/ idx # head

\* StageAll and Commit; a commit ends a revert in progress.
CommitAll ==
  /\ Len(commits) < MaxCommits
  /\ commits' = Append(commits, [from |-> head, to |-> wt])
  /\ head' = wt /\ idx' = wt
  /\ reverting' = FALSE
  /\ UNCHANGED wt

Touched(c) == {f \in Files : c.from[f] # c.to[f]}

\* A file takes a revert when it holds what the commit made of it, or already
\* what was there before.
Reverts(c) == \A f \in Touched(c) : idx[f] \in {c.from[f], c.to[f]}
Reverted(c, tree) ==
  [f \in Files |-> IF f \in Touched(c) THEN c.from[f] ELSE tree[f]]
\* The files it has to change may not have been edited since.
Writable(c) == \A f \in Touched(c) : idx[f] # c.from[f] => wt[f] = idx[f]

\* Mutant: a hard reset.
AbortHard ==
  /\ wt' = head /\ idx' = head /\ reverting' = FALSE
  /\ UNCHANGED <<head, commits>>

\* git revert --abort: reset --merge, possible while a revert is in progress
\* and no file it takes back has been edited.
Abortable == reverting /\ \A f \in Files : idx[f] # head[f] => wt[f] = idx[f]
Abort ==
  IF Abortable
  THEN /\ wt' = [f \in Files |-> IF idx[f] # head[f] THEN head[f] ELSE wt[f]]
       /\ idx' = head /\ reverting' = FALSE
       /\ UNCHANGED <<head, commits>>
  ELSE UNCHANGED git

InRange(r, s, first, last) == r.sess = s /\ first <= r.turn /\ r.turn <= last

-----------------------------------------------------------------------------
(* A turn, as chatImpl runs it.                                            *)

\* NextTurn, one statement.
TurnBegin(s) ==
  LET t == lastTurn[s] + 1
  IN /\ turn[s].stage = "idle" /\ t <= MaxTurns /\ Room
     /\ lastTurn' = [lastTurn EXCEPT ![s] = t]
     /\ turn' = [turn EXCEPT ![s] = [stage |-> "numbered", id |-> t, hash |-> 0]]
     /\ snap' = [snap EXCEPT ![s] = IF t = 1 THEN Asking ELSE @]
     /\ hist' = [Beside(hist) EXCEPT !.before[s][t] = Len(commits)]
     /\ UNCHANGED <<log, tc, git, rb, writes>>

\* commitUserChanges, commitAIChanges: nothing to commit, or a commit whose
\* hash is yet to be recorded.
TurnCommit(s, from, record, next) ==
  /\ turn[s].stage = from
  /\ \/ /\ ~Dirty
        /\ turn' = [turn EXCEPT ![s].stage = next]
        /\ UNCHANGED git
     \/ /\ Dirty
        /\ CommitAll
        /\ turn' = [turn EXCEPT ![s].stage = record, ![s].hash = Len(commits) + 1]
  /\ Disturb
  /\ UNCHANGED <<db, rb, writes>>

\* doCommit: the hash goes into turn_commits, unless the turn has one of its
\* type there: the unique index refuses it, which is only logged.
TurnRecord(s, from, type, next) ==
  LET c == [sess |-> s, turn |-> turn[s].id, type |-> type, hash |-> turn[s].hash]
  IN /\ turn[s].stage = from
     /\ tc' = IF \E d \in tc : d.sess = s /\ d.turn = c.turn /\ d.type = type
              THEN tc ELSE tc \cup {c}
     /\ turn' = [turn EXCEPT ![s] = IF next = "idle" THEN Idle
                                    ELSE [@ EXCEPT !.stage = next]]
     /\ Disturb
     /\ UNCHANGED <<lastTurn, snap, log, git, rb, writes>>

CommitUserChanges(s) == TurnCommit(s, "numbered", "user", "prompt")
RecordUserCommit(s)  == TurnRecord(s, "user", "user", "prompt")
RecordAICommit(s)    == TurnRecord(s, "ai", "ai", "idle")

\* The transaction with the turn's messages; the records that the tools will
\* leave in the operation log go with them.
TurnPrompt(s) ==
  /\ turn[s].stage = "prompt"
  /\ log' = log \cup {[sess |-> s, turn |-> turn[s].id]}
  /\ turn' = [turn EXCEPT ![s].stage = "running"]
  /\ Disturb
  /\ UNCHANGED <<lastTurn, snap, tc, git, rb, writes>>

\* The deferred commitAIChanges; without changes the turn is over.
CommitAIChanges(s) ==
  /\ turn[s].stage = "running"
  /\ IF Dirty
     THEN /\ CommitAll
          /\ turn' = [turn EXCEPT ![s].stage = "ai", ![s].hash = Len(commits) + 1]
     ELSE /\ UNCHANGED git
          /\ turn' = [turn EXCEPT ![s] = Idle]
  /\ Disturb
  /\ UNCHANGED <<db, rb, writes>>

\* A text is written to a file, by a tool of a turn or by the user's editor.
WriteFile(f) ==
  /\ Room
  /\ writes' = writes + 1
  /\ wt' = [wt EXCEPT ![f] = writes + 1]
  /\ Disturb
  /\ UNCHANGED <<db, head, idx, commits, reverting, turn, rb>>

\* SaveCover: everything is staged and committed, and no turn has the commit.
SaveCover ==
  /\ Dirty
  /\ CommitAll
  /\ Disturb
  /\ UNCHANGED <<db, turn, rb, writes>>

\* generateTitle, begun with the first turn, asks the model for a title, which
\* takes longer than NextTurn does, and then UpdateSessionMeta reads the row,
\* then saves all of it.
ReadRow(s) ==
  /\ snap[s] = Asking
  /\ snap' = [snap EXCEPT ![s] = lastTurn[s]]
  /\ Disturb
  /\ UNCHANGED <<lastTurn, log, tc, git, turn, rb, writes>>

SaveRow(s) ==
  /\ snap[s] \in Turns
  /\ lastTurn' = [lastTurn EXCEPT ![s] = snap[s]]
  /\ snap' = [snap EXCEPT ![s] = Settled]
  /\ hist' = [Beside(hist) EXCEPT !.stale = @ \/ lastTurn[s] # snap[s]]
  /\ UNCHANGED <<log, tc, git, turn, rb, writes>>

-----------------------------------------------------------------------------
(* RollbackBeforeTurn.                                                     *)

\* The commits that stand for the turns from t on and for no others: their own,
\* and those of rollbacks to them.
OwnCommits(s, t) ==
  LET known == tc \cup hist.reverts
      own   == {c \in known : c.sess = s /\ c.turn >= t}
  IN {c.hash : c \in own} \ {c.hash : c \in known \ own}

\* Something is staged.
Staged == idx # head \/ reverting

\* It reads last_turn_id.  A target beyond it is nothing to do.
RbBegin(s, t) ==
  /\ rb.stage = "idle" /\ t <= lastTurn[s]
  /\ rb' = [NoRb EXCEPT !.stage = "list", !.sess = s, !.target = t,
                        !.last = lastTurn[s]]
  /\ hist' = [hist EXCEPT !.disturbed = \E x \in Sessions : turn[x] # Idle,
                          !.start = [wt |-> wt, commits |-> Len(commits),
                                     staged |-> Staged,
                                     other |-> Staged /\ hist.asked # {<<s, t>>},
                                     own |-> OwnCommits(s, t)]]
  /\ UNCHANGED <<db, git, turn, writes>>

Before(c, d) == \/ c.turn < d.turn
                \/ c.turn = d.turn /\ c.hash < d.hash

\* ListForRollback: by turn and id, which is the order they were made in, and
\* RevertNoCommit goes from the end of the list.
RbList ==
  LET mine == {c \in tc : InRange(c, rb.sess, rb.target, rb.last)}
  IN /\ rb.stage = "list"
     /\ rb' = [rb EXCEPT !.left = mine,
                         !.stage = IF mine = {} THEN "db" ELSE "revert",
                         !.git = mine # {}]
     /\ UNCHANGED <<db, git, turn, writes, hist>>

\* Mutant: the oldest commit is reverted first.
OldestLeft == {c \in rb.left : \A d \in rb.left \ {c} : Before(c, d)}

NewestLeft == {c \in rb.left : \A d \in rb.left \ {c} : Before(d, c)}

\* git revert --no-commit of the newest one left.
RbRevert ==
  \E newest \in NewestLeft :
    LET c == commits[newest.hash]
    IN /\ rb.stage = "revert" /\ Reverts(c) /\ Writable(c)
       /\ idx' = Reverted(c, idx)
       /\ wt' = [f \in Files |-> IF idx'[f] # idx[f] THEN idx'[f] ELSE wt[f]]
       /\ reverting' = TRUE
       /\ rb' = [rb EXCEPT !.left = @ \ {newest},
                           !.stage = IF rb.left = {newest} THEN "db" ELSE @]
       /\ hist' = [hist EXCEPT !.asked = (IF Staged THEN @ ELSE {})
                                         \cup {<<rb.sess, rb.target>>}]
       /\ UNCHANGED <<db, head, commits, turn, writes>>

\* A revert that git refuses takes the others back.
RbRefused ==
  /\ rb.stage = "revert"
  /\ \E newest \in NewestLeft :
       ~(Reverts(commits[newest.hash]) /\ Writable(commits[newest.hash]))
  /\ Abort
  /\ rb' = NoRb
  /\ UNCHANGED <<db, turn, writes>>
  /\ hist' = Over(hist)

\* The transaction: RollbackInTx, then the rows of turn_commits.
RbCommitDB ==
  LET s == rb.sess
  IN /\ rb.stage = "db"
     /\ log' = {r \in log : ~InRange(r, s, rb.target, rb.last)}
     /\ tc' = {c \in tc : ~InRange(c, s, rb.target, rb.last)}
     /\ rb' = IF rb.git THEN [rb EXCEPT !.stage = "commit"] ELSE NoRb
     /\ UNCHANGED <<lastTurn, snap, git, turn, writes>>
     /\ hist' = IF rb.git THEN hist ELSE Over(hist)

\* Mutant: a failed transaction leaves the reverts staged.
RbFailKeepsStaging ==
  /\ rb.stage = "db"
  /\ rb' = NoRb
  /\ UNCHANGED <<db, git, turn, writes>>
  /\ hist' = Over(hist)

\* The transaction fails: the reverts are taken back.
RbFailDB ==
  /\ rb.stage = "db"
  /\ IF rb.git THEN Abort ELSE UNCHANGED git
  /\ rb' = NoRb
  /\ UNCHANGED <<db, turn, writes>>
  /\ hist' = Over(hist)

\* git commit of what is staged; there may be nothing to commit, an error that
\* leaves everything as it is.
RbCommitGit ==
  /\ rb.stage = "commit"
  /\ IF idx = head THEN UNCHANGED git
     ELSE /\ Len(commits) < MaxCommits
          /\ commits' = Append(commits, [from |-> head, to |-> idx])
          /\ head' = idx /\ reverting' = FALSE
          /\ UNCHANGED <<idx, wt>>
  /\ rb' = NoRb
  /\ hist' = [Over(hist) EXCEPT !.reverts =
                @ \cup {[sess |-> a[1], turn |-> a[2], hash |-> h]
                        : a \in hist.asked, h \in Len(commits) + 1 .. Len(commits')}]
  /\ UNCHANGED <<db, turn, writes>>

\* The process is killed.
Crash ==
  /\ turn' = [s \in Sessions |-> Idle]
  /\ rb' = NoRb
  /\ snap' = [s \in Sessions |-> Settled]
  /\ hist' = Over(hist)
  /\ UNCHANGED <<lastTurn, log, tc, git, writes>>

-----------------------------------------------------------------------------
Turn(s) ==
  \/ TurnBegin(s) \/ CommitUserChanges(s) \/ RecordUserCommit(s)
  \/ TurnPrompt(s) \/ CommitAIChanges(s) \/ RecordAICommit(s)
  \/ ReadRow(s) \/ SaveRow(s)

Rb == RbList \/ RbRevert \/ RbRefused \/ RbCommitDB \/ RbFailDB \/ RbCommitGit

Next ==
  \/ \E s \in Sessions : Turn(s)
  \/ \E f \in Files : WriteFile(f)
  \/ SaveCover
  \/ \E s \in Sessions, t \in Turns : RbBegin(s, t)
  \/ Rb
  \/ Crash

Spec == Init /\ [][Next]_vars

-----------------------------------------------------------------------------
(* Properties.                                                             *)

\* A rollback that nothing else runs beside.
Undisturbed == ~hist.disturbed

\* Commits of others since the turn began changed f, or it has been edited.
Foreign(f) ==
  LET began == hist.before[rb.sess][rb.target]
  IN \/ \E i \in began + 1 .. hist.start.commits :
           i \notin hist.start.own /\ f \in Touched(commits[i])
     \/ wt[f] # idx[f]

\* The last commit before the turn began.
TreeBefore(s, t) ==
  LET began == hist.before[s][t]
  IN IF began = 0 THEN Clean ELSE commits[began].to

\* When the database takes the turns back, every file that only those turns
\* changed already holds, staged, what was committed before the first of them:
\* neither a crash after it nor one in an earlier attempt leaves rows undone
\* and text not (RollbackBeforeTurn reverts before it commits the
\* transaction).
FilesRestored ==
  [][RbCommitDB /\ Undisturbed /\ ~hist.stale /\ ~hist.start.other =>
       \A f \in Files : ~Foreign(f) =>
          idx[f] = TreeBefore(rb.sess, rb.target)[f] /\ wt[f] = idx[f]]_vars

\* A rollback that fails before the database has changed leaves the files as
\* it found them and nothing staged (RevertNoCommit and RevertAbort).
NothingHalfUndone ==
  [][(RbRefused \/ RbFailDB) /\ Undisturbed /\ ~hist.start.staged =>
       wt' = hist.start.wt /\ idx' = head' /\ ~reverting']_vars

\* Whatever a rollback does to a file, beside whatever else runs and after
\* whatever crash, it never takes away a text that is in no commit.
EveryTextKept ==
  [][Rb => \A f \in Files :
       wt'[f] # wt[f] => \/ wt[f] = Absent
                         \/ \E i \in DOMAIN commits : commits[i].to[f] = wt[f]]_vars

=============================================================================
