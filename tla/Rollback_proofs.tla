--------------------------- MODULE Rollback_proofs ---------------------------
(***************************************************************************)
(* What the rollback's run shows for one session and two files, proved for *)
(* every number of sessions, files, turns and commits: whatever runs       *)
(* beside a rollback and wherever the process is killed, no text is lost   *)
(* that is in no commit, a rollback that fails leaves the files as it      *)
(* found them, and one that takes the rows of turns back has restored the  *)
(* files first.                                                            *)
(***************************************************************************)
EXTENDS Rollback, FiniteSetTheorems, TLAPS

-----------------------------------------------------------------------------
(* The invariant.                                                          *)

Hists == [before : [Sessions -> [Turns -> Nat]], stale : BOOLEAN, disturbed : BOOLEAN,
          start : [wt : Trees, commits : Nat, staged : BOOLEAN, other : BOOLEAN,
                   own : SUBSET Nat],
          asked : SUBSET (Sessions \X Turns),
          reverts : SUBSET [sess : Sessions, turn : Turns, hash : Nat]]

\* A turn that runs has a number, and the hash it will record is a commit's.
TurnsNumbered ==
  \A s \in Sessions :
    /\ turn[s].stage # "idle" => turn[s].id \in Turns
    /\ turn[s].stage \in {"user", "ai"} => turn[s].hash \in DOMAIN commits

\* A rollback that is under way has a session and a target, and nothing left to
\* revert when it comes to the database; one that reverts has started git's part.
TargetKnown ==
  /\ rb.stage # "idle" => rb.sess \in Sessions /\ rb.target \in Turns
  /\ rb.stage # "revert" => rb.left = {}
  /\ rb.stage = "revert" => rb.git

\* Every text of the tree is in a commit of cs.
Stored(cs, tree) ==
  \A f \in Files : tree[f] = Absent \/ \E i \in DOMAIN cs : cs[i].to[f] = tree[f]

\* What git holds, beside the working tree, is in a commit.
AllCommitted ==
  /\ Stored(commits, head) /\ Stored(commits, idx)
  /\ \A i \in DOMAIN commits : Stored(commits, commits[i].from)

\* Until the transaction, an undisturbed rollback that found nothing staged has
\* changed only what it can take back: a file that is staged as something else than
\* the last commit holds it so in the working tree, where it was as committed.
Restorable ==
  rb.stage \in {"list", "revert", "db"} /\ ~hist.disturbed /\ ~hist.start.staged =>
    /\ ~reverting => idx = head
    /\ \A f \in Files : IF idx[f] = head[f] THEN wt[f] = hist.start.wt[f]
                        ELSE wt[f] = idx[f] /\ hist.start.wt[f] = head[f]
    /\ rb.stage = "list" \/ (rb.stage = "db" /\ ~rb.git) => ~reverting

RollbackInv == TypeOK /\ TurnsNumbered /\ TargetKnown /\ AllCommitted /\ Restorable

-----------------------------------------------------------------------------
(* Types of what the actions are made of.                                  *)

LEMMA Basics ==
  /\ MaxTurns \in Nat /\ MaxEvents \in Nat /\ MaxCommits \in Nat
  /\ Absent \in 0 .. MaxEvents /\ Clean \in Trees
  /\ Asking \notin Turns /\ Settled \notin Turns
BY RollbackAssumption DEF Absent, Clean, Trees, Asking, Settled, Turns

LEMMA RoomLeft ==
  ASSUME TypeOK, Room
  PROVE  writes + 1 \in 0 .. MaxEvents
<1>1. IsFiniteSet(Sessions) /\ IsFiniteSet(Turns)
  BY RollbackAssumption, FS_Interval DEF Turns
<1>2. IsFiniteSet(Sessions \X Turns)
  BY <1>1, FS_Product
<1>3. Cardinality(Begun) \in Nat
  BY <1>2, FS_Subset, FS_CardinalityType DEF Begun
<1> QED
  BY <1>3, Basics DEF TypeOK, Room

LEMMA BesideType ==
  ASSUME NEW h \in Hists
  PROVE  /\ Beside(h) \in Hists
         /\ Beside(h).start = h.start
         /\ Beside(h).disturbed = (h.disturbed \/ rb.stage # "idle")
<1>1. (h.disturbed \/ rb.stage # "idle") \in BOOLEAN
  OBVIOUS
<1> QED
  BY <1>1 DEF Beside, Hists

LEMMA OverType ==
  ASSUME NEW h \in Hists
  PROVE  Over(h) \in Hists
<1>1. NoStart \in [wt : Trees, commits : Nat, staged : BOOLEAN, other : BOOLEAN, own : SUBSET Nat]
  BY Basics DEF NoStart
<1> QED
  BY <1>1 DEF Over, Hists

LEMMA Records ==
  /\ Idle \in [stage : Stages, id : 0 .. MaxTurns, hash : Nat]
  /\ \A S : NoRb \in [stage : RbStages, sess : Sessions \cup {NoSession}, target : 0 .. MaxTurns,
                      last : 0 .. MaxTurns, left : SUBSET S, git : BOOLEAN]
  /\ Idle.stage = "idle" /\ NoRb.stage = "idle" /\ NoRb.left = {}
BY Basics DEF Idle, Stages, NoRb, RbStages

\* A commit appended to the others.
LEMMA CommitAppended ==
  ASSUME NEW cs \in Seq(Commit), NEW c \in Commit
  PROVE  /\ Append(cs, c) \in Seq(Commit)
         /\ Len(cs) \in Nat /\ DOMAIN cs = 1 .. Len(cs)
         /\ DOMAIN Append(cs, c) = 1 .. Len(cs) + 1
         /\ Len(Append(cs, c)) = Len(cs) + 1
         /\ \A i \in 1 .. Len(cs) : Append(cs, c)[i] = cs[i]
         /\ Append(cs, c)[Len(cs) + 1] = c
OBVIOUS

LEMMA StoredStays ==
  ASSUME NEW cs \in Seq(Commit), NEW c \in Commit, NEW tree
  PROVE  /\ Stored(cs, tree) => Stored(Append(cs, c), tree)
         /\ Stored(Append(cs, c), c.to)
<1>1. \A i \in DOMAIN cs : i \in DOMAIN Append(cs, c) /\ Append(cs, c)[i] = cs[i]
  BY CommitAppended
<1>2. Len(cs) + 1 \in DOMAIN Append(cs, c) /\ Append(cs, c)[Len(cs) + 1] = c
  BY CommitAppended
<1> QED
  BY <1>1, <1>2 DEF Stored

\* The history after a commit of `from` as `to`.
LEMMA CommitKeeps ==
  ASSUME TypeOK, AllCommitted, NEW to \in Trees,
         commits' = Append(commits, [from |-> head, to |-> to])
  PROVE  /\ commits' \in Seq(Commit)
         /\ Len(commits) \in Nat /\ Len(commits) + 1 \in DOMAIN commits'
         /\ DOMAIN commits \subseteq DOMAIN commits'
         /\ Stored(commits', head) /\ Stored(commits', idx) /\ Stored(commits', to)
         /\ \A i \in DOMAIN commits' : Stored(commits', commits'[i].from)
<1> DEFINE c == [from |-> head, to |-> to]
<1>1. c \in Commit /\ c.from = head /\ c.to = to /\ commits \in Seq(Commit)
  BY DEF Commit, TypeOK
<1>2. commits' = Append(commits, c)
  OBVIOUS
<1> HIDE DEF c
<1>3. /\ commits' \in Seq(Commit)
      /\ Len(commits) \in Nat /\ DOMAIN commits = 1 .. Len(commits)
      /\ DOMAIN commits' = 1 .. Len(commits) + 1
      /\ \A i \in 1 .. Len(commits) : commits'[i] = commits[i]
      /\ commits'[Len(commits) + 1] = c
  BY <1>1, <1>2, CommitAppended
<1>4. Stored(commits', head) /\ Stored(commits', idx) /\ Stored(commits', to)
  BY <1>1, <1>2, StoredStays DEF AllCommitted
<1>5. ASSUME NEW i \in DOMAIN commits' PROVE Stored(commits', commits'[i].from)
  <2>1. CASE i \in DOMAIN commits
    <3>1. Stored(commits, commits[i].from) /\ commits'[i] = commits[i]
      BY <1>3, <2>1 DEF AllCommitted
    <3> QED
      BY <1>1, <1>2, <3>1, StoredStays
  <2>2. CASE i = Len(commits) + 1
    BY <1>1, <1>3, <1>4, <2>2
  <2> QED
    BY <1>3, <2>1, <2>2
<1> QED
  BY <1>3, <1>4, <1>5

LEMMA CommitAllKeeps ==
  ASSUME TypeOK, AllCommitted, CommitAll
  PROVE  /\ commits' \in Seq(Commit) /\ head' \in Trees /\ idx' \in Trees /\ wt' \in Trees
         /\ reverting' \in BOOLEAN
         /\ Len(commits) \in Nat /\ Len(commits) + 1 \in DOMAIN commits'
         /\ DOMAIN commits \subseteq DOMAIN commits'
         /\ AllCommitted'
<1>1. wt \in Trees /\ head' = wt /\ idx' = wt /\ wt' = wt /\ reverting' = FALSE
  BY DEF CommitAll, TypeOK
<1>2. commits' = Append(commits, [from |-> head, to |-> wt])
  BY DEF CommitAll
<1> QED
  BY <1>1, <1>2, CommitKeeps DEF AllCommitted

LEMMA AbortKeeps ==
  ASSUME TypeOK, AllCommitted, Abort
  PROVE  /\ commits' = commits /\ head' = head /\ idx' \in Trees /\ wt' \in Trees
         /\ reverting' \in BOOLEAN /\ AllCommitted'
         /\ \A f \in Files : wt'[f] # wt[f] =>
              wt[f] = Absent \/ \E i \in DOMAIN commits : commits[i].to[f] = wt[f]
<1>1. CASE Abortable
  <2>1. /\ wt' = [f \in Files |-> IF idx[f] # head[f] THEN head[f] ELSE wt[f]]
        /\ idx' = head /\ reverting' = FALSE /\ head' = head /\ commits' = commits
    BY <1>1 DEF Abort
  <2>2. wt' \in Trees
    BY <2>1 DEF TypeOK, Trees
  <2>3. \A f \in Files : wt'[f] # wt[f] => wt[f] = idx[f]
    BY <1>1, <2>1 DEF Abortable
  <2>4. head \in Trees /\ Stored(commits, idx)
    BY DEF TypeOK, AllCommitted
  <2>5. AllCommitted'
    BY <2>1 DEF AllCommitted
  <2>6. \A f \in Files : wt'[f] # wt[f] =>
          wt[f] = Absent \/ \E i \in DOMAIN commits : commits[i].to[f] = wt[f]
    BY <2>3, <2>4 DEF Stored
  <2> QED
    BY <2>1, <2>2, <2>4, <2>5, <2>6
<1>2. CASE ~Abortable
  BY <1>2 DEF Abort, git, AllCommitted, TypeOK
<1> QED
  BY <1>1, <1>2

\* A revert takes a file only from a text that is staged, so committed, to one that
\* is in a commit as well.
LEMMA RevertKeeps ==
  ASSUME TypeOK, AllCommitted, NEW n \in DOMAIN commits, Writable(commits[n]),
         commits' = commits, head' = head,
         idx' = Reverted(commits[n], idx),
         wt' = [f \in Files |-> IF idx'[f] # idx[f] THEN idx'[f] ELSE wt[f]]
  PROVE  /\ idx' \in Trees /\ wt' \in Trees /\ AllCommitted'
         /\ \A f \in Files : idx'[f] # idx[f] => wt[f] = idx[f]
         /\ \A f \in Files : wt'[f] # wt[f] =>
              wt[f] = Absent \/ \E i \in DOMAIN commits : commits[i].to[f] = wt[f]
<1> DEFINE c == commits[n]
<1>1. c.from \in Trees
  <2>1. c \in Commit
    BY DEF TypeOK
  <2> QED
    BY <2>1 DEF Commit
<1>2. \A f \in Files : idx'[f] = IF f \in Touched(c) THEN c.from[f] ELSE idx[f]
  BY DEF Reverted
<1>3. idx' \in Trees
  BY <1>1 DEF Reverted, TypeOK, Trees
<1>4. wt' \in Trees
  BY <1>3 DEF TypeOK, Trees
<1>5. \A f \in Files : idx'[f] # idx[f] => wt[f] = idx[f]
  BY <1>2 DEF Writable, Touched
<1>6. \A f \in Files : wt'[f] # wt[f] => wt[f] = idx[f]
  BY <1>5
<1>7. Stored(commits, idx) /\ Stored(commits, c.from) /\ Stored(commits, head)
  BY DEF AllCommitted
<1>8. Stored(commits, idx')
  BY <1>2, <1>7 DEF Stored
<1>9. AllCommitted'
  BY <1>7, <1>8 DEF AllCommitted, Stored
<1> QED
  BY <1>3, <1>4, <1>5, <1>6, <1>7, <1>9 DEF Stored

-----------------------------------------------------------------------------
(* Types, numbers and commits are kept.                                    *)

BaseInv == TypeOK /\ TurnsNumbered /\ TargetKnown /\ AllCommitted

LEMMA TypeParts ==
  ASSUME TypeOK
  PROVE  /\ head \in Trees /\ idx \in Trees /\ wt \in Trees /\ commits \in Seq(Commit)
         /\ reverting \in BOOLEAN /\ hist \in Hists /\ writes \in 0 .. MaxEvents
         /\ lastTurn \in [Sessions -> 0 .. MaxTurns]
         /\ snap \in [Sessions -> {Asking, Settled} \cup Turns]
BY DEF TypeOK, Hists

\* A step that leaves git alone.
LEMMA GitFrame ==
  ASSUME AllCommitted, UNCHANGED git
  PROVE  AllCommitted'
BY DEF git, AllCommitted

TurnRecords == [stage : Stages, id : 0 .. MaxTurns, hash : Nat]

LEMMA StageChanged ==
  ASSUME TypeOK, NEW s \in Sessions, NEW stage \in Stages, NEW hash \in Nat
  PROVE  /\ [turn EXCEPT ![s].stage = stage] \in [Sessions -> TurnRecords]
         /\ [turn EXCEPT ![s].stage = stage, ![s].hash = hash] \in [Sessions -> TurnRecords]
         /\ [turn EXCEPT ![s] = [@ EXCEPT !.stage = stage]] \in [Sessions -> TurnRecords]
<1>1. turn \in [Sessions -> TurnRecords] /\ turn[s] \in TurnRecords
  BY DEF TypeOK, TurnRecords
<1>2. [turn[s] EXCEPT !.stage = stage] \in TurnRecords
  BY <1>1 DEF TurnRecords
<1>3. [turn[s] EXCEPT !.stage = stage, !.hash = hash] \in TurnRecords
  BY <1>1 DEF TurnRecords
<1> HIDE DEF TurnRecords
<1>4. [turn EXCEPT ![s].stage = stage] \in [Sessions -> TurnRecords]
  BY <1>1, <1>2
<1>5. [turn EXCEPT ![s].stage = stage, ![s].hash = hash] \in [Sessions -> TurnRecords]
  <2>1. [turn EXCEPT ![s].stage = stage, ![s].hash = hash]
          = [turn EXCEPT ![s] = [turn[s] EXCEPT !.stage = stage, !.hash = hash]]
    BY <1>1 DEF TurnRecords
  <2> QED
    BY <1>1, <1>3, <2>1
<1> QED
  BY <1>1, <1>2, <1>4, <1>5

LEMMA TurnBeginStep ==
  ASSUME BaseInv, NEW s \in Sessions, TurnBegin(s)
  PROVE  BaseInv'
<1> DEFINE t == lastTurn[s] + 1
<1>1. /\ t <= MaxTurns
      /\ lastTurn' = [lastTurn EXCEPT ![s] = t]
      /\ turn' = [turn EXCEPT ![s] = [stage |-> "numbered", id |-> t, hash |-> 0]]
      /\ snap' = [snap EXCEPT ![s] = IF t = 1 THEN Asking ELSE @]
      /\ hist' = [Beside(hist) EXCEPT !.before[s][t] = Len(commits)]
      /\ UNCHANGED <<log, tc, git, rb, writes>>
  BY DEF TurnBegin
<1>2. t \in Turns /\ t \in 0 .. MaxTurns
  BY <1>1, Basics DEF BaseInv, TypeOK, Turns
<1> HIDE DEF t
<1>3. hist' \in Hists
  <2>1. Beside(hist) \in Hists /\ Len(commits) \in Nat
    <3>1. hist \in Hists /\ commits \in Seq(Commit)
      BY TypeParts DEF BaseInv
    <3> QED
      BY <3>1, BesideType
  <2>2. Beside(hist).before \in [Sessions -> [Turns -> Nat]]
    BY <2>1 DEF Hists
  <2> DEFINE b == Beside(hist).before
             h == Beside(hist)
  <2>3. [b[s] EXCEPT ![t] = Len(commits)] \in [Turns -> Nat]
    BY <1>2, <2>1, <2>2
  <2>4. [b EXCEPT ![s] = [b[s] EXCEPT ![t] = Len(commits)]] \in [Sessions -> [Turns -> Nat]]
    BY <2>2, <2>3
  <2>5. hist' = [h EXCEPT !.before = [b EXCEPT ![s] = [b[s] EXCEPT ![t] = Len(commits)]]]
    BY <1>1
  <2> HIDE DEF h, b
  <2>6. h \in Hists
    BY <2>1 DEF h
  <2> QED
    BY <2>4, <2>5, <2>6 DEF Hists
<1>4. /\ lastTurn' \in [Sessions -> 0 .. MaxTurns]
      /\ snap' \in [Sessions -> {Asking, Settled} \cup Turns]
      /\ turn' \in [Sessions -> [stage : Stages, id : 0 .. MaxTurns, hash : Nat]]
  BY <1>1, <1>2 DEF BaseInv, TypeOK, Stages
<1>5. TypeOK'
  BY <1>1, <1>3, <1>4 DEF BaseInv, TypeOK, git, Hists
<1>6. TurnsNumbered'
  BY <1>1, <1>2 DEF BaseInv, TurnsNumbered, TypeOK, git
<1>7. TargetKnown' /\ AllCommitted'
  BY <1>1, GitFrame DEF BaseInv, TargetKnown
<1> QED
  BY <1>5, <1>6, <1>7 DEF BaseInv

\* A turn's step to another stage, with or without a commit.
LEMMA TurnCommitStep ==
  ASSUME BaseInv, NEW s \in Sessions, NEW from, NEW record \in {"user", "ai"},
         NEW next \in {"prompt"}, from # "idle", TurnCommit(s, from, record, next)
  PROVE  BaseInv'
<1>1. /\ turn[s].stage = from /\ hist' = Beside(hist)
      /\ UNCHANGED <<lastTurn, snap, log, tc, rb, writes>>
  BY DEF TurnCommit, Disturb, db
<1>2. hist' \in Hists /\ turn[s].id \in Turns
  BY <1>1, BesideType DEF BaseInv, TypeOK, Hists, TurnsNumbered
<1>3. CASE UNCHANGED git /\ turn' = [turn EXCEPT ![s].stage = next]
  <2>1. turn' \in [Sessions -> [stage : Stages, id : 0 .. MaxTurns, hash : Nat]]
    BY <1>3, StageChanged DEF BaseInv, Stages, TurnRecords
  <2>2. TypeOK'
    BY <1>1, <1>2, <1>3, <2>1 DEF BaseInv, TypeOK, git, Hists
  <2>3. TurnsNumbered'
    BY <1>1, <1>2, <1>3 DEF BaseInv, TurnsNumbered, TypeOK, git
  <2> QED
    BY <1>1, <1>3, <2>2, <2>3, GitFrame DEF BaseInv, TargetKnown
<1>4. CASE CommitAll /\ turn' = [turn EXCEPT ![s].stage = record, ![s].hash = Len(commits) + 1]
  <2>1. /\ commits' \in Seq(Commit) /\ head' \in Trees /\ idx' \in Trees /\ wt' \in Trees
        /\ reverting' \in BOOLEAN
        /\ Len(commits) \in Nat /\ Len(commits) + 1 \in DOMAIN commits'
        /\ DOMAIN commits \subseteq DOMAIN commits'
        /\ AllCommitted'
    BY <1>4, CommitAllKeeps DEF BaseInv
  <2>2. turn' \in [Sessions -> [stage : Stages, id : 0 .. MaxTurns, hash : Nat]]
    <3>1. Len(commits) + 1 \in Nat /\ record \in Stages /\ TypeOK
      BY <2>1 DEF BaseInv, Stages
    <3>2. turn' \in [Sessions -> TurnRecords]
      BY <1>4, <3>1, StageChanged
    <3> QED
      BY <3>2 DEF TurnRecords
  <2>3. TypeOK'
    BY <1>1, <1>2, <2>1, <2>2 DEF BaseInv, TypeOK, Hists
  <2>4. TurnsNumbered'
    BY <1>1, <1>2, <1>4, <2>1, SMTT(30) DEF BaseInv, TurnsNumbered, TypeOK
  <2> QED
    BY <1>1, <2>1, <2>3, <2>4 DEF BaseInv, TargetKnown
<1> QED
  BY <1>3, <1>4 DEF TurnCommit

LEMMA TurnRecordStep ==
  ASSUME BaseInv, NEW s \in Sessions, NEW type \in {"user", "ai"}, NEW next \in {"idle", "prompt"},
         TurnRecord(s, type, type, next)
  PROVE  BaseInv'
<1> DEFINE c == [sess |-> s, turn |-> turn[s].id, type |-> type, hash |-> turn[s].hash]
<1>1. /\ turn[s].stage = type /\ hist' = Beside(hist)
      /\ tc' \in {tc, tc \cup {c}}
      /\ turn' = [turn EXCEPT ![s] = IF next = "idle" THEN Idle ELSE [@ EXCEPT !.stage = next]]
      /\ UNCHANGED <<lastTurn, snap, log, git, rb, writes>>
  BY DEF TurnRecord, Disturb
<1>2. hist' \in Hists /\ turn[s].id \in Turns /\ turn[s].hash \in DOMAIN commits
  BY <1>1, BesideType DEF BaseInv, TypeOK, Hists, TurnsNumbered
<1>3. c \in [sess : Sessions, turn : Turns, type : {"user", "ai"}, hash : DOMAIN commits]
  BY <1>2
<1> HIDE DEF c
<1>4. /\ tc' \subseteq [sess : Sessions, turn : Turns, type : {"user", "ai"}, hash : DOMAIN commits']
      /\ tc \subseteq tc'
  BY <1>1, <1>3 DEF BaseInv, TypeOK, git
<1>5. turn' \in [Sessions -> [stage : Stages, id : 0 .. MaxTurns, hash : Nat]]
  <2>1. CASE next = "idle"
    BY <1>1, <2>1, Records DEF BaseInv, TypeOK
  <2>2. CASE next = "prompt"
    <3>1. turn' = [turn EXCEPT ![s] = [@ EXCEPT !.stage = "prompt"]]
      BY <1>1, <2>2
    <3> QED
      BY <3>1, StageChanged DEF BaseInv, Stages, TurnRecords
  <2> QED
    BY <2>1, <2>2
<1>6. TypeOK'
  BY <1>1, <1>2, <1>4, <1>5 DEF BaseInv, TypeOK, git, Hists
<1>7. TurnsNumbered'
  BY <1>1, <1>2, Records DEF BaseInv, TurnsNumbered, TypeOK, git
<1> QED
  BY <1>1, <1>6, <1>7, GitFrame DEF BaseInv, TargetKnown

LEMMA TurnPromptStep ==
  ASSUME BaseInv, NEW s \in Sessions, TurnPrompt(s)
  PROVE  BaseInv'
<1>1. /\ turn[s].stage = "prompt" /\ hist' = Beside(hist)
      /\ log' = log \cup {[sess |-> s, turn |-> turn[s].id]}
      /\ turn' = [turn EXCEPT ![s].stage = "running"]
      /\ UNCHANGED <<lastTurn, snap, tc, git, rb, writes>>
  BY DEF TurnPrompt, Disturb
<1>2. hist' \in Hists /\ turn[s].id \in Turns
  BY <1>1, BesideType DEF BaseInv, TypeOK, Hists, TurnsNumbered
<1>3. turn' \in [Sessions -> [stage : Stages, id : 0 .. MaxTurns, hash : Nat]]
  BY <1>1, StageChanged DEF BaseInv, Stages, TurnRecords
<1>4. log' \subseteq [sess : Sessions, turn : Turns]
  BY <1>1, <1>2 DEF BaseInv, TypeOK
<1>5. TypeOK'
  BY <1>1, <1>2, <1>3, <1>4 DEF BaseInv, TypeOK, git, Hists
<1>6. TurnsNumbered'
  BY <1>1, <1>2 DEF BaseInv, TurnsNumbered, TypeOK, git
<1> QED
  BY <1>1, <1>5, <1>6, GitFrame DEF BaseInv, TargetKnown

LEMMA CommitAIStep ==
  ASSUME BaseInv, NEW s \in Sessions, CommitAIChanges(s)
  PROVE  BaseInv'
<1>1. /\ turn[s].stage = "running" /\ hist' = Beside(hist)
      /\ UNCHANGED <<lastTurn, snap, log, tc, rb, writes>>
  BY DEF CommitAIChanges, Disturb, db
<1>2. hist' \in Hists /\ turn[s].id \in Turns
  BY <1>1, BesideType DEF BaseInv, TypeOK, Hists, TurnsNumbered
<1>3. CASE Dirty
  <2>1. CommitAll /\ turn' = [turn EXCEPT ![s].stage = "ai", ![s].hash = Len(commits) + 1]
    BY <1>3 DEF CommitAIChanges
  <2>2. /\ commits' \in Seq(Commit) /\ head' \in Trees /\ idx' \in Trees /\ wt' \in Trees
        /\ reverting' \in BOOLEAN
        /\ Len(commits) \in Nat /\ Len(commits) + 1 \in DOMAIN commits'
        /\ DOMAIN commits \subseteq DOMAIN commits'
        /\ AllCommitted'
    BY <2>1, CommitAllKeeps DEF BaseInv
  <2>3. turn' \in [Sessions -> [stage : Stages, id : 0 .. MaxTurns, hash : Nat]]
    <3>1. Len(commits) + 1 \in Nat /\ "ai" \in Stages /\ TypeOK
      BY <2>2 DEF BaseInv, Stages
    <3>2. turn' \in [Sessions -> TurnRecords]
      BY <2>1, <3>1, StageChanged
    <3> QED
      BY <3>2 DEF TurnRecords
  <2>4. TypeOK'
    BY <1>1, <1>2, <2>2, <2>3 DEF BaseInv, TypeOK, Hists
  <2>5. TurnsNumbered'
    BY <1>1, <1>2, <2>1, <2>2 DEF BaseInv, TurnsNumbered, TypeOK
  <2> QED
    BY <1>1, <2>2, <2>4, <2>5 DEF BaseInv, TargetKnown
<1>4. CASE ~Dirty
  <2>1. UNCHANGED git /\ turn' = [turn EXCEPT ![s] = Idle]
    BY <1>4 DEF CommitAIChanges
  <2>2. turn' \in [Sessions -> [stage : Stages, id : 0 .. MaxTurns, hash : Nat]]
    BY <2>1, Records DEF BaseInv, TypeOK
  <2>3. TypeOK'
    BY <1>1, <1>2, <2>1, <2>2 DEF BaseInv, TypeOK, git, Hists
  <2>4. TurnsNumbered'
    BY <1>1, <2>1, Records DEF BaseInv, TurnsNumbered, TypeOK, git
  <2> QED
    BY <1>1, <2>1, <2>3, <2>4, GitFrame DEF BaseInv, TargetKnown
<1> QED
  BY <1>3, <1>4

LEMMA RowStep ==
  ASSUME BaseInv, NEW s \in Sessions, ReadRow(s) \/ SaveRow(s)
  PROVE  BaseInv'
<1>1. UNCHANGED <<log, tc, git, turn, rb, writes>>
  BY DEF ReadRow, SaveRow
<1>2. /\ lastTurn' \in [Sessions -> 0 .. MaxTurns]
      /\ snap' \in [Sessions -> {Asking, Settled} \cup Turns]
  <2>1. CASE ReadRow(s)
    <3>1. /\ lastTurn' = lastTurn /\ snap' = [snap EXCEPT ![s] = lastTurn[s]]
      BY <2>1 DEF ReadRow
    <3>2. lastTurn[s] \in {Asking} \cup Turns
      BY Basics DEF BaseInv, TypeOK, Asking, Turns
    <3> QED
      BY <3>1, <3>2 DEF BaseInv, TypeOK
  <2>2. CASE SaveRow(s)
    <3>1. /\ lastTurn' = [lastTurn EXCEPT ![s] = snap[s]] /\ snap' = [snap EXCEPT ![s] = Settled]
          /\ snap[s] \in 0 .. MaxTurns
      BY <2>2, Basics DEF SaveRow, Turns
    <3> QED
      BY <3>1 DEF BaseInv, TypeOK
  <2> QED
    BY <2>1, <2>2
<1>3. hist' \in Hists
  <2>1. Beside(hist) \in Hists
    BY BesideType DEF BaseInv, TypeOK, Hists
  <2>2. CASE ReadRow(s)
    BY <2>1, <2>2 DEF ReadRow, Disturb
  <2>3. CASE SaveRow(s)
    <3>1. (Beside(hist).stale \/ lastTurn[s] # snap[s]) \in BOOLEAN
      OBVIOUS
    <3>2. hist' = [Beside(hist) EXCEPT !.stale = (Beside(hist).stale \/ lastTurn[s] # snap[s])]
      BY <2>3 DEF SaveRow
    <3> QED
      BY <2>1, <3>1, <3>2 DEF Hists
  <2> QED
    BY <2>2, <2>3
<1>4. TypeOK'
  BY <1>1, <1>2, <1>3 DEF BaseInv, TypeOK, git, Hists
<1> QED
  BY <1>1, <1>4, GitFrame DEF BaseInv, TurnsNumbered, TargetKnown, git

LEMMA WriteStep ==
  ASSUME BaseInv, NEW f \in Files, WriteFile(f)
  PROVE  BaseInv'
<1>1. /\ Room /\ writes' = writes + 1 /\ wt' = [wt EXCEPT ![f] = writes + 1]
      /\ hist' = Beside(hist)
      /\ UNCHANGED <<lastTurn, snap, log, tc, head, idx, commits, reverting, turn, rb>>
  BY DEF WriteFile, Disturb, db
<1>2. hist' \in Hists
  BY <1>1, BesideType DEF BaseInv, TypeOK, Hists
<1>3. writes' \in 0 .. MaxEvents
  BY <1>1, RoomLeft DEF BaseInv
<1>4. wt' \in Trees
  BY <1>1, <1>3 DEF BaseInv, TypeOK, Trees
<1>5. TypeOK'
  BY <1>1, <1>2, <1>3, <1>4 DEF BaseInv, TypeOK, Hists
<1> QED
  BY <1>1, <1>5 DEF BaseInv, TurnsNumbered, TargetKnown, AllCommitted

LEMMA CoverStep ==
  ASSUME BaseInv, SaveCover
  PROVE  BaseInv'
<1>1. CommitAll /\ hist' = Beside(hist)
      /\ UNCHANGED <<lastTurn, snap, log, tc, turn, rb, writes>>
  BY DEF SaveCover, Disturb, db
<1>2. hist' \in Hists
  BY <1>1, BesideType DEF BaseInv, TypeOK, Hists
<1>3. /\ commits' \in Seq(Commit) /\ head' \in Trees /\ idx' \in Trees /\ wt' \in Trees
      /\ reverting' \in BOOLEAN
      /\ DOMAIN commits \subseteq DOMAIN commits'
      /\ AllCommitted'
  BY <1>1, CommitAllKeeps DEF BaseInv
<1>4. TypeOK'
  BY <1>1, <1>2, <1>3 DEF BaseInv, TypeOK, Hists
<1> QED
  BY <1>1, <1>3, <1>4 DEF BaseInv, TurnsNumbered, TargetKnown

-----------------------------------------------------------------------------
(* The rollback's own steps.                                               *)

\* The records of a rollback under way, whatever turn_commits holds.
RbRecords(S) ==
  [stage : RbStages, sess : Sessions \cup {NoSession}, target : 0 .. MaxTurns,
   last : 0 .. MaxTurns, left : SUBSET S, git : BOOLEAN]

\* A rollback is over, the database as it was.
LEMMA RbOver ==
  ASSUME BaseInv, rb' = NoRb, hist' = Over(hist),
         UNCHANGED <<lastTurn, snap, log, tc, turn, writes>>,
         commits' = commits, head' \in Trees, idx' \in Trees, wt' \in Trees,
         reverting' \in BOOLEAN, AllCommitted'
  PROVE  BaseInv'
<1>1. hist' \in Hists
  BY OverType, TypeParts DEF BaseInv
<1>2. rb' \in RbRecords(tc')
  BY Records DEF RbRecords
<1>3. TypeOK'
  BY <1>1, <1>2 DEF BaseInv, TypeOK, Hists, RbRecords
<1>4. TurnsNumbered' /\ TargetKnown'
  BY Records DEF BaseInv, TurnsNumbered, TargetKnown
<1> QED
  BY <1>3, <1>4 DEF BaseInv

LEMMA RbBeginStep ==
  ASSUME BaseInv, NEW s \in Sessions, NEW t \in Turns, RbBegin(s, t)
  PROVE  BaseInv'
<1>1. /\ t <= lastTurn[s]
      /\ rb' = [NoRb EXCEPT !.stage = "list", !.sess = s, !.target = t, !.last = lastTurn[s]]
      /\ UNCHANGED <<lastTurn, snap, log, tc, git, turn, writes>>
  BY DEF RbBegin, db
<1> DEFINE disturbed == \E x \in Sessions : turn[x] # Idle
           start == [wt |-> wt, commits |-> Len(commits), staged |-> Staged,
                     other |-> Staged /\ hist.asked # {<<s, t>>}, own |-> OwnCommits(s, t)]
<1>2. hist' = [hist EXCEPT !.disturbed = disturbed, !.start = start]
  BY DEF RbBegin
<1>3. start \in [wt : Trees, commits : Nat, staged : BOOLEAN, other : BOOLEAN, own : SUBSET Nat]
  <2>1. wt \in Trees /\ Len(commits) \in Nat
    BY TypeParts DEF BaseInv
  <2>2. Staged \in BOOLEAN /\ (Staged /\ hist.asked # {<<s, t>>}) \in BOOLEAN
    BY DEF Staged, BaseInv, TypeOK
  <2>3. OwnCommits(s, t) \in SUBSET Nat
    <3>1. DOMAIN commits \subseteq Nat
      BY TypeParts DEF BaseInv
    <3>2. \A c \in tc \cup hist.reverts : c.hash \in Nat
      BY <3>1 DEF BaseInv, TypeOK
    <3> QED
      BY <3>2 DEF OwnCommits
  <2> QED
    BY <2>1, <2>2, <2>3
<1>4. disturbed \in BOOLEAN /\ hist \in Hists
  BY TypeParts DEF BaseInv
<1> HIDE DEF disturbed, start
<1>5. hist' \in Hists
  BY <1>2, <1>3, <1>4 DEF Hists
<1>6. lastTurn[s] \in 0 .. MaxTurns /\ t \in 0 .. MaxTurns
  BY TypeParts, Basics DEF BaseInv, Turns
<1>7. rb' \in RbRecords(tc') /\ rb'.sess = s /\ rb'.target = t /\ rb'.left = {}
  BY <1>1, <1>6 DEF RbRecords, NoRb, RbStages
<1>8. TypeOK'
  BY <1>1, <1>5, <1>7 DEF BaseInv, TypeOK, git, Hists, RbRecords
<1> QED
  BY <1>1, <1>7, <1>8, GitFrame DEF BaseInv, TurnsNumbered, TargetKnown, git

LEMMA RbListStep ==
  ASSUME BaseInv, RbList
  PROVE  BaseInv'
<1> DEFINE mine == {c \in tc : InRange(c, rb.sess, rb.target, rb.last)}
           stage == IF mine = {} THEN "db" ELSE "revert"
<1>1. /\ rb.stage = "list"
      /\ rb' = [rb EXCEPT !.left = mine, !.stage = stage, !.git = (mine # {})]
      /\ UNCHANGED <<lastTurn, snap, log, tc, git, turn, writes, hist>>
  BY DEF RbList, db
<1>2. stage \in RbStages /\ mine \in SUBSET tc /\ (mine # {}) \in BOOLEAN
  BY DEF RbStages
<1>3. rb \in RbRecords(tc)
  BY DEF BaseInv, TypeOK, RbRecords
<1> HIDE DEF mine, stage
<1>4. rb' \in RbRecords(tc') /\ rb'.sess = rb.sess /\ rb'.target = rb.target
      /\ rb'.left = mine /\ rb'.stage = stage /\ rb'.git = (mine # {})
  BY <1>1, <1>2, <1>3 DEF RbRecords
<1>5. TypeOK'
  BY <1>1, <1>4 DEF BaseInv, TypeOK, git, RbRecords
<1>6. /\ rb'.stage # "revert" => rb'.left = {}
      /\ rb'.stage = "revert" => rb'.git
  BY <1>4 DEF mine, stage
<1>7. TargetKnown'
  BY <1>1, <1>4, <1>6 DEF BaseInv, TargetKnown
<1>8. TurnsNumbered' /\ AllCommitted'
  BY <1>1, GitFrame DEF BaseInv, TurnsNumbered, git
<1> QED
  BY <1>5, <1>7, <1>8 DEF BaseInv

\* What is left to revert are recorded commits of the repository.
LEMMA LeftAreCommits ==
  ASSUME BaseInv, NEW newest \in NewestLeft
  PROVE  newest \in rb.left /\ newest \in tc /\ newest.hash \in DOMAIN commits
<1>1. newest \in rb.left
  BY DEF NewestLeft
<1>2. newest \in tc
  BY <1>1 DEF BaseInv, TypeOK
<1> QED
  BY <1>1, <1>2 DEF BaseInv, TypeOK

LEMMA RbRevertStep ==
  ASSUME BaseInv, RbRevert
  PROVE  /\ BaseInv'
         /\ \A f \in Files : idx'[f] # idx[f] => wt[f] = idx[f]
         /\ \A f \in Files : wt'[f] # wt[f] =>
              wt[f] = Absent \/ \E i \in DOMAIN commits : commits[i].to[f] = wt[f]
<1>1. PICK newest \in NewestLeft :
        LET c == commits[newest.hash]
        IN /\ rb.stage = "revert" /\ Reverts(c) /\ Writable(c)
           /\ idx' = Reverted(c, idx)
           /\ wt' = [f \in Files |-> IF idx'[f] # idx[f] THEN idx'[f] ELSE wt[f]]
           /\ reverting' = TRUE
           /\ rb' = [rb EXCEPT !.left = @ \ {newest},
                               !.stage = IF rb.left = {newest} THEN "db" ELSE @]
           /\ hist' = [hist EXCEPT !.asked = (IF Staged THEN @ ELSE {})
                                             \cup {<<rb.sess, rb.target>>}]
           /\ UNCHANGED <<db, head, commits, turn, writes>>
  BY DEF RbRevert
<1>2. newest.hash \in DOMAIN commits
  BY LeftAreCommits
<1>3. UNCHANGED <<lastTurn, snap, log, tc, head, commits, turn, writes>>
  BY <1>1 DEF db
<1>4. /\ idx' \in Trees /\ wt' \in Trees /\ AllCommitted'
      /\ \A f \in Files : idx'[f] # idx[f] => wt[f] = idx[f]
      /\ \A f \in Files : wt'[f] # wt[f] =>
           wt[f] = Absent \/ \E i \in DOMAIN commits : commits[i].to[f] = wt[f]
  BY <1>1, <1>2, <1>3, RevertKeeps DEF BaseInv
<1>5. rb.sess \in Sessions /\ rb.target \in Turns
  BY <1>1 DEF BaseInv, TargetKnown
<1>6. hist' \in Hists
  <2>1. hist \in Hists
    BY TypeParts DEF BaseInv
  <2>2. (IF Staged THEN hist.asked ELSE {}) \cup {<<rb.sess, rb.target>>}
          \in SUBSET (Sessions \X Turns)
    BY <1>5, <2>1 DEF Hists
  <2> QED
    BY <1>1, <2>1, <2>2 DEF Hists
<1>7. rb' \in RbRecords(tc') /\ rb'.sess = rb.sess /\ rb'.target = rb.target
  <2>1. rb \in RbRecords(tc)
    BY DEF BaseInv, TypeOK, RbRecords
  <2>2. "db" \in RbStages /\ rb.stage \in RbStages
    BY <1>1 DEF RbStages
  <2> QED
    BY <1>1, <1>3, <2>1, <2>2 DEF RbRecords
<1>11. rb'.stage # "revert" => rb'.left = {}
  <2>1. rb \in RbRecords(tc)
    BY DEF BaseInv, TypeOK, RbRecords
  <2>2. rb'.left = rb.left \ {newest}
        /\ rb'.stage = IF rb.left = {newest} THEN "db" ELSE rb.stage
    BY <1>1, <2>1 DEF RbRecords
  <2> QED
    BY <1>1, <2>2
<1>8. reverting' \in BOOLEAN
  BY <1>1
<1>9. TypeOK'
  BY <1>3, <1>4, <1>6, <1>7, <1>8 DEF BaseInv, TypeOK, Hists, RbRecords
<1>10. TurnsNumbered' /\ TargetKnown'
  BY <1>1, <1>3, <1>5, <1>7, <1>11 DEF BaseInv, TurnsNumbered, TargetKnown
<1> QED
  BY <1>4, <1>9, <1>10 DEF BaseInv

LEMMA RbFailStep ==
  ASSUME BaseInv, RbRefused \/ RbFailDB
  PROVE  /\ BaseInv'
         /\ \A f \in Files : wt'[f] # wt[f] =>
              wt[f] = Absent \/ \E i \in DOMAIN commits : commits[i].to[f] = wt[f]
<1>1. /\ rb' = NoRb /\ hist' = Over(hist)
      /\ UNCHANGED <<lastTurn, snap, log, tc, turn, writes>>
      /\ Abort \/ UNCHANGED git
  BY DEF RbRefused, RbFailDB, db
<1>2. CASE Abort
  <2>1. /\ commits' = commits /\ head' = head /\ idx' \in Trees /\ wt' \in Trees
        /\ reverting' \in BOOLEAN /\ AllCommitted'
        /\ \A f \in Files : wt'[f] # wt[f] =>
             wt[f] = Absent \/ \E i \in DOMAIN commits : commits[i].to[f] = wt[f]
    BY <1>2, AbortKeeps DEF BaseInv
  <2> QED
    BY <1>1, <2>1, RbOver, TypeParts DEF BaseInv
<1>3. CASE UNCHANGED git
  <2>1. /\ commits' = commits /\ head' = head /\ idx' = idx /\ wt' = wt
        /\ reverting' = reverting
    BY <1>3 DEF git
  <2> QED
    BY <1>1, <1>3, <2>1, RbOver, GitFrame, TypeParts DEF BaseInv
<1> QED
  BY <1>1, <1>2, <1>3

LEMMA RbCommitDBStep ==
  ASSUME BaseInv, RbCommitDB
  PROVE  BaseInv'
<1>1. /\ rb.stage = "db" /\ log' \subseteq log /\ tc' \subseteq tc
      /\ UNCHANGED <<lastTurn, snap, git, turn, writes>>
      /\ \/ rb' = [rb EXCEPT !.stage = "commit"] /\ hist' = hist
         \/ rb' = NoRb /\ hist' = Over(hist)
  BY DEF RbCommitDB
<1>2. rb.left = {} /\ rb \in RbRecords(tc)
  BY <1>1 DEF BaseInv, TargetKnown, TypeOK, RbRecords
<1>3. /\ rb' \in RbRecords(tc') /\ rb'.left = {} /\ rb'.stage # "revert"
      /\ rb'.stage # "idle" => rb'.sess = rb.sess /\ rb'.target = rb.target
  <2>1. CASE rb' = NoRb
    BY <2>1, Records DEF RbRecords
  <2>2. CASE rb' = [rb EXCEPT !.stage = "commit"]
    BY <1>2, <2>2 DEF RbRecords, RbStages
  <2> QED
    BY <1>1, <2>1, <2>2
<1>4. hist' \in Hists
  BY <1>1, OverType, TypeParts DEF BaseInv
<1>6. UNCHANGED <<lastTurn, snap, head, idx, wt, commits, reverting, turn, writes>>
  BY <1>1 DEF git
<1>7. /\ log' \subseteq [sess : Sessions, turn : Turns]
      /\ tc' \subseteq [sess : Sessions, turn : Turns, type : {"user", "ai"}, hash : DOMAIN commits]
  BY <1>1 DEF BaseInv, TypeOK
<1>5. TypeOK'
  BY <1>3, <1>4, <1>6, <1>7 DEF BaseInv, TypeOK, Hists, RbRecords
<1>8. TargetKnown'
  BY <1>1, <1>3 DEF BaseInv, TargetKnown
<1>9. TurnsNumbered' /\ AllCommitted'
  BY <1>6 DEF BaseInv, TurnsNumbered, AllCommitted
<1> QED
  BY <1>5, <1>8, <1>9 DEF BaseInv

LEMMA RbCommitGitStep ==
  ASSUME BaseInv, RbCommitGit
  PROVE  BaseInv'
<1>1. /\ rb.stage = "commit" /\ rb' = NoRb
      /\ UNCHANGED <<lastTurn, snap, log, tc, turn, writes>>
  BY DEF RbCommitGit, db
<1>2. /\ commits' \in Seq(Commit) /\ head' \in Trees /\ idx' \in Trees /\ wt' \in Trees
      /\ reverting' \in BOOLEAN /\ AllCommitted'
      /\ DOMAIN commits \subseteq DOMAIN commits'
  <2>1. CASE UNCHANGED git
    BY <2>1, GitFrame, TypeParts DEF BaseInv, git
  <2>2. CASE /\ commits' = Append(commits, [from |-> head, to |-> idx])
             /\ head' = idx /\ reverting' = FALSE
             /\ UNCHANGED <<idx, wt>>
    <3>1. idx \in Trees /\ wt \in Trees
      BY TypeParts DEF BaseInv
    <3> QED
      BY <2>2, <3>1, CommitKeeps DEF BaseInv, AllCommitted
  <2> QED
    BY <2>1, <2>2 DEF RbCommitGit
<1>3. hist' \in Hists
  <2> DEFINE made == {[sess |-> a[1], turn |-> a[2], hash |-> h]
                      : a \in hist.asked, h \in Len(commits) + 1 .. Len(commits')}
             over == Over(hist)
  <2>1. hist' = [over EXCEPT !.reverts = over.reverts \cup made]
    BY DEF RbCommitGit
  <2>2. over \in Hists /\ hist \in Hists
    BY OverType, TypeParts DEF BaseInv
  <2>3. made \subseteq [sess : Sessions, turn : Turns, hash : Nat]
    <3>1. Len(commits) \in Nat /\ Len(commits') \in Nat
      BY <1>2, TypeParts DEF BaseInv
    <3>2. \A h \in Len(commits) + 1 .. Len(commits') : h \in Nat
      BY <3>1
    <3>3. \A a \in hist.asked : a[1] \in Sessions /\ a[2] \in Turns
      BY <2>2 DEF Hists
    <3> QED
      BY <3>2, <3>3
  <2> HIDE DEF made, over
  <2> QED
    BY <2>1, <2>2, <2>3 DEF Hists
<1>4. TypeOK'
  <2>1. rb' \in RbRecords(tc')
    BY <1>1, Records DEF RbRecords
  <2> QED
    BY <1>1, <1>2, <1>3, <2>1, ZenonT(30) DEF BaseInv, TypeOK, Hists, RbRecords
<1>5. TurnsNumbered' /\ TargetKnown'
  BY <1>1, <1>2, Records DEF BaseInv, TurnsNumbered, TargetKnown
<1> QED
  BY <1>2, <1>4, <1>5 DEF BaseInv

LEMMA CrashStep ==
  ASSUME BaseInv, Crash
  PROVE  BaseInv'
<1>1. /\ turn' = [s \in Sessions |-> Idle] /\ rb' = NoRb
      /\ snap' = [s \in Sessions |-> Settled]
      /\ hist' = Over(hist)
      /\ UNCHANGED <<lastTurn, log, tc, git, writes>>
  BY DEF Crash
<1>2. hist' \in Hists
  BY <1>1, OverType, TypeParts DEF BaseInv
<1>3. rb' \in RbRecords(tc') /\ turn' \in [Sessions -> TurnRecords]
  BY <1>1, Records DEF RbRecords, TurnRecords
<1>4. TypeOK'
  BY <1>1, <1>2, <1>3 DEF BaseInv, TypeOK, git, Hists, RbRecords, TurnRecords
<1>5. TurnsNumbered' /\ TargetKnown'
  BY <1>1, Records DEF TurnsNumbered, TargetKnown
<1> QED
  BY <1>1, <1>4, <1>5, GitFrame DEF BaseInv

LEMMA BaseStep ==
  ASSUME BaseInv, [Next]_vars
  PROVE  BaseInv'
<1>1. ASSUME NEW s \in Sessions, Turn(s) PROVE BaseInv'
  <2>1. CASE CommitUserChanges(s)
    BY <2>1, TurnCommitStep DEF CommitUserChanges
  <2>2. CASE RecordUserCommit(s) \/ RecordAICommit(s)
    BY <2>2, TurnRecordStep DEF RecordUserCommit, RecordAICommit
  <2> QED
    BY <1>1, <2>1, <2>2, TurnBeginStep, TurnPromptStep, CommitAIStep, RowStep DEF Turn
<1>2. CASE Rb
  BY <1>2, RbListStep, RbRevertStep, RbFailStep, RbCommitDBStep, RbCommitGitStep DEF Rb
<1>3. CASE UNCHANGED vars
  <2>1. TypeOK'
    BY <1>3 DEF vars, db, git, BaseInv, TypeOK
  <2> QED
    BY <1>3, <2>1 DEF vars, db, git, BaseInv, TurnsNumbered, TargetKnown, AllCommitted
<1> QED
  BY <1>1, <1>2, <1>3, WriteStep, CoverStep, RbBeginStep, CrashStep DEF Next

-----------------------------------------------------------------------------
(* What a failing rollback gives back.                                     *)

\* Whatever happens beside a rollback shows in the history.
LEMMA BesideDisturbs ==
  ASSUME BaseInv, Restorable, UNCHANGED rb, hist' = Beside(hist)
  PROVE  Restorable'
<1>1. hist \in Hists
  BY TypeParts DEF BaseInv
<1>2. rb.stage # "idle" => hist'.disturbed
  BY <1>1, BesideType
<1> QED
  BY <1>2 DEF Restorable

LEMMA OverRestores ==
  ASSUME rb' = NoRb
  PROVE  Restorable'
BY Records DEF Restorable

LEMMA RestorableStep ==
  ASSUME BaseInv, Restorable, [Next]_vars
  PROVE  Restorable'
<1>1. ASSUME NEW s \in Sessions, TurnBegin(s) PROVE Restorable'
  <2>1. hist \in Hists /\ UNCHANGED rb
    BY <1>1, TypeParts DEF BaseInv, TurnBegin
  <2>2. hist'.disturbed = Beside(hist).disturbed
    <3>1. Beside(hist) \in Hists
      BY <2>1, BesideType
    <3> QED
      BY <1>1, <3>1 DEF TurnBegin, Hists
  <2>3. rb.stage # "idle" => hist'.disturbed
    BY <2>1, <2>2, BesideType
  <2> QED
    BY <2>1, <2>3 DEF Restorable
<1>2. ASSUME NEW s \in Sessions, SaveRow(s) PROVE Restorable'
  <2>1. hist \in Hists /\ UNCHANGED rb
    BY <1>2, TypeParts DEF BaseInv, SaveRow
  <2>2. hist'.disturbed = Beside(hist).disturbed
    <3>1. Beside(hist) \in Hists
      BY <2>1, BesideType
    <3> QED
      BY <1>2, <3>1 DEF SaveRow, Hists
  <2>3. rb.stage # "idle" => hist'.disturbed
    BY <2>1, <2>2, BesideType
  <2> QED
    BY <2>1, <2>3 DEF Restorable
<1>3. ASSUME NEW s \in Sessions, Turn(s), ~TurnBegin(s), ~SaveRow(s) PROVE Restorable'
  <2>1. UNCHANGED rb /\ hist' = Beside(hist)
    BY <1>3 DEF Turn, CommitUserChanges, RecordUserCommit, TurnPrompt, CommitAIChanges,
       RecordAICommit, ReadRow, TurnCommit, TurnRecord, Disturb
  <2> QED
    BY <2>1, BesideDisturbs
<1>4. CASE SaveCover \/ \E f \in Files : WriteFile(f)
  BY <1>4, BesideDisturbs DEF SaveCover, WriteFile, Disturb
<1>5. ASSUME NEW s \in Sessions, NEW t \in Turns, RbBegin(s, t) PROVE Restorable'
  <2>1. /\ rb' = [NoRb EXCEPT !.stage = "list", !.sess = s, !.target = t, !.last = lastTurn[s]]
        /\ UNCHANGED git
    BY <1>5 DEF RbBegin
  <2>2. hist \in Hists
    BY TypeParts DEF BaseInv
  <2>3. hist'.start.wt = wt /\ hist'.start.staged = Staged
    BY <1>5, <2>2 DEF RbBegin, Hists
  <2>4. rb'.stage = "list"
    BY <2>1 DEF NoRb
  <2>5. ~Staged => idx = head /\ ~reverting
    BY DEF Staged
  <2> QED
    BY <2>1, <2>3, <2>4, <2>5 DEF Restorable, git
<1>6. CASE RbList
  <2> DEFINE mine == {c \in tc : InRange(c, rb.sess, rb.target, rb.last)}
  <2>1. /\ rb.stage = "list"
        /\ rb' = [rb EXCEPT !.left = mine, !.stage = IF mine = {} THEN "db" ELSE "revert",
                            !.git = (mine # {})]
        /\ UNCHANGED <<git, hist>>
    BY <1>6 DEF RbList
  <2>2. rb \in RbRecords(tc)
    BY DEF BaseInv, TypeOK, RbRecords
  <2> HIDE DEF mine
  <2>3. rb'.stage \in {"db", "revert"}
    BY <2>1, <2>2 DEF RbRecords
  <2> QED
    BY <2>1, <2>3 DEF Restorable, git
<1>7. CASE RbRevert
  <2>1. /\ rb.stage = "revert" /\ reverting' = TRUE /\ head' = head
        /\ wt' = [f \in Files |-> IF idx'[f] # idx[f] THEN idx'[f] ELSE wt[f]]
        /\ hist'.disturbed = hist.disturbed /\ hist'.start = hist.start
    <3>1. hist \in Hists
      BY TypeParts DEF BaseInv
    <3> QED
      BY <1>7, <3>1 DEF RbRevert, Hists
  <2>2. \A f \in Files : idx'[f] # idx[f] => wt[f] = idx[f]
    BY <1>7, RbRevertStep
  <2>3. rb'.git = rb.git /\ rb'.stage \in {"revert", "db"}
    <3>1. rb \in RbRecords(tc)
      BY DEF BaseInv, TypeOK, RbRecords
    <3> QED
      BY <1>7, <2>1, <3>1 DEF RbRevert, RbRecords
  <2>4. rb.git
    BY <2>1 DEF BaseInv, TargetKnown
  <2> QED
    BY <2>1, <2>2, <2>3, <2>4 DEF Restorable
<1>8. CASE RbRefused \/ RbFailDB \/ RbCommitGit \/ Crash
  BY <1>8, OverRestores DEF RbRefused, RbFailDB, RbCommitGit, Crash
<1>9. CASE RbCommitDB
  <2>1. rb \in RbRecords(tc)
    BY DEF BaseInv, TypeOK, RbRecords
  <2>2. rb' = NoRb \/ rb' = [rb EXCEPT !.stage = "commit"]
    BY <1>9 DEF RbCommitDB
  <2>3. rb'.stage \notin {"list", "revert", "db"}
    BY <2>1, <2>2, Records DEF RbRecords
  <2> QED
    BY <2>3 DEF Restorable
<1>10. CASE UNCHANGED vars
  BY <1>10 DEF vars, git, Restorable
<1> QED
  BY <1>1, <1>2, <1>3, <1>4, <1>5, <1>6, <1>7, <1>8, <1>9, <1>10 DEF Next, Rb

-----------------------------------------------------------------------------
(* The theorems.                                                           *)

LEMMA RollbackInit == Init => RollbackInv
<1> SUFFICES ASSUME Init PROVE RollbackInv
  OBVIOUS
<1>1. hist \in Hists
  BY Basics DEF Init, Hists, NoStart
<1>6. /\ rb \in RbRecords(tc) /\ turn \in [Sessions -> TurnRecords]
  BY Records DEF Init, RbRecords, TurnRecords
<1>7. /\ lastTurn \in [Sessions -> 0 .. MaxTurns]
      /\ snap \in [Sessions -> {Asking, Settled} \cup Turns]
      /\ writes \in 0 .. MaxEvents
  BY Basics DEF Init, Absent
<1>9. head \in Trees /\ idx \in Trees /\ wt \in Trees
  BY Basics DEF Init
<1>10. reverting \in BOOLEAN
  BY DEF Init
<1>11. commits \in Seq(Commit)
  BY DEF Init
<1>8. /\ log \subseteq [sess : Sessions, turn : Turns]
      /\ tc \subseteq [sess : Sessions, turn : Turns, type : {"user", "ai"},
                       hash : DOMAIN commits]
  BY DEF Init
<1>2. TypeOK
  BY <1>1, <1>6, <1>7, <1>8, <1>9, <1>10, <1>11 DEF TypeOK, Hists, RbRecords, TurnRecords
<1>3. TurnsNumbered /\ TargetKnown
  BY Records DEF Init, TurnsNumbered, TargetKnown
<1>4. AllCommitted
  BY DEF Init, AllCommitted, Stored, Clean
<1>5. Restorable
  BY Records DEF Init, Restorable
<1> QED
  BY <1>2, <1>3, <1>4, <1>5 DEF RollbackInv

\* The state of every run of turns, edits, rollbacks and crashes: the types, and
\* that everything git holds beside the working tree is in a commit, and that a
\* rollback can take back what it has done so far.
THEOREM RollbackInvariant == Spec => []RollbackInv
<1>1. Init => RollbackInv
  BY RollbackInit
<1>2. RollbackInv /\ [Next]_vars => RollbackInv'
  BY BaseStep, RestorableStep DEF RollbackInv, BaseInv
<1> QED
  BY <1>1, <1>2, PTL DEF Spec

\* RevertNoCommit, RevertAbort and the commit of a rollback never take away a
\* text that is in no commit (rollback.go, git/repo.go).
THEOREM EveryTextKeptHolds == Spec => EveryTextKept
<1> DEFINE Kept == Rb => \A f \in Files :
                     wt'[f] # wt[f] => \/ wt[f] = Absent
                                       \/ \E i \in DOMAIN commits : commits[i].to[f] = wt[f]
<1>1. RollbackInv /\ [Next]_vars => [Kept]_vars
  <2> SUFFICES ASSUME RollbackInv, Rb, NEW f \in Files, wt'[f] # wt[f]
               PROVE  \/ wt[f] = Absent
                      \/ \E i \in DOMAIN commits : commits[i].to[f] = wt[f]
    OBVIOUS
  <2>1. BaseInv
    BY DEF RollbackInv, BaseInv
  <2>2. CASE RbRevert
    BY <2>1, <2>2, RbRevertStep
  <2>3. CASE RbRefused \/ RbFailDB
    BY <2>1, <2>3, RbFailStep
  <2>4. CASE RbList \/ RbCommitDB \/ RbCommitGit
    BY <2>4 DEF RbList, RbCommitDB, RbCommitGit, git
  <2> QED
    BY <2>2, <2>3, <2>4 DEF Rb
<1> QED
  BY <1>1, RollbackInvariant, PTL DEF Spec, EveryTextKept

\* RollbackBeforeTurn that fails before the database has changed leaves the files
\* as it found them and nothing staged.
THEOREM NothingHalfUndoneHolds == Spec => NothingHalfUndone
<1> DEFINE Failed == (RbRefused \/ RbFailDB) /\ Undisturbed /\ ~hist.start.staged =>
                       wt' = hist.start.wt /\ idx' = head' /\ ~reverting'
<1>1. RollbackInv /\ [Next]_vars => [Failed]_vars
  <2> SUFFICES ASSUME RollbackInv, RbRefused \/ RbFailDB, ~hist.disturbed, ~hist.start.staged
               PROVE  wt' = hist.start.wt /\ idx' = head' /\ ~reverting'
    BY DEF Undisturbed
  <2>1. /\ ~reverting => idx = head
        /\ \A f \in Files : IF idx[f] = head[f] THEN wt[f] = hist.start.wt[f]
                             ELSE wt[f] = idx[f] /\ hist.start.wt[f] = head[f]
        /\ rb.stage = "db" /\ ~rb.git => ~reverting
    BY DEF RbRefused, RbFailDB, RollbackInv, Restorable
  <2>2. /\ head \in Trees /\ idx \in Trees /\ wt \in Trees /\ hist.start.wt \in Trees
    BY DEF RollbackInv, TypeOK
  <2>3. CASE reverting
    <3>1. Abortable
      BY <2>1, <2>3 DEF Abortable
    <3>2. Abort
      BY <2>1, <2>3 DEF RbRefused, RbFailDB
    <3>3. wt' = [f \in Files |-> IF idx[f] # head[f] THEN head[f] ELSE wt[f]]
          /\ idx' = head /\ head' = head /\ reverting' = FALSE
      BY <3>1, <3>2 DEF Abort
    <3>4. wt' = [f \in Files |-> hist.start.wt[f]]
      BY <2>1, <3>3
    <3> QED
      BY <2>2, <3>3, <3>4 DEF Trees
  <2>4. CASE ~reverting
    <3>1. UNCHANGED git
      BY <2>4 DEF RbRefused, RbFailDB, Abort, Abortable
    <3>2. wt = [f \in Files |-> hist.start.wt[f]]
      BY <2>1, <2>2, <2>4 DEF Trees
    <3> QED
      BY <2>1, <2>2, <2>4, <3>1, <3>2 DEF git, Trees
  <2> QED
    BY <2>3, <2>4
<1> QED
  BY <1>1, RollbackInvariant, PTL DEF Spec, NothingHalfUndone

-----------------------------------------------------------------------------
(* What a rollback that reaches the database has staged.                   *)

\* The files after the first n commits of cs.
Made(cs, n) == IF n = 0 THEN Clean ELSE cs[n].to

\* Each commit starts from what the one before it made: a file has one content for
\* as long as no commit touches it.
Chained ==
  /\ head = Made(commits, Len(commits))
  /\ \A i \in DOMAIN commits : commits[i].from = Made(commits, i - 1)
  /\ \A i, j \in 0 .. Len(commits) : \A f \in Files :
       i <= j /\ (\A k \in i + 1 .. j : f \notin Touched(commits[k]))
         => Made(commits, i)[f] = Made(commits, j)[f]

\* A commit is a turn's or a rollback's, never both.
OneMaker ==
  \A r \in hist.reverts :
    /\ r.hash \in DOMAIN commits
    /\ \A c \in tc : c.hash # r.hash
    /\ \A s \in Sessions : turn[s].stage \in {"user", "ai"} => turn[s].hash # r.hash

\* As long as no old row has been saved a session's turns are numbered in the order
\* they began in, and so are their commits.
InOrder ==
  ~hist.stale =>
    /\ \A s \in Sessions : \A t \in Turns : t <= lastTurn[s] =>
         /\ hist.before[s][t] <= Len(commits)
         /\ \A u \in Turns : u <= t => hist.before[s][u] <= hist.before[s][t]
    /\ \A s \in Sessions :
         /\ turn[s].stage # "idle" => turn[s].id = lastTurn[s]
         /\ turn[s].stage \in {"user", "ai"} => hist.before[s][turn[s].id] < turn[s].hash
    /\ \A c \in tc :
         /\ c.turn <= lastTurn[c.sess] /\ hist.before[c.sess][c.turn] < c.hash
         /\ \A t \in Turns : c.turn < t /\ t <= lastTurn[c.sess] => c.hash <= hist.before[c.sess][t]

\* One of the commits cs up to n that are no rollback's, of the history h, changed f
\* since turn t of s began.
ByTurn(h, cs, s, t, f, n) ==
  \E i \in h.before[s][t] + 1 .. n :
    f \in Touched(cs[i]) /\ \A r \in h.reverts : r.hash # i

\* What is staged, and what a rollback has committed, takes back what a turn did that
\* the rollback was asked to undo.
TakesBack ==
  ~hist.stale =>
    /\ \A a \in hist.asked : a[2] <= lastTurn[a[1]]
    /\ \A f \in Files : idx[f] # head[f] =>
         \E a \in hist.asked : ByTurn(hist, commits, a[1], a[2], f, Len(commits))
    /\ \A r \in hist.reverts : r.turn <= lastTurn[r.sess]
    /\ \A r \in hist.reverts : \A f \in Touched(commits[r.hash]) :
         \E q \in hist.reverts : q.hash = r.hash /\ ByTurn(hist, commits, q.sess, q.turn, f, r.hash - 1)

\* The commits that the rollback under way has to revert, and those it has.
Mine == {c \in tc : c.sess = rb.sess /\ c.turn >= rb.target}
Done == IF rb.stage = "list" THEN {} ELSE Mine \ rb.left
LeftMine == rb.left \subseteq Mine
Changed(f) == {c \in Done : f \in Touched(commits[c.hash])}

\* The rollback under way goes from the newest commit to the oldest: a file holds,
\* staged, what was there before the oldest one reverted so far.
Underway ==
  rb.stage \in {"list", "revert", "db"} /\ ~hist.disturbed /\ ~hist.stale =>
    /\ hist.start.commits = Len(commits) /\ hist.start.own = OwnCommits(rb.sess, rb.target)
    /\ rb.target <= lastTurn[rb.sess] /\ rb.last = lastTurn[rb.sess]
    /\ \A d \in Done : \A c \in rb.left : Before(c, d)
    /\ ~hist.start.other => \A f \in Files :
         IF Changed(f) = {}
         THEN idx[f] # head[f] => ByTurn(hist, commits, rb.sess, rb.target, f, Len(commits))
         ELSE \E c \in Changed(f) : /\ idx[f] = commits[c.hash].from[f]
                                    /\ \A d \in Changed(f) \ {c} : Before(c, d)

RestoredInv == Chained /\ OneMaker /\ InOrder /\ TakesBack /\ LeftMine /\ Underway

\* A step leaves the commits alone, or makes one of everything it has staged.
SameCommits == commits' = commits /\ head' = head
NewCommit ==
  /\ Len(commits') = Len(commits) + 1
  /\ \A i \in 1 .. Len(commits) : commits'[i] = commits[i]
  /\ commits'[Len(commits) + 1].from = head /\ commits'[Len(commits) + 1].to = head'
  /\ idx' = head'

LEMMA CommitFacts ==
  ASSUME BaseInv
  PROVE  /\ Len(commits) \in Nat /\ DOMAIN commits = 1 .. Len(commits)
         /\ \A i \in 1 .. Len(commits) : commits[i].from \in Trees /\ commits[i].to \in Trees
         /\ head \in Trees /\ idx \in Trees
<1>1. commits \in Seq(Commit) /\ head \in Trees /\ idx \in Trees
  BY DEF BaseInv, TypeOK
<1>2. /\ Len(commits) \in Nat /\ DOMAIN commits = 1 .. Len(commits)
      /\ \A i \in 1 .. Len(commits) : commits[i] \in Commit
  BY <1>1
<1> QED
  BY <1>1, <1>2 DEF Commit

LEMMA Appended ==
  ASSUME BaseInv, NEW to \in Trees, commits' = Append(commits, [from |-> head, to |-> to]),
         head' = to, idx' = to
  PROVE  NewCommit
<1> DEFINE c == [from |-> head, to |-> to]
<1>1. c \in Commit /\ c.from = head /\ c.to = to /\ commits \in Seq(Commit)
  BY DEF Commit, BaseInv, TypeOK
<1> HIDE DEF c
<1>2. commits' = Append(commits, c)
  BY DEF c
<1> QED
  BY <1>1, <1>2, CommitAppended DEF NewCommit

LEMMA AllAppended ==
  ASSUME BaseInv, CommitAll
  PROVE  NewCommit
BY Appended DEF CommitAll, BaseInv, TypeOK

LEMMA GitMoves ==
  ASSUME BaseInv, [Next]_vars
  PROVE  SameCommits \/ NewCommit
<1>1. ASSUME NEW s \in Sessions, Turn(s) PROVE SameCommits \/ NewCommit
  <2>1. CASE TurnBegin(s) \/ RecordUserCommit(s) \/ RecordAICommit(s) \/ TurnPrompt(s)
             \/ ReadRow(s) \/ SaveRow(s)
    BY <2>1 DEF TurnBegin, RecordUserCommit, RecordAICommit, TurnRecord, TurnPrompt, ReadRow,
       SaveRow, git, SameCommits
  <2>2. CASE CommitUserChanges(s) \/ CommitAIChanges(s)
    BY <2>2, AllAppended DEF CommitUserChanges, TurnCommit, CommitAIChanges, git, SameCommits
  <2> QED
    BY <1>1, <2>1, <2>2 DEF Turn
<1>2. CASE RbCommitGit
  <2>1. idx \in Trees
    BY CommitFacts
  <2> QED
    BY <1>2, <2>1, Appended DEF RbCommitGit, git, SameCommits
<1>3. CASE RbList \/ RbRevert \/ RbRefused \/ RbCommitDB \/ RbFailDB
  BY <1>3 DEF RbList, RbRevert, RbRefused, RbCommitDB, RbFailDB, Abort, git, SameCommits
<1>4. CASE (\E f \in Files : WriteFile(f)) \/ (\E s \in Sessions, t \in Turns : RbBegin(s, t))
           \/ UNCHANGED vars
  BY <1>4 DEF WriteFile, RbBegin, vars, git, SameCommits
<1>5. CASE SaveCover
  BY <1>5, AllAppended DEF SaveCover
<1>6. CASE Crash
  BY <1>6 DEF Crash, git, SameCommits
<1> QED
  BY <1>1, <1>2, <1>3, <1>4, <1>5, <1>6 DEF Next, Rb

LEMMA ChainedStep ==
  ASSUME BaseInv, BaseInv', Chained, SameCommits \/ NewCommit
  PROVE  Chained'
<1>1. CASE SameCommits
  BY <1>1 DEF SameCommits, Chained, Made, Touched
<1>2. CASE NewCommit
  <2> DEFINE n == Len(commits)
  <2>1. /\ n \in Nat /\ Len(commits') = n + 1 /\ DOMAIN commits' = 1 .. n + 1
        /\ DOMAIN commits = 1 .. n
        /\ \A i \in 1 .. n : commits'[i] = commits[i]
        /\ commits'[n + 1].from = head /\ commits'[n + 1].to = head'
    BY <1>2, CommitFacts, BaseInv' DEF NewCommit, BaseInv, TypeOK
  <2>2. head = Made(commits, n)
    BY DEF Chained
  <2> HIDE DEF n
  <2>3. \A i \in 0 .. n : Made(commits', i) = Made(commits, i)
    BY <2>1 DEF Made
  <2>4. head' = Made(commits', n + 1)
    BY <2>1 DEF Made
  <2>5. ASSUME NEW i \in DOMAIN commits' PROVE commits'[i].from = Made(commits', i - 1)
    <3>1. CASE i \in 1 .. n
      <4>1. commits[i].from = Made(commits, i - 1) /\ i - 1 \in 0 .. n
        BY <2>1, <3>1 DEF Chained
      <4> QED
        BY <2>1, <2>3, <3>1, <4>1
    <3>2. CASE i = n + 1
      <4>1. i - 1 = n /\ n \in 0 .. n
        BY <2>1, <3>2
      <4> QED
        BY <2>1, <2>2, <2>3, <3>2, <4>1
    <3> QED
      BY <2>1, <3>1, <3>2
  <2>6. ASSUME NEW i \in 0 .. n + 1, NEW j \in 0 .. n + 1, NEW f \in Files, i <= j,
               \A k \in i + 1 .. j : f \notin Touched(commits'[k])
        PROVE  Made(commits', i)[f] = Made(commits', j)[f]
    <3>1. ASSUME NEW m \in 0 .. n, i <= m, m <= j PROVE Made(commits', i)[f] = Made(commits', m)[f]
      <4>1. i \in 0 .. n /\ \A k \in i + 1 .. m : k \in 1 .. n /\ k \in i + 1 .. j
        BY <2>1, <3>1
      <4>2. \A k \in i + 1 .. m : f \notin Touched(commits[k])
        BY <2>1, <2>6, <4>1
      <4>3. Made(commits, i)[f] = Made(commits, m)[f]
        BY <2>1, <3>1, <4>1, <4>2 DEF Chained, n
      <4> QED
        BY <2>3, <4>1, <4>3
    <3>2. CASE j \in 0 .. n
      BY <2>6, <3>1, <3>2
    <3>3. CASE i = j
      BY <3>3
    <3>4. CASE j = n + 1 /\ i # j
      <4>1. n \in 0 .. n /\ i <= n /\ n <= j /\ n + 1 \in i + 1 .. j
        BY <2>1, <2>6, <3>4
      <4>2. f \notin Touched(commits'[n + 1])
        BY <2>6, <4>1
      <4>3. head[f] = head'[f]
        BY <2>1, <4>2 DEF Touched
      <4>4. Made(commits', i)[f] = Made(commits', n)[f] /\ Made(commits', n) = head
        BY <2>2, <2>3, <3>1, <4>1
      <4> QED
        BY <2>4, <3>4, <4>3, <4>4
    <3> QED
      BY <2>1, <3>2, <3>3, <3>4
  <2> QED
    BY <2>1, <2>4, <2>5, <2>6 DEF Chained
<1> QED
  BY <1>1, <1>2

\* What the history says of the past stays when something happens beside a rollback,
\* and when one is over.
SamePast(h) ==
  /\ h.before = hist.before /\ h.stale = hist.stale
  /\ h.asked = hist.asked /\ h.reverts = hist.reverts

LEMMA PastKept ==
  ASSUME BaseInv
  PROVE  SamePast(Beside(hist)) /\ SamePast(Over(hist)) /\ SamePast(hist)
BY TypeParts DEF BaseInv, Hists, SamePast, Beside, Over

\* How turns and the rows of their commits move, but for a turn that begins and for
\* an old row that is saved.
TurnsMove ==
  /\ hist'.stale = hist.stale /\ hist'.before = hist.before /\ lastTurn' = lastTurn
  /\ \A s \in Sessions :
       \/ turn'[s] = turn[s]
       \/ turn'[s].stage = "idle"
       \/ /\ turn'[s].id = turn[s].id /\ turn[s].stage # "idle"
          /\ turn'[s].stage \in {"user", "ai"} => turn'[s].hash = Len(commits) + 1 /\ NewCommit
  /\ \A c \in tc' : \/ c \in tc
                    \/ /\ turn[c.sess].stage \in {"user", "ai"}
                       /\ c.turn = turn[c.sess].id /\ c.hash = turn[c.sess].hash

LEMMA TurnMoved ==
  ASSUME BaseInv, NEW s \in Sessions, Turn(s), ~TurnBegin(s), ~SaveRow(s)
  PROVE  TurnsMove /\ hist'.reverts = hist.reverts
<1>1. /\ SamePast(Beside(hist))
      /\ turn \in [Sessions -> TurnRecords]
  BY PastKept DEF BaseInv, TypeOK, TurnRecords
<1>2. \A x \in Sessions : turn[x] \in TurnRecords
  BY <1>1
<1>3. hist' = Beside(hist) /\ lastTurn' = lastTurn
  BY <1>1 DEF Turn, CommitUserChanges, RecordUserCommit, TurnPrompt, CommitAIChanges,
     RecordAICommit, ReadRow, TurnCommit, TurnRecord, Disturb, db
<1>4. CASE \/ turn' = [turn EXCEPT ![s].stage = "prompt"] /\ turn[s].stage = "numbered"
           \/ turn' = [turn EXCEPT ![s].stage = "running"] /\ turn[s].stage = "prompt"
           \/ turn' = [turn EXCEPT ![s] = Idle]
           \/ turn' = turn
  <2>1. \A x \in Sessions :
          \/ turn'[x] = turn[x]
          \/ turn'[x].stage = "idle"
          \/ /\ turn'[x].id = turn[x].id /\ turn[x].stage # "idle"
             /\ turn'[x].stage \notin {"user", "ai"}
    BY <1>1, <1>2, <1>4, Records DEF TurnRecords
  <2>2. CASE tc' = tc
    BY <1>1, <1>3, <2>1, <2>2 DEF TurnsMove, SamePast
  <2>3. CASE tc' # tc
    <3>1. PICK type \in {"user", "ai"} :
            /\ turn[s].stage = type
            /\ tc' \subseteq tc \cup {[sess |-> s, turn |-> turn[s].id, type |-> type,
                                       hash |-> turn[s].hash]}
      BY <2>3 DEF Turn, CommitUserChanges, RecordUserCommit, TurnPrompt, CommitAIChanges,
         RecordAICommit, ReadRow, TurnCommit, TurnRecord, db
    <3> QED
      BY <1>1, <1>3, <2>1, <3>1 DEF TurnsMove, SamePast
  <2> QED
    BY <2>2, <2>3
<1>5. CASE CommitUserChanges(s) /\ CommitAll
           /\ turn' = [turn EXCEPT ![s].stage = "user", ![s].hash = Len(commits) + 1]
           /\ turn[s].stage = "numbered"
  <2>1. tc' = tc /\ NewCommit
    BY <1>5, AllAppended DEF CommitUserChanges, TurnCommit, db
  <2>2. \A x \in Sessions :
          \/ turn'[x] = turn[x]
          \/ /\ turn'[x].id = turn[x].id /\ turn[x].stage # "idle"
             /\ turn'[x].hash = Len(commits) + 1
    BY <1>1, <1>2, <1>5 DEF TurnRecords
  <2> QED
    BY <1>1, <1>3, <2>1, <2>2 DEF TurnsMove, SamePast
<1>6. CASE CommitAIChanges(s) /\ CommitAll
           /\ turn' = [turn EXCEPT ![s].stage = "ai", ![s].hash = Len(commits) + 1]
           /\ turn[s].stage = "running"
  <2>1. tc' = tc /\ NewCommit
    BY <1>6, AllAppended DEF CommitAIChanges, db
  <2>2. \A x \in Sessions :
          \/ turn'[x] = turn[x]
          \/ /\ turn'[x].id = turn[x].id /\ turn[x].stage # "idle"
             /\ turn'[x].hash = Len(commits) + 1
    BY <1>1, <1>2, <1>6 DEF TurnRecords
  <2> QED
    BY <1>1, <1>3, <2>1, <2>2 DEF TurnsMove, SamePast
<1>7. CASE RecordUserCommit(s)
  <2>1. /\ turn[s].stage = "user"
        /\ turn' = [turn EXCEPT ![s] = [@ EXCEPT !.stage = "prompt"]]
        /\ tc' \subseteq tc \cup {[sess |-> s, turn |-> turn[s].id, type |-> "user",
                                   hash |-> turn[s].hash]}
    BY <1>7 DEF RecordUserCommit, TurnRecord
  <2>2. \A x \in Sessions :
          \/ turn'[x] = turn[x]
          \/ /\ turn'[x].id = turn[x].id /\ turn[x].stage # "idle"
             /\ turn'[x].stage \notin {"user", "ai"}
    BY <1>1, <1>2, <2>1 DEF TurnRecords
  <2> QED
    BY <1>1, <1>3, <2>1, <2>2 DEF TurnsMove, SamePast
<1>8. CASE ReadRow(s) \/ RecordAICommit(s) \/ TurnPrompt(s)
  BY <1>4, <1>8 DEF ReadRow, RecordAICommit, TurnRecord, TurnPrompt
<1> QED
  BY <1>1, <1>4, <1>5, <1>6, <1>7, <1>8 DEF Turn, CommitUserChanges, TurnCommit, CommitAIChanges

\* The commit of a rollback, if it makes one, goes down as every rollback's that staged
\* something of it.
RevertsMade ==
  {[sess |-> a[1], turn |-> a[2], hash |-> h]
   : a \in hist.asked, h \in Len(commits) + 1 .. Len(commits')}

LEMMA CommitGitMoved ==
  ASSUME BaseInv, RbCommitGit
  PROVE  /\ hist'.before = hist.before /\ hist'.stale = hist.stale /\ hist'.asked = hist.asked
         /\ hist'.reverts = hist.reverts \cup RevertsMade
         /\ TurnsMove
<1>1. Over(hist) \in Hists /\ SamePast(Over(hist))
  BY OverType, TypeParts, PastKept DEF BaseInv
<1>2. hist' = [Over(hist) EXCEPT !.reverts = @ \cup RevertsMade]
  BY DEF RbCommitGit, RevertsMade
<1>3. /\ hist'.before = hist.before /\ hist'.stale = hist.stale /\ hist'.asked = hist.asked
      /\ hist'.reverts = hist.reverts \cup RevertsMade
  BY <1>1, <1>2 DEF Hists, SamePast
<1>4. UNCHANGED <<lastTurn, tc, turn>>
  BY DEF RbCommitGit, db
<1> QED
  BY <1>3, <1>4 DEF TurnsMove

LEMMA OthersMoved ==
  ASSUME BaseInv, [Next]_vars, ~RbCommitGit, \A s \in Sessions : ~Turn(s)
  PROVE  TurnsMove /\ hist'.reverts = hist.reverts
<1>1. SamePast(Beside(hist)) /\ SamePast(Over(hist)) /\ SamePast(hist)
  BY PastKept
<1>2. CASE RbRevert
  <2>1. /\ hist' = [hist EXCEPT !.asked = (IF Staged THEN @ ELSE {}) \cup {<<rb.sess, rb.target>>}]
        /\ UNCHANGED <<lastTurn, tc, turn>>
    BY <1>2 DEF RbRevert, db
  <2>2. hist \in Hists
    BY TypeParts DEF BaseInv
  <2>3. hist'.before = hist.before /\ hist'.stale = hist.stale /\ hist'.reverts = hist.reverts
    BY <2>1, <2>2 DEF Hists
  <2> QED
    BY <2>1, <2>3 DEF TurnsMove
<1>3. ASSUME NEW s \in Sessions, NEW t \in Turns, RbBegin(s, t)
      PROVE  TurnsMove /\ hist'.reverts = hist.reverts
  <2>1. UNCHANGED <<lastTurn, tc, turn>>
    BY <1>3 DEF RbBegin, db
  <2>2. hist \in Hists
    BY TypeParts DEF BaseInv
  <2>3. hist'.before = hist.before /\ hist'.stale = hist.stale /\ hist'.reverts = hist.reverts
    BY <1>3, <2>2 DEF RbBegin, Hists
  <2> QED
    BY <2>1, <2>3 DEF TurnsMove
<1>4. CASE Crash
  BY <1>1, <1>4, Records DEF Crash, TurnsMove, SamePast
<1>5. CASE RbRefused \/ RbFailDB \/ RbCommitDB
  <2>1. /\ UNCHANGED <<lastTurn, turn>> /\ tc' \subseteq tc
        /\ hist' = hist \/ hist' = Over(hist)
    BY <1>5 DEF RbRefused, RbFailDB, RbCommitDB, db
  <2> QED
    BY <1>1, <2>1 DEF TurnsMove, SamePast
<1>6. CASE RbList \/ SaveCover \/ (\E f \in Files : WriteFile(f)) \/ UNCHANGED vars
  <2>1. UNCHANGED <<lastTurn, turn, tc>> /\ (hist' = hist \/ hist' = Beside(hist))
    BY <1>6 DEF RbList, SaveCover, WriteFile, vars, db, Disturb
  <2> QED
    BY <1>1, <2>1 DEF TurnsMove, SamePast
<1> QED
  BY <1>2, <1>3, <1>4, <1>5, <1>6 DEF Next, Rb

LEMMA LongerCommits ==
  ASSUME BaseInv, BaseInv', SameCommits \/ NewCommit
  PROVE  /\ Len(commits) \in Nat /\ Len(commits') \in Nat /\ Len(commits) <= Len(commits')
         /\ DOMAIN commits = 1 .. Len(commits) /\ DOMAIN commits' = 1 .. Len(commits')
         /\ \A i \in 1 .. Len(commits) : commits'[i] = commits[i]
<1>1. /\ Len(commits) \in Nat /\ Len(commits') \in Nat
      /\ DOMAIN commits = 1 .. Len(commits) /\ DOMAIN commits' = 1 .. Len(commits')
  BY DEF BaseInv, TypeOK
<1>2. CASE SameCommits
  BY <1>1, <1>2 DEF SameCommits
<1>3. CASE NewCommit
  BY <1>1, <1>3 DEF NewCommit
<1> QED
  BY <1>2, <1>3

LEMMA TurnBeginMoved ==
  ASSUME BaseInv, NEW s \in Sessions, TurnBegin(s)
  PROVE  /\ lastTurn[s] + 1 \in Turns
         /\ lastTurn' = [lastTurn EXCEPT ![s] = lastTurn[s] + 1]
         /\ hist'.before = [hist.before EXCEPT ![s] = [@ EXCEPT ![lastTurn[s] + 1] = Len(commits)]]
         /\ turn' = [turn EXCEPT ![s] = [stage |-> "numbered", id |-> lastTurn[s] + 1, hash |-> 0]]
         /\ hist'.stale = hist.stale /\ hist'.asked = hist.asked /\ hist'.reverts = hist.reverts
         /\ UNCHANGED <<tc, git, rb>>
<1>1. /\ lastTurn[s] + 1 <= MaxTurns /\ lastTurn[s] \in 0 .. MaxTurns
      /\ lastTurn' = [lastTurn EXCEPT ![s] = lastTurn[s] + 1]
      /\ turn' = [turn EXCEPT ![s] = [stage |-> "numbered", id |-> lastTurn[s] + 1, hash |-> 0]]
      /\ hist' = [Beside(hist) EXCEPT !.before[s][lastTurn[s] + 1] = Len(commits)]
      /\ UNCHANGED <<tc, git, rb>>
  BY DEF TurnBegin, BaseInv, TypeOK
<1>2. Beside(hist) \in Hists /\ SamePast(Beside(hist))
  BY BesideType, PastKept, TypeParts DEF BaseInv
<1>3. lastTurn[s] + 1 \in Turns
  BY <1>1, Basics DEF Turns
<1>4. hist'.before = [hist.before EXCEPT ![s] = [@ EXCEPT ![lastTurn[s] + 1] = Len(commits)]]
  BY <1>1, <1>2 DEF Hists, SamePast
<1>5. hist'.stale = hist.stale /\ hist'.asked = hist.asked /\ hist'.reverts = hist.reverts
  BY <1>1, <1>2 DEF Hists, SamePast
<1> QED
  BY <1>1, <1>3, <1>4, <1>5

LEMMA SaveRowMoved ==
  ASSUME BaseInv, NEW s \in Sessions, SaveRow(s)
  PROVE  /\ hist'.stale \/ TurnsMove
         /\ hist'.asked = hist.asked /\ hist'.reverts = hist.reverts
         /\ hist'.before = hist.before
         /\ UNCHANGED <<tc, turn, git, rb>>
<1>1. /\ snap[s] \in Turns /\ lastTurn \in [Sessions -> 0 .. MaxTurns]
      /\ lastTurn' = [lastTurn EXCEPT ![s] = snap[s]]
      /\ hist' = [Beside(hist) EXCEPT !.stale = @ \/ lastTurn[s] # snap[s]]
      /\ UNCHANGED <<tc, turn, git, rb>>
  BY DEF SaveRow, BaseInv, TypeOK
<1>2. Beside(hist) \in Hists /\ SamePast(Beside(hist))
  BY BesideType, PastKept, TypeParts DEF BaseInv
<1>3. /\ hist'.stale = (hist.stale \/ lastTurn[s] # snap[s])
      /\ hist'.asked = hist.asked /\ hist'.reverts = hist.reverts /\ hist'.before = hist.before
  BY <1>1, <1>2 DEF Hists, SamePast
<1>4. hist.stale \in BOOLEAN
  BY TypeParts DEF BaseInv, Hists
<1>5. CASE lastTurn[s] = snap[s]
  <2>1. lastTurn' = lastTurn /\ hist'.stale = hist.stale
    BY <1>1, <1>3, <1>4, <1>5
  <2> QED
    BY <1>1, <1>3, <2>1 DEF TurnsMove
<1> QED
  BY <1>1, <1>3, <1>5

-----------------------------------------------------------------------------
(* Who made a commit, and in which order.                                  *)

LEMMA OneMakerStep ==
  ASSUME BaseInv, BaseInv', OneMaker, SameCommits \/ NewCommit, [Next]_vars
  PROVE  OneMaker'
<1>1. /\ Len(commits) \in Nat /\ Len(commits') \in Nat /\ Len(commits) <= Len(commits')
      /\ DOMAIN commits = 1 .. Len(commits) /\ DOMAIN commits' = 1 .. Len(commits')
  BY LongerCommits
<1>2. \A c \in tc' : c.sess \in Sessions
  BY DEF BaseInv, TypeOK
<1>3. ASSUME TurnsMove, hist'.reverts = hist.reverts PROVE OneMaker'
  <2> SUFFICES ASSUME NEW r \in hist.reverts
               PROVE  /\ r.hash \in DOMAIN commits'
                      /\ \A c \in tc' : c.hash # r.hash
                      /\ \A s \in Sessions : turn'[s].stage \in {"user", "ai"} => turn'[s].hash # r.hash
    BY <1>3 DEF OneMaker
  <2>1. /\ r.hash \in 1 .. Len(commits)
        /\ \A c \in tc : c.hash # r.hash
        /\ \A s \in Sessions : turn[s].stage \in {"user", "ai"} => turn[s].hash # r.hash
    BY <1>1 DEF OneMaker
  <2>2. Len(commits) + 1 # r.hash /\ r.hash \in DOMAIN commits'
    BY <1>1, <2>1
  <2> QED
    BY <1>2, <1>3, <2>1, <2>2 DEF TurnsMove
<1>4. ASSUME NEW s \in Sessions, TurnBegin(s) PROVE OneMaker'
  <2>1. \A x \in Sessions : turn'[x] = turn[x] \/ turn'[x].stage = "numbered"
    <3>1. turn' = [turn EXCEPT ![s] = [stage |-> "numbered", id |-> lastTurn[s] + 1, hash |-> 0]]
      BY <1>4, TurnBeginMoved
    <3> QED
      BY <3>1 DEF BaseInv, TypeOK
  <2>2. tc' = tc /\ commits' = commits /\ hist'.reverts = hist.reverts
    BY <1>4, TurnBeginMoved DEF git
  <2> QED
    BY <1>1, <2>1, <2>2 DEF OneMaker
<1>5. ASSUME NEW s \in Sessions, SaveRow(s) PROVE OneMaker'
  BY <1>1, <1>5, SaveRowMoved DEF OneMaker
<1>6. CASE RbCommitGit
  <2>1. hist'.reverts = hist.reverts \cup RevertsMade /\ tc' = tc /\ turn' = turn
    <3>1. tc' = tc /\ turn' = turn
      BY <1>6 DEF RbCommitGit, db
    <3> QED
      BY <1>6, <3>1, CommitGitMoved
  <2>2. \A r \in RevertsMade : r.hash \in Len(commits) + 1 .. Len(commits')
    BY DEF RevertsMade
  <2>3. \A s \in Sessions : turn[s].stage \in {"user", "ai"} => turn[s].hash \in 1 .. Len(commits)
    BY <1>1 DEF BaseInv, TurnsNumbered
  <2>4. \A c \in tc : c.hash \in 1 .. Len(commits)
    BY <1>1 DEF BaseInv, TypeOK
  <2>5. \A r \in RevertsMade :
          /\ r.hash \in DOMAIN commits'
          /\ \A c \in tc : c.hash # r.hash
          /\ \A s \in Sessions : turn[s].stage \in {"user", "ai"} => turn[s].hash # r.hash
    BY <1>1, <2>2, <2>3, <2>4
  <2>6. \A r \in hist.reverts :
          /\ r.hash \in DOMAIN commits'
          /\ \A c \in tc : c.hash # r.hash
          /\ \A s \in Sessions : turn[s].stage \in {"user", "ai"} => turn[s].hash # r.hash
    BY <1>1 DEF OneMaker
  <2> QED
    BY <2>1, <2>5, <2>6 DEF OneMaker
<1>7. ASSUME NEW s \in Sessions, Turn(s) PROVE OneMaker'
  BY <1>3, <1>4, <1>5, <1>7, TurnMoved
<1> QED
  BY <1>3, <1>6, <1>7, OthersMoved

LEMMA InOrderKept ==
  ASSUME BaseInv, BaseInv', InOrder, SameCommits \/ NewCommit, TurnsMove
  PROVE  InOrder'
<1> SUFFICES ASSUME ~hist.stale PROVE InOrder'
  BY DEF InOrder, TurnsMove
<1>1. /\ Len(commits) \in Nat /\ Len(commits') \in Nat /\ Len(commits) <= Len(commits')
      /\ NewCommit => Len(commits') = Len(commits) + 1
  BY LongerCommits DEF NewCommit
<1>2. /\ lastTurn \in [Sessions -> 0 .. MaxTurns]
      /\ \A s \in Sessions, t \in Turns : hist.before[s][t] \in Nat
      /\ \A c \in tc' : c.sess \in Sessions /\ c.turn \in Turns
  <2>1. lastTurn \in [Sessions -> 0 .. MaxTurns] /\ hist.before \in [Sessions -> [Turns -> Nat]]
    BY TypeParts DEF BaseInv, Hists
  <2>2. \A c \in tc' : c.sess \in Sessions /\ c.turn \in Turns
    BY DEF BaseInv, TypeOK
  <2> QED
    BY <2>1, <2>2
<1>3. ASSUME NEW s \in Sessions, NEW t \in Turns, t <= lastTurn[s]
      PROVE  /\ hist.before[s][t] <= Len(commits')
             /\ \A u \in Turns : u <= t => hist.before[s][u] <= hist.before[s][t]
  BY <1>1, <1>2, <1>3 DEF InOrder
<1>4. ASSUME NEW s \in Sessions
      PROVE  /\ turn'[s].stage # "idle" => turn'[s].id = lastTurn[s]
             /\ turn'[s].stage \in {"user", "ai"} => hist.before[s][turn'[s].id] < turn'[s].hash
  <2>1. CASE turn'[s] = turn[s] \/ turn'[s].stage = "idle"
    BY <2>1 DEF InOrder
  <2>2. CASE /\ turn'[s].id = turn[s].id /\ turn[s].stage # "idle"
             /\ turn'[s].stage \in {"user", "ai"} => turn'[s].hash = Len(commits) + 1 /\ NewCommit
    <3>1. turn[s].id = lastTurn[s] /\ turn[s].id \in Turns /\ lastTurn[s] <= lastTurn[s]
      BY <1>2, <2>2 DEF InOrder, BaseInv, TurnsNumbered
    <3>2. hist.before[s][turn[s].id] <= Len(commits) /\ hist.before[s][turn[s].id] \in Nat
      BY <1>2, <3>1 DEF InOrder
    <3> QED
      BY <1>1, <2>2, <3>1, <3>2
  <2> QED
    BY <2>1, <2>2 DEF TurnsMove
<1>5. ASSUME NEW c \in tc'
      PROVE  /\ c.turn <= lastTurn[c.sess] /\ hist.before[c.sess][c.turn] < c.hash
             /\ \A t \in Turns : c.turn < t /\ t <= lastTurn[c.sess] => c.hash <= hist.before[c.sess][t]
  <2>1. CASE c \in tc
    BY <2>1 DEF InOrder
  <2>2. CASE turn[c.sess].stage \in {"user", "ai"} /\ c.turn = turn[c.sess].id
             /\ c.hash = turn[c.sess].hash
    <3>1. c.turn = lastTurn[c.sess] /\ hist.before[c.sess][c.turn] < c.hash
      BY <1>2, <2>2 DEF InOrder
    <3>2. lastTurn[c.sess] \in Nat /\ \A t \in Turns : t \in Nat
      BY <1>2, Basics DEF Turns
    <3> QED
      BY <3>1, <3>2
  <2> QED
    BY <2>1, <2>2 DEF TurnsMove
<1> QED
  BY <1>3, <1>4, <1>5 DEF InOrder, TurnsMove

LEMMA InOrderBegin ==
  ASSUME BaseInv, BaseInv', InOrder, NEW s \in Sessions, TurnBegin(s)
  PROVE  InOrder'
<1> SUFFICES ASSUME ~hist.stale PROVE InOrder'
  BY TurnBeginMoved DEF InOrder
<1> DEFINE n == lastTurn[s] + 1
<1>1. /\ n \in Turns /\ lastTurn' = [lastTurn EXCEPT ![s] = n]
      /\ hist'.before = [hist.before EXCEPT ![s] = [@ EXCEPT ![n] = Len(commits)]]
      /\ turn' = [turn EXCEPT ![s] = [stage |-> "numbered", id |-> n, hash |-> 0]]
      /\ hist'.stale = hist.stale /\ tc' = tc /\ commits' = commits
  BY TurnBeginMoved DEF git
<1>2. /\ lastTurn \in [Sessions -> 0 .. MaxTurns]
      /\ hist.before \in [Sessions -> [Turns -> Nat]]
      /\ turn \in [Sessions -> TurnRecords]
      /\ \A c \in tc : c.sess \in Sessions /\ c.turn \in Turns
      /\ \A c \in tc : c.hash \in 1 .. Len(commits)
      /\ Len(commits) \in Nat
  BY TypeParts, CommitFacts DEF BaseInv, TypeOK, Hists, TurnRecords
<1>3. lastTurn[s] \in Nat /\ n = lastTurn[s] + 1 /\ \A t \in Turns : t \in Nat
  BY <1>2, Basics DEF Turns
<1> HIDE DEF n
<1>4. /\ lastTurn'[s] = n /\ hist'.before[s][n] = Len(commits)
      /\ \A t \in Turns : t # n => hist'.before[s][t] = hist.before[s][t]
      /\ \A x \in Sessions : x # s => lastTurn'[x] = lastTurn[x] /\ turn'[x] = turn[x]
                                       /\ \A t \in Turns : hist'.before[x][t] = hist.before[x][t]
      /\ turn'[s].stage = "numbered" /\ turn'[s].id = n
  BY <1>1, <1>2
<1>5. ASSUME NEW x \in Sessions, NEW t \in Turns, t <= lastTurn'[x]
      PROVE  /\ hist'.before[x][t] <= Len(commits')
             /\ \A u \in Turns : u <= t => hist'.before[x][u] <= hist'.before[x][t]
  <2>1. CASE x # s
    BY <1>1, <1>4, <1>5, <2>1 DEF InOrder
  <2>2. CASE x = s /\ t # n
    <3>1. t <= lastTurn[s] /\ \A u \in Turns : u <= t => u # n
      BY <1>3, <1>4, <1>5, <2>2
    <3> QED
      BY <1>1, <1>4, <2>2, <3>1 DEF InOrder
  <2>3. CASE x = s /\ t = n
    <3>1. \A u \in Turns : u = n \/ (u # n /\ (u <= n => u <= lastTurn[s]))
      BY <1>3
    <3>2. \A u \in Turns : u <= lastTurn[s] => hist.before[s][u] <= Len(commits)
      BY DEF InOrder
    <3> QED
      BY <1>1, <1>2, <1>4, <2>3, <3>1, <3>2
  <2> QED
    BY <2>1, <2>2, <2>3
<1>6. ASSUME NEW x \in Sessions
      PROVE  /\ turn'[x].stage # "idle" => turn'[x].id = lastTurn'[x]
             /\ turn'[x].stage \in {"user", "ai"} => hist'.before[x][turn'[x].id] < turn'[x].hash
  <2>1. CASE x # s
    <3>1. turn[x].stage \in {"user", "ai"} => turn[x].id \in Turns
      BY DEF BaseInv, TurnsNumbered
    <3> QED
      BY <1>4, <2>1, <3>1 DEF InOrder
  <2>2. CASE x = s
    BY <1>4, <2>2
  <2> QED
    BY <2>1, <2>2
<1>7. ASSUME NEW c \in tc
      PROVE  /\ c.turn <= lastTurn'[c.sess] /\ hist'.before[c.sess][c.turn] < c.hash
             /\ \A t \in Turns : c.turn < t /\ t <= lastTurn'[c.sess] => c.hash <= hist'.before[c.sess][t]
  <2>1. /\ c.sess \in Sessions /\ c.turn \in Turns /\ c.turn <= lastTurn[c.sess]
        /\ hist.before[c.sess][c.turn] < c.hash
        /\ \A t \in Turns : c.turn < t /\ t <= lastTurn[c.sess] => c.hash <= hist.before[c.sess][t]
    BY <1>2 DEF InOrder
  <2>2. CASE c.sess # s
    BY <1>4, <2>1, <2>2
  <2>3. CASE c.sess = s
    <3>1. c.turn # n /\ c.turn <= n
      BY <1>3, <2>1, <2>3
    <3>2. \A t \in Turns : t <= n => t = n \/ t <= lastTurn[s]
      BY <1>3
    <3>3. c.turn <= lastTurn'[c.sess] /\ hist'.before[c.sess][c.turn] < c.hash
      BY <1>4, <2>1, <2>3, <3>1
    <3>4. c.hash <= hist'.before[s][n]
      BY <1>2, <1>4
    <3>5. \A t \in Turns : t # n /\ c.turn < t /\ t <= n => c.hash <= hist'.before[s][t]
      BY <1>4, <2>1, <2>3, <3>2
    <3> QED
      BY <1>4, <2>3, <3>3, <3>4, <3>5
  <2> QED
    BY <2>2, <2>3
<1> QED
  BY <1>1, <1>5, <1>6, <1>7 DEF InOrder

LEMMA InOrderStep ==
  ASSUME BaseInv, BaseInv', InOrder, SameCommits \/ NewCommit, [Next]_vars
  PROVE  InOrder'
<1>1. ASSUME NEW s \in Sessions, Turn(s) PROVE InOrder'
  <2>1. CASE SaveRow(s)
    <3>1. hist'.stale \/ TurnsMove
      BY <2>1, SaveRowMoved
    <3>2. hist'.stale => InOrder'
      BY DEF InOrder
    <3> QED
      BY <3>1, <3>2, InOrderKept
  <2> QED
    BY <1>1, <2>1, InOrderBegin, InOrderKept, TurnMoved
<1> QED
  BY <1>1, OthersMoved, CommitGitMoved, InOrderKept

-----------------------------------------------------------------------------
(* What is staged takes back what turns did.                               *)

LEMMA ByTurnKept ==
  ASSUME BaseInv, BaseInv', SameCommits \/ NewCommit,
         NEW s \in Sessions, NEW t \in Turns, NEW f \in Files,
         NEW n \in Nat, NEW m \in Nat, n <= m, n <= Len(commits),
         hist'.before[s][t] = hist.before[s][t],
         \A r \in hist'.reverts : r \in hist.reverts \/ r.hash \in Len(commits) + 1 .. Len(commits'),
         ByTurn(hist, commits, s, t, f, n)
  PROVE  ByTurn(hist', commits', s, t, f, m)
<1>1. PICK i \in hist.before[s][t] + 1 .. n :
        f \in Touched(commits[i]) /\ \A r \in hist.reverts : r.hash # i
  BY DEF ByTurn
<1>2. hist.before[s][t] \in Nat
  BY TypeParts DEF BaseInv, Hists
<1>3. i \in 1 .. Len(commits) /\ i \in hist.before[s][t] + 1 .. m /\ commits'[i] = commits[i]
  BY <1>1, <1>2, LongerCommits
<1>4. \A r \in hist'.reverts : r.hash # i
  BY <1>1, <1>3, LongerCommits
<1> QED
  BY <1>1, <1>3, <1>4 DEF ByTurn

\* Turns that have begun stay so.
PastGrows ==
  \A s \in Sessions : \A t \in Turns :
    t <= lastTurn[s] => t <= lastTurn'[s] /\ hist'.before[s][t] = hist.before[s][t]

LEMMA PastGrew ==
  ASSUME BaseInv, TurnsMove \/ \E s \in Sessions : TurnBegin(s)
  PROVE  PastGrows /\ hist'.stale = hist.stale
<1>1. CASE TurnsMove
  BY <1>1 DEF TurnsMove, PastGrows
<1>2. ASSUME NEW s \in Sessions, TurnBegin(s) PROVE PastGrows /\ hist'.stale = hist.stale
  <2>1. /\ lastTurn' = [lastTurn EXCEPT ![s] = lastTurn[s] + 1]
        /\ hist'.before = [hist.before EXCEPT ![s] = [@ EXCEPT ![lastTurn[s] + 1] = Len(commits)]]
        /\ hist'.stale = hist.stale
    BY <1>2, TurnBeginMoved
  <2>2. lastTurn \in [Sessions -> 0 .. MaxTurns] /\ hist.before \in [Sessions -> [Turns -> Nat]]
    BY TypeParts DEF BaseInv, Hists
  <2>3. lastTurn[s] \in Nat /\ \A t \in Turns : t \in Nat
    BY <2>2, Basics DEF Turns
  <2> QED
    BY <2>1, <2>2, <2>3 DEF PastGrows
<1> QED
  BY <1>1, <1>2

LEMMA RevertsByKept ==
  ASSUME BaseInv, BaseInv', OneMaker, TakesBack, ~hist.stale, SameCommits \/ NewCommit, PastGrows,
         hist.reverts \subseteq hist'.reverts,
         \A r \in hist'.reverts : r \in hist.reverts \/ r.hash \in Len(commits) + 1 .. Len(commits'),
         NEW r \in hist.reverts
  PROVE  /\ r.turn <= lastTurn'[r.sess]
         /\ \A f \in Touched(commits'[r.hash]) :
              \E q \in hist'.reverts :
                q.hash = r.hash /\ ByTurn(hist', commits', q.sess, q.turn, f, r.hash - 1)
<1>1. \A q \in hist.reverts : q.sess \in Sessions /\ q.turn \in Turns /\ q.turn <= lastTurn[q.sess]
  BY TypeParts DEF BaseInv, Hists, TakesBack
<1>2. r.hash \in 1 .. Len(commits) /\ commits'[r.hash] = commits[r.hash] /\ Len(commits) \in Nat
  BY LongerCommits DEF OneMaker
<1>3. r.hash - 1 \in Nat /\ r.hash - 1 <= Len(commits)
  BY <1>2
<1>4. ASSUME NEW f \in Touched(commits[r.hash])
      PROVE  \E q \in hist'.reverts :
               q.hash = r.hash /\ ByTurn(hist', commits', q.sess, q.turn, f, r.hash - 1)
  <2>1. PICK q \in hist.reverts : q.hash = r.hash /\ ByTurn(hist, commits, q.sess, q.turn, f, r.hash - 1)
    BY DEF TakesBack
  <2>2. f \in Files
    BY DEF Touched
  <2>3. hist'.before[q.sess][q.turn] = hist.before[q.sess][q.turn]
    BY <1>1 DEF PastGrows
  <2>4. ByTurn(hist', commits', q.sess, q.turn, f, r.hash - 1)
    BY <1>1, <1>3, <2>1, <2>2, <2>3, ByTurnKept
  <2> QED
    BY <2>1, <2>4
<1> QED
  BY <1>1, <1>2, <1>4 DEF PastGrows

LEMMA TakesBackKept ==
  ASSUME BaseInv, BaseInv', OneMaker, TakesBack, SameCommits \/ NewCommit, ~hist.stale, PastGrows,
         hist'.asked = hist.asked, hist'.reverts = hist.reverts,
         idx' = head' \/ (idx' = idx /\ SameCommits)
  PROVE  TakesBack'
<1>1. \A a \in hist.asked : a[1] \in Sessions /\ a[2] \in Turns /\ a[2] <= lastTurn[a[1]]
  BY TypeParts DEF BaseInv, Hists, TakesBack
<1>2. \A a \in hist'.asked : a[2] <= lastTurn'[a[1]]
  BY <1>1 DEF PastGrows
<1>3. ASSUME NEW f \in Files, idx'[f] # head'[f]
      PROVE  \E a \in hist'.asked : ByTurn(hist', commits', a[1], a[2], f, Len(commits'))
  <2>1. idx'[f] = idx[f] /\ head'[f] = head[f] /\ commits' = commits
    BY <1>3 DEF SameCommits
  <2>2. PICK a \in hist.asked : ByTurn(hist, commits, a[1], a[2], f, Len(commits))
    BY <1>3, <2>1 DEF TakesBack
  <2>3. hist'.before[a[1]][a[2]] = hist.before[a[1]][a[2]]
    BY <1>1 DEF PastGrows
  <2>4. Len(commits) \in Nat /\ Len(commits) <= Len(commits) /\ Len(commits') = Len(commits)
    BY <2>1, CommitFacts
  <2>5. ByTurn(hist', commits', a[1], a[2], f, Len(commits'))
    BY <1>1, <2>2, <2>3, <2>4, ByTurnKept
  <2> QED
    BY <2>5
<1>4. \A r \in hist'.reverts :
        /\ r.turn <= lastTurn'[r.sess]
        /\ \A f \in Touched(commits'[r.hash]) :
             \E q \in hist'.reverts :
               q.hash = r.hash /\ ByTurn(hist', commits', q.sess, q.turn, f, r.hash - 1)
  BY RevertsByKept
<1> QED
  BY <1>2, <1>3, <1>4 DEF TakesBack

\* The commits of a turn's row come after the turn began, and so after those the
\* rollback goes back to.
LEMMA RowsAfter ==
  ASSUME BaseInv, InOrder, ~hist.stale, NEW c \in tc, NEW t \in Turns, t <= c.turn
  PROVE  hist.before[c.sess][t] < c.hash /\ c.hash \in 1 .. Len(commits) /\ c.turn <= lastTurn[c.sess]
<1>1. c.sess \in Sessions /\ c.turn \in Turns /\ c.hash \in 1 .. Len(commits)
  BY CommitFacts DEF BaseInv, TypeOK
<1>2. c.turn <= lastTurn[c.sess] /\ hist.before[c.sess][c.turn] < c.hash
  BY DEF InOrder
<1>3. hist.before[c.sess][t] <= hist.before[c.sess][c.turn]
  BY <1>1, <1>2 DEF InOrder
<1>4. hist.before[c.sess][t] \in Nat /\ hist.before[c.sess][c.turn] \in Nat
  BY <1>1, TypeParts DEF BaseInv, Hists
<1> QED
  BY <1>1, <1>2, <1>3, <1>4

LEMMA RowByTurn ==
  ASSUME BaseInv, InOrder, OneMaker, ~hist.stale, NEW c \in tc, NEW t \in Turns, t <= c.turn,
         NEW f \in Touched(commits[c.hash])
  PROVE  ByTurn(hist, commits, c.sess, t, f, Len(commits))
<1>1. hist.before[c.sess][t] < c.hash /\ c.hash \in 1 .. Len(commits) /\ Len(commits) \in Nat
  BY RowsAfter, CommitFacts
<1>2. hist.before[c.sess][t] \in Nat
  <2>1. c.sess \in Sessions
    BY DEF BaseInv, TypeOK
  <2> QED
    BY <2>1, TypeParts DEF BaseInv, Hists
<1>3. c.hash \in hist.before[c.sess][t] + 1 .. Len(commits)
  BY <1>1, <1>2
<1> QED
  BY <1>3 DEF ByTurn, OneMaker

\* What git revert --no-commit of the newest commit left does.
LEMMA RevertMoved ==
  ASSUME BaseInv, RbRevert
  PROVE  \E newest \in NewestLeft :
           /\ newest \in rb.left /\ newest \in tc /\ newest.hash \in DOMAIN commits
           /\ idx' = Reverted(commits[newest.hash], idx)
           /\ rb.stage = "revert" /\ rb'.stage \in {"revert", "db"}
           /\ rb'.left = rb.left \ {newest}
           /\ rb'.sess = rb.sess /\ rb'.target = rb.target /\ rb'.last = rb.last
           /\ hist'.asked = (IF Staged THEN hist.asked ELSE {}) \cup {<<rb.sess, rb.target>>}
           /\ hist'.before = hist.before /\ hist'.reverts = hist.reverts /\ hist'.stale = hist.stale
           /\ hist'.disturbed = hist.disturbed /\ hist'.start = hist.start
           /\ UNCHANGED <<commits, head, tc, lastTurn>>
<1>1. PICK newest \in NewestLeft :
        /\ rb.stage = "revert"
        /\ idx' = Reverted(commits[newest.hash], idx)
        /\ rb' = [rb EXCEPT !.left = @ \ {newest},
                            !.stage = IF rb.left = {newest} THEN "db" ELSE @]
        /\ hist' = [hist EXCEPT !.asked = (IF Staged THEN @ ELSE {})
                                          \cup {<<rb.sess, rb.target>>}]
        /\ UNCHANGED <<db, head, commits>>
  BY DEF RbRevert
<1>2. newest \in rb.left /\ newest \in tc /\ newest.hash \in DOMAIN commits
  BY LeftAreCommits
<1>3. rb \in RbRecords(tc) /\ hist \in Hists
  BY TypeParts DEF BaseInv, TypeOK, RbRecords
<1>4. /\ rb'.stage \in {"revert", "db"} /\ rb'.left = rb.left \ {newest}
      /\ rb'.sess = rb.sess /\ rb'.target = rb.target /\ rb'.last = rb.last
  BY <1>1, <1>3 DEF RbRecords
<1>5. /\ hist'.asked = (IF Staged THEN hist.asked ELSE {}) \cup {<<rb.sess, rb.target>>}
      /\ hist'.before = hist.before /\ hist'.reverts = hist.reverts /\ hist'.stale = hist.stale
      /\ hist'.disturbed = hist.disturbed /\ hist'.start = hist.start
  BY <1>1, <1>3 DEF Hists
<1> QED
  BY <1>1, <1>2, <1>4, <1>5 DEF db

LEMMA TakesBackRevert ==
  ASSUME BaseInv, BaseInv', OneMaker, InOrder, TakesBack, LeftMine, ~hist.stale, RbRevert
  PROVE  TakesBack'
<1>1. PICK newest \in NewestLeft :
        /\ newest \in rb.left /\ newest \in tc
        /\ idx' = Reverted(commits[newest.hash], idx)
        /\ hist'.asked = (IF Staged THEN hist.asked ELSE {}) \cup {<<rb.sess, rb.target>>}
        /\ hist'.before = hist.before /\ hist'.reverts = hist.reverts
        /\ UNCHANGED <<commits, head, tc, lastTurn>>
        /\ rb.stage = "revert"
  BY RevertMoved
<1> DEFINE me == <<rb.sess, rb.target>>
<1>2. newest.sess = rb.sess /\ rb.target <= newest.turn /\ newest.turn \in Turns
      /\ rb.target \in Turns /\ rb.sess \in Sessions
  BY <1>1 DEF LeftMine, Mine, BaseInv, TypeOK, TargetKnown
<1>3. newest.turn <= lastTurn[rb.sess]
  BY <1>1, <1>2, RowsAfter
<1>4. rb.target <= lastTurn[rb.sess]
  <2>1. lastTurn[rb.sess] \in Nat /\ \A t \in Turns : t \in Nat
    BY <1>2, TypeParts, Basics DEF BaseInv, Turns
  <2> QED
    BY <1>2, <1>3, <2>1
<1>5. \A a \in hist'.asked : a[2] <= lastTurn'[a[1]]
  BY <1>1, <1>4 DEF TakesBack
<1>6. \A f \in Files : ByTurn(hist', commits', rb.sess, rb.target, f, Len(commits'))
                         <=> ByTurn(hist, commits, rb.sess, rb.target, f, Len(commits))
  BY <1>1 DEF ByTurn
<1>7. ASSUME NEW f \in Files, idx'[f] # head'[f]
      PROVE  \E a \in hist'.asked : ByTurn(hist', commits', a[1], a[2], f, Len(commits'))
  <2>1. CASE f \in Touched(commits[newest.hash])
    <3>1. ByTurn(hist, commits, rb.sess, rb.target, f, Len(commits))
      BY <1>1, <1>2, <2>1, RowByTurn
    <3>2. ByTurn(hist', commits', me[1], me[2], f, Len(commits')) /\ me \in hist'.asked
      BY <1>1, <1>6, <3>1
    <3> QED
      BY <3>2
  <2>2. CASE f \notin Touched(commits[newest.hash])
    <3>1. idx[f] # head[f]
      BY <1>1, <1>7, <2>2 DEF Reverted
    <3>2. PICK a \in hist.asked : ByTurn(hist, commits, a[1], a[2], f, Len(commits))
      BY <3>1 DEF TakesBack
    <3>3. a \in hist'.asked
      BY <1>1, <3>1 DEF Staged
    <3>4. ByTurn(hist', commits', a[1], a[2], f, Len(commits'))
      BY <1>1, <3>2 DEF ByTurn
    <3> QED
      BY <3>3, <3>4
  <2> QED
    BY <2>1, <2>2
<1>8. \A r \in hist'.reverts :
        /\ r.turn <= lastTurn'[r.sess]
        /\ \A f \in Touched(commits'[r.hash]) :
             \E q \in hist'.reverts :
               q.hash = r.hash /\ ByTurn(hist', commits', q.sess, q.turn, f, r.hash - 1)
  <2>1. commits' = commits /\ lastTurn' = lastTurn /\ hist'.reverts = hist.reverts
        /\ hist'.before = hist.before
    BY <1>1
  <2> QED
    BY <2>1 DEF TakesBack, ByTurn
<1> QED
  BY <1>5, <1>7, <1>8 DEF TakesBack

LEMMA TakesBackCommit ==
  ASSUME BaseInv, BaseInv', OneMaker, TakesBack, SameCommits \/ NewCommit, ~hist.stale, RbCommitGit
  PROVE  TakesBack'
<1>1. /\ hist'.before = hist.before /\ hist'.asked = hist.asked
      /\ hist'.reverts = hist.reverts \cup RevertsMade
      /\ PastGrows /\ lastTurn' = lastTurn
  <2>1. TurnsMove
    BY CommitGitMoved
  <2> QED
    BY <2>1, CommitGitMoved, PastGrew DEF TurnsMove
<1>2. CASE NewCommit
  <2>1. /\ Len(commits) \in Nat /\ Len(commits') = Len(commits) + 1
        /\ commits'[Len(commits) + 1].from = head /\ commits'[Len(commits) + 1].to = head'
        /\ idx' = head'
    BY <1>2, CommitFacts DEF NewCommit
  <2>2. RevertsMade = {[sess |-> a[1], turn |-> a[2], hash |-> Len(commits) + 1] : a \in hist.asked}
    <3>1. Len(commits) + 1 .. Len(commits') = {Len(commits) + 1}
      BY <2>1
    <3> QED
      BY <3>1 DEF RevertsMade
  <2>3. \A r \in hist'.reverts : r \in hist.reverts \/ r.hash \in Len(commits) + 1 .. Len(commits')
    BY <1>1, <2>1, <2>2
  <2>4. \A a \in hist.asked : a[1] \in Sessions /\ a[2] \in Turns /\ a[2] <= lastTurn[a[1]]
    BY TypeParts DEF BaseInv, Hists, TakesBack
  <2>5. \A a \in hist'.asked : a[2] <= lastTurn'[a[1]]
    BY <1>1, <2>4
  <2>6. ASSUME NEW r \in RevertsMade
        PROVE  /\ r.turn <= lastTurn'[r.sess]
               /\ \A f \in Touched(commits'[r.hash]) :
                    \E q \in hist'.reverts :
                      q.hash = r.hash /\ ByTurn(hist', commits', q.sess, q.turn, f, r.hash - 1)
    <3>1. r.hash = Len(commits) + 1 /\ r.hash - 1 = Len(commits) /\ r.turn <= lastTurn'[r.sess]
      BY <1>1, <2>1, <2>2, <2>4
    <3>2. ASSUME NEW f \in Touched(commits'[r.hash])
          PROVE  \E q \in hist'.reverts :
                   q.hash = r.hash /\ ByTurn(hist', commits', q.sess, q.turn, f, r.hash - 1)
      <4>1. f \in Files /\ head[f] # head'[f]
        BY <2>1, <3>1 DEF Touched
      <4>2. head' = idx
        <5>1. idx' = idx
          BY DEF RbCommitGit, git
        <5> QED
          BY <2>1, <5>1
      <4>3. PICK a \in hist.asked : ByTurn(hist, commits, a[1], a[2], f, Len(commits))
        BY <4>1, <4>2 DEF TakesBack
      <4> DEFINE q == [sess |-> a[1], turn |-> a[2], hash |-> Len(commits) + 1]
      <4>4. q \in hist'.reverts /\ q.hash = r.hash /\ q.sess = a[1] /\ q.turn = a[2]
        BY <1>1, <2>2, <3>1
      <4>5. /\ hist'.before[a[1]][a[2]] = hist.before[a[1]][a[2]]
            /\ Len(commits) <= Len(commits) /\ a[1] \in Sessions /\ a[2] \in Turns
        BY <1>1, <2>1, <2>4
      <4>6. ByTurn(hist', commits', a[1], a[2], f, Len(commits))
        BY <2>1, <2>3, <4>1, <4>3, <4>5, ByTurnKept
      <4> QED
        BY <3>1, <4>4, <4>6
    <3> QED
      BY <3>1, <3>2
  <2>7. \A r \in hist.reverts :
          /\ r.turn <= lastTurn'[r.sess]
          /\ \A f \in Touched(commits'[r.hash]) :
               \E q \in hist'.reverts :
                 q.hash = r.hash /\ ByTurn(hist', commits', q.sess, q.turn, f, r.hash - 1)
    BY <1>1, <2>3, RevertsByKept
  <2> QED
    BY <1>1, <2>1, <2>5, <2>6, <2>7 DEF TakesBack
<1>3. CASE ~NewCommit
  <2>1. SameCommits /\ idx' = idx
    BY <1>3 DEF RbCommitGit, git
  <2>2. RevertsMade = {}
    <3>1. Len(commits) + 1 .. Len(commits') = {}
      BY <2>1, CommitFacts DEF SameCommits
    <3> QED
      BY <3>1 DEF RevertsMade
  <2>3. hist'.reverts = hist.reverts
    BY <1>1, <2>2
  <2> QED
    BY <1>1, <2>1, <2>3, TakesBackKept
<1> QED
  BY <1>2, <1>3

LEMMA TakesBackStep ==
  ASSUME BaseInv, BaseInv', OneMaker, InOrder, TakesBack, LeftMine, SameCommits \/ NewCommit,
         [Next]_vars
  PROVE  TakesBack'
<1> SUFFICES ASSUME ~hist'.stale PROVE TakesBack'
  BY DEF TakesBack
<1>1. hist.stale => hist'.stale
  <2>1. TurnsMove => hist'.stale = hist.stale
    BY DEF TurnsMove
  <2>2. ASSUME NEW s \in Sessions, SaveRow(s) PROVE hist.stale => hist'.stale
    <3>1. hist'.stale \/ TurnsMove
      BY <2>2, SaveRowMoved
    <3> QED
      BY <2>1, <3>1
  <2>3. ASSUME NEW s \in Sessions, Turn(s) PROVE hist.stale => hist'.stale
    BY <2>1, <2>2, <2>3, TurnMoved, TurnBeginMoved
  <2> QED
    BY <2>1, <2>3, OthersMoved, CommitGitMoved
<1>2. CASE RbRevert
  BY <1>1, <1>2, TakesBackRevert
<1>3. CASE RbCommitGit
  BY <1>1, <1>3, TakesBackCommit
<1>4. CASE ~RbRevert /\ ~RbCommitGit
  <2>1. PastGrows /\ hist'.reverts = hist.reverts
    <3>1. ASSUME NEW s \in Sessions, Turn(s) PROVE PastGrows /\ hist'.reverts = hist.reverts
      <4>1. CASE TurnBegin(s)
        BY <4>1, PastGrew, TurnBeginMoved
      <4>2. CASE SaveRow(s)
        <5>1. TurnsMove /\ hist'.reverts = hist.reverts
          BY <4>2, SaveRowMoved
        <5> QED
          BY <5>1, PastGrew
      <4> QED
        BY <3>1, <4>1, <4>2, PastGrew, TurnMoved
    <3> QED
      BY <1>4, <3>1, PastGrew, OthersMoved
  <2>2. hist'.asked = hist.asked
    <3>1. SamePast(Beside(hist)) /\ SamePast(Over(hist)) /\ SamePast(hist)
      BY PastKept
    <3>2. ASSUME NEW s \in Sessions, Turn(s) PROVE hist'.asked = hist.asked
      <4>1. CASE TurnBegin(s) \/ SaveRow(s)
        BY <4>1, TurnBeginMoved, SaveRowMoved
      <4>2. CASE ~TurnBegin(s) /\ ~SaveRow(s)
        <5>1. hist' = Beside(hist)
          BY <3>2, <4>2 DEF Turn, CommitUserChanges, RecordUserCommit, TurnPrompt, CommitAIChanges,
             RecordAICommit, ReadRow, TurnCommit, TurnRecord, Disturb
        <5> QED
          BY <3>1, <5>1 DEF SamePast
      <4> QED
        BY <4>1, <4>2
    <3>3. ASSUME NEW s \in Sessions, NEW t \in Turns, RbBegin(s, t) PROVE hist'.asked = hist.asked
      <4>1. hist \in Hists
        BY TypeParts DEF BaseInv
      <4> QED
        BY <3>3, <4>1 DEF RbBegin, Hists
    <3>4. CASE RbRefused \/ RbFailDB \/ RbCommitDB \/ RbList \/ SaveCover \/ Crash
               \/ (\E f \in Files : WriteFile(f)) \/ UNCHANGED vars
      <4>1. hist' \in {hist, Beside(hist), Over(hist)}
        BY <3>4 DEF RbRefused, RbFailDB, RbCommitDB, RbList, SaveCover, Crash, WriteFile, Disturb, vars
      <4> QED
        BY <3>1, <4>1 DEF SamePast
    <3> QED
      BY <1>4, <3>2, <3>3, <3>4 DEF Next, Rb
  <2>3. idx' = head' \/ (idx' = idx /\ SameCommits)
    <3>1. NewCommit => idx' = head'
      BY DEF NewCommit
    <3>2. ASSUME NEW s \in Sessions, Turn(s) PROVE idx' = head' \/ (idx' = idx /\ SameCommits)
      BY <3>2 DEF Turn, TurnBegin, CommitUserChanges, RecordUserCommit, TurnPrompt, CommitAIChanges,
         RecordAICommit, ReadRow, SaveRow, TurnCommit, TurnRecord, CommitAll, git, SameCommits
    <3>3. CASE (\E s \in Sessions, t \in Turns : RbBegin(s, t)) \/ (\E f \in Files : WriteFile(f))
               \/ UNCHANGED vars \/ SaveCover \/ Crash
      BY <3>3 DEF RbBegin, WriteFile, SaveCover, Crash, vars, CommitAll, git, SameCommits
    <3>4. CASE RbRefused \/ RbFailDB \/ RbCommitDB \/ RbList
      BY <3>4 DEF RbRefused, RbFailDB, RbCommitDB, RbList, Abort, git, SameCommits
    <3> QED
      BY <1>4, <3>2, <3>3, <3>4 DEF Next, Rb
  <2> QED
    BY <1>1, <2>1, <2>2, <2>3, TakesBackKept
<1> QED
  BY <1>2, <1>3, <1>4

-----------------------------------------------------------------------------
(* The rollback under way.                                                 *)

LEMMA BesidePart ==
  ASSUME BaseInv,
         (\E s \in Sessions : Turn(s)) \/ SaveCover \/ (\E f \in Files : WriteFile(f))
  PROVE  rb' = rb /\ tc \subseteq tc' /\ (rb.stage # "idle" => hist'.disturbed)
<1>1. hist \in Hists /\ Beside(hist) \in Hists
  BY TypeParts, BesideType DEF BaseInv
<1>2. rb.stage # "idle" => Beside(hist).disturbed
  BY <1>1, BesideType
<1>3. ASSUME NEW s \in Sessions, TurnBegin(s) \/ SaveRow(s)
      PROVE  rb' = rb /\ tc \subseteq tc' /\ (rb.stage # "idle" => hist'.disturbed)
  <2>1. hist'.disturbed = Beside(hist).disturbed
    BY <1>1, <1>3 DEF TurnBegin, SaveRow, Hists
  <2>2. rb' = rb /\ tc' = tc
    BY <1>3 DEF TurnBegin, SaveRow
  <2> QED
    BY <1>2, <2>1, <2>2
<1>4. ASSUME NEW s \in Sessions, Turn(s), ~TurnBegin(s), ~SaveRow(s)
      PROVE  rb' = rb /\ tc \subseteq tc' /\ (rb.stage # "idle" => hist'.disturbed)
  <2>1. rb' = rb /\ tc \subseteq tc' /\ hist' = Beside(hist)
    BY <1>4 DEF Turn, CommitUserChanges, RecordUserCommit, TurnPrompt, CommitAIChanges,
       RecordAICommit, ReadRow, TurnCommit, TurnRecord, Disturb, db
  <2> QED
    BY <1>2, <2>1
<1>5. CASE SaveCover \/ \E f \in Files : WriteFile(f)
  BY <1>2, <1>5 DEF SaveCover, WriteFile, Disturb, db
<1> QED
  BY <1>3, <1>4, <1>5

LEMMA LeftMineStep ==
  ASSUME BaseInv, BaseInv', LeftMine, [Next]_vars
  PROVE  LeftMine'
<1>1. CASE (\E s \in Sessions : Turn(s)) \/ SaveCover \/ (\E f \in Files : WriteFile(f))
  BY <1>1, BesidePart DEF LeftMine, Mine
<1>2. CASE UNCHANGED vars
  BY <1>2 DEF vars, db, LeftMine, Mine
<1>3. CASE RbList
  <2> DEFINE mine == {c \in tc : InRange(c, rb.sess, rb.target, rb.last)}
  <2>1. /\ rb' = [rb EXCEPT !.left = mine, !.stage = IF mine = {} THEN "db" ELSE "revert",
                            !.git = (mine # {})]
        /\ tc' = tc
    BY <1>3 DEF RbList, db
  <2>2. rb \in RbRecords(tc)
    BY DEF BaseInv, TypeOK, RbRecords
  <2>3. \A c \in mine : c \in tc /\ c.sess = rb.sess /\ rb.target <= c.turn
    BY DEF InRange
  <2> HIDE DEF mine
  <2>4. rb'.left = mine /\ rb'.sess = rb.sess /\ rb'.target = rb.target
    BY <2>1, <2>2 DEF RbRecords
  <2>5. rb.target \in Nat /\ \A c \in tc : c.turn \in Nat
    BY <2>2, Basics DEF RbRecords, BaseInv, TypeOK, Turns
  <2> QED
    BY <2>1, <2>3, <2>4, <2>5 DEF LeftMine, Mine
<1>4. CASE RbRevert
  <2>1. rb'.left \subseteq rb.left /\ rb'.sess = rb.sess /\ rb'.target = rb.target /\ tc' = tc
    BY <1>4, RevertMoved
  <2> QED
    BY <2>1 DEF LeftMine, Mine
<1>5. CASE RbRefused \/ RbFailDB \/ RbCommitGit \/ RbCommitDB \/ Crash
           \/ \E s \in Sessions, t \in Turns : RbBegin(s, t)
  <2>1. rb'.stage # "revert"
    <3>1. rb \in RbRecords(tc)
      BY DEF BaseInv, TypeOK, RbRecords
    <3>2. CASE RbRefused \/ RbFailDB \/ RbCommitGit \/ RbCommitDB \/ Crash
      BY <3>1, <3>2, Records DEF RbRefused, RbFailDB, RbCommitGit, RbCommitDB, Crash, RbRecords
    <3>3. CASE \E s \in Sessions, t \in Turns : RbBegin(s, t)
      BY <3>3 DEF RbBegin, NoRb
    <3> QED
      BY <1>5, <3>2, <3>3
  <2> QED
    BY <2>1 DEF BaseInv, TargetKnown, LeftMine
<1> QED
  BY <1>1, <1>2, <1>3, <1>4, <1>5 DEF Next, Rb

LEMMA UnderwayBegin ==
  ASSUME BaseInv, BaseInv', InOrder, TakesBack, NEW s \in Sessions, NEW t \in Turns, RbBegin(s, t)
  PROVE  Underway'
<1>1. /\ t <= lastTurn[s]
      /\ rb' = [NoRb EXCEPT !.stage = "list", !.sess = s, !.target = t, !.last = lastTurn[s]]
      /\ UNCHANGED <<lastTurn, tc, head, idx, commits>>
  BY DEF RbBegin, db, git
<1>2. rb'.stage = "list" /\ rb'.left = {} /\ rb'.sess = s /\ rb'.target = t /\ rb'.last = lastTurn[s]
  BY <1>1 DEF NoRb
<1>3. /\ hist'.start.commits = Len(commits) /\ hist'.start.own = OwnCommits(s, t)
      /\ hist'.start.other = (Staged /\ hist.asked # {<<s, t>>})
      /\ hist'.before = hist.before /\ hist'.reverts = hist.reverts /\ hist'.stale = hist.stale
  <2>1. hist \in Hists
    BY TypeParts DEF BaseInv
  <2> QED
    BY <2>1 DEF RbBegin, Hists
<1>4. Done' = {} /\ \A f \in Files : Changed(f)' = {}
  BY <1>2 DEF Done, Changed
<1>5. ASSUME ~hist'.stale, ~hist'.start.other, NEW f \in Files, idx'[f] # head'[f]
      PROVE  ByTurn(hist', commits', s, t, f, Len(commits'))
  <2>1. Staged /\ idx[f] # head[f]
    BY <1>1, <1>5 DEF Staged
  <2>2. hist.asked = {<<s, t>>}
    BY <1>3, <1>5, <2>1
  <2>3. PICK a \in hist.asked : ByTurn(hist, commits, a[1], a[2], f, Len(commits))
    BY <1>3, <1>5, <2>1 DEF TakesBack
  <2>4. a[1] = s /\ a[2] = t
    BY <2>2, <2>3
  <2> QED
    BY <1>1, <1>3, <2>3, <2>4 DEF ByTurn
<1>6. OwnCommits(s, t)' = OwnCommits(s, t)
  BY <1>1, <1>3 DEF OwnCommits
<1>7. rb'.left \subseteq Mine' /\ \A d \in Done' : \A c \in rb'.left : Before(c, d)
  BY <1>2, <1>4
<1>8. Underway' <=> (~hist'.disturbed /\ ~hist'.stale =>
        /\ hist'.start.commits = Len(commits') /\ hist'.start.own = OwnCommits(s, t)'
        /\ t <= lastTurn'[s] /\ rb'.last = lastTurn'[s]
        /\ \A d \in Done' : \A c \in rb'.left : Before(c, d)
        /\ ~hist'.start.other => \A f \in Files :
             idx'[f] # head'[f] => ByTurn(hist', commits', s, t, f, Len(commits')))
  BY <1>2, <1>4 DEF Underway, OwnCommits
<1> QED
  BY <1>1, <1>2, <1>3, <1>4, <1>5, <1>6, <1>7, <1>8

LEMMA UnderwayList ==
  ASSUME BaseInv, BaseInv', InOrder, Underway, RbList
  PROVE  Underway'
<1> SUFFICES ASSUME ~hist'.stale, ~hist'.disturbed PROVE Underway'
  BY DEF Underway
<1> DEFINE mine == {c \in tc : InRange(c, rb.sess, rb.target, rb.last)}
<1>1. /\ rb' = [rb EXCEPT !.left = mine, !.stage = IF mine = {} THEN "db" ELSE "revert",
                          !.git = (mine # {})]
      /\ rb.stage = "list"
      /\ UNCHANGED <<lastTurn, tc, head, idx, commits, hist>>
  BY DEF RbList, db, git
<1>2. rb \in RbRecords(tc)
  BY DEF BaseInv, TypeOK, RbRecords
<1>3. /\ hist.start.commits = Len(commits) /\ hist.start.own = OwnCommits(rb.sess, rb.target)
      /\ rb.target <= lastTurn[rb.sess] /\ rb.last = lastTurn[rb.sess]
      /\ ~hist.start.other => \A f \in Files :
           idx[f] # head[f] => ByTurn(hist, commits, rb.sess, rb.target, f, Len(commits))
  BY <1>1 DEF Underway, Changed, Done
<1>4. mine = Mine
  <2>1. \A c \in tc : c.sess = rb.sess => c.turn <= rb.last
    BY <1>1, <1>3 DEF InOrder
  <2>2. rb.target \in Nat /\ \A c \in tc : c.turn \in Nat
    BY <1>2, Basics DEF RbRecords, BaseInv, TypeOK, Turns
  <2> QED
    BY <2>1, <2>2 DEF InRange, Mine
<1> HIDE DEF mine
<1>5. /\ rb'.left = Mine /\ rb'.sess = rb.sess /\ rb'.target = rb.target /\ rb'.last = rb.last
      /\ rb'.stage # "list"
  BY <1>1, <1>2, <1>4 DEF RbRecords
<1>6. Done' = {} /\ \A f \in Files : Changed(f)' = {}
  <2>1. Mine' = Mine
    BY <1>1, <1>5 DEF Mine
  <2> QED
    BY <1>5, <2>1 DEF Done, Changed
<1> QED
  BY <1>1, <1>3, <1>5, <1>6 DEF Underway, OwnCommits, ByTurn

LEMMA UnderwayRevert ==
  ASSUME BaseInv, BaseInv', LeftMine, Underway, RbRevert
  PROVE  Underway'
<1>1. PICK newest \in NewestLeft :
        /\ newest \in rb.left /\ newest \in tc
        /\ idx' = Reverted(commits[newest.hash], idx)
        /\ rb.stage = "revert" /\ rb'.stage \in {"revert", "db"}
        /\ rb'.left = rb.left \ {newest}
        /\ rb'.sess = rb.sess /\ rb'.target = rb.target /\ rb'.last = rb.last
        /\ hist'.before = hist.before /\ hist'.reverts = hist.reverts /\ hist'.stale = hist.stale
        /\ hist'.disturbed = hist.disturbed /\ hist'.start = hist.start
        /\ UNCHANGED <<commits, head, tc, lastTurn>>
  BY RevertMoved
<1> SUFFICES ASSUME ~hist.stale, ~hist.disturbed PROVE Underway'
  BY <1>1 DEF Underway
<1>2. /\ hist.start.commits = Len(commits) /\ hist.start.own = OwnCommits(rb.sess, rb.target)
      /\ rb.target <= lastTurn[rb.sess] /\ rb.last = lastTurn[rb.sess]
      /\ \A d \in Done : \A c \in rb.left : Before(c, d)
      /\ ~hist.start.other => \A f \in Files :
           IF Changed(f) = {}
           THEN idx[f] # head[f] => ByTurn(hist, commits, rb.sess, rb.target, f, Len(commits))
           ELSE \E c \in Changed(f) : /\ idx[f] = commits[c.hash].from[f]
                                      /\ \A d \in Changed(f) \ {c} : Before(c, d)
  BY <1>1 DEF Underway
<1>3. Done' = Done \cup {newest} /\ newest \notin Done
  <2>1. Mine' = Mine /\ newest \in Mine
    BY <1>1 DEF Mine, LeftMine
  <2> QED
    BY <1>1, <2>1 DEF Done
<1>4. \A d \in Done' : \A c \in rb'.left : Before(c, d)
  BY <1>1, <1>2, <1>3 DEF NewestLeft
<1>5. ASSUME ~hist.start.other, NEW f \in Files
      PROVE  IF Changed(f)' = {}
             THEN idx'[f] # head'[f] => ByTurn(hist', commits', rb'.sess, rb'.target, f, Len(commits'))
             ELSE \E c \in Changed(f)' : /\ idx'[f] = commits'[c.hash].from[f]
                                         /\ \A d \in Changed(f)' \ {c} : Before(c, d)
  <2>1. CASE f \in Touched(commits[newest.hash])
    <3>1. Changed(f)' = Changed(f) \cup {newest}
      BY <1>1, <1>3, <2>1 DEF Changed
    <3>2. idx'[f] = commits'[newest.hash].from[f]
      BY <1>1, <2>1 DEF Reverted
    <3>3. \A d \in Changed(f) : Before(newest, d)
      BY <1>1, <1>2 DEF Changed
    <3> QED
      BY <3>1, <3>2, <3>3
  <2>2. CASE f \notin Touched(commits[newest.hash])
    <3>1. Changed(f)' = Changed(f)
      BY <1>1, <1>3, <2>2 DEF Changed
    <3>2. idx'[f] = idx[f]
      BY <1>1, <2>2 DEF Reverted
    <3>3. ByTurn(hist', commits', rb'.sess, rb'.target, f, Len(commits'))
            <=> ByTurn(hist, commits, rb.sess, rb.target, f, Len(commits))
      BY <1>1 DEF ByTurn
    <3> QED
      BY <1>1, <1>2, <1>5, <3>1, <3>2, <3>3
  <2> QED
    BY <2>1, <2>2
<1> QED
  BY <1>1, <1>2, <1>4, <1>5 DEF Underway, OwnCommits

LEMMA UnderwayStep ==
  ASSUME BaseInv, BaseInv', InOrder, TakesBack, LeftMine, Underway, [Next]_vars
  PROVE  Underway'
<1>1. CASE (\E s \in Sessions : Turn(s)) \/ SaveCover \/ (\E f \in Files : WriteFile(f))
  BY <1>1, BesidePart DEF Underway
<1>2. CASE UNCHANGED vars
  <2>1. Mine' = Mine /\ Done' = Done /\ UNCHANGED <<rb, hist, commits, lastTurn, tc, idx, head>>
    BY <1>2 DEF vars, db, git, Mine, Done
  <2>2. \A f \in Files : Changed(f)' = Changed(f)
    BY <2>1 DEF Changed
  <2> QED
    BY <2>1, <2>2 DEF Underway, OwnCommits, ByTurn
<1>3. CASE RbRefused \/ RbFailDB \/ RbCommitGit \/ RbCommitDB \/ Crash
  <2>1. rb \in RbRecords(tc)
    BY DEF BaseInv, TypeOK, RbRecords
  <2>2. rb'.stage \in {"idle", "commit"}
    BY <1>3, <2>1, Records DEF RbRefused, RbFailDB, RbCommitGit, RbCommitDB, Crash, RbRecords
  <2> QED
    BY <2>2 DEF Underway
<1> QED
  BY <1>1, <1>2, <1>3, UnderwayBegin, UnderwayList, UnderwayRevert DEF Next, Rb

FilesInv == BaseInv /\ RestoredInv

LEMMA FilesInit == Init => FilesInv
<1> SUFFICES ASSUME Init PROVE FilesInv
  OBVIOUS
<1>1. BaseInv
  BY RollbackInit DEF RollbackInv, BaseInv
<1>2. commits = <<>> /\ Len(commits) = 0 /\ DOMAIN commits = {} /\ head = Clean /\ idx = Clean
  BY DEF Init
<1>3. hist.asked = {} /\ hist.reverts = {} /\ tc = {} /\ rb.stage = "idle" /\ rb.left = {}
  BY Records DEF Init
<1>4. Chained
  <2>1. \A i \in 0 .. 0 : i = 0
    OBVIOUS
  <2> QED
    BY <1>2, <2>1 DEF Chained, Made
<1>5. \A s \in Sessions : lastTurn[s] = 0 /\ turn[s].stage = "idle"
  BY Records DEF Init
<1>6. \A t \in Turns : ~(t <= 0)
  BY Basics DEF Turns
<1> QED
  BY <1>1, <1>2, <1>3, <1>4, <1>5, <1>6
     DEF FilesInv, RestoredInv, OneMaker, InOrder, TakesBack, LeftMine, Underway

LEMMA FilesStep == FilesInv /\ [Next]_vars => FilesInv'
<1> SUFFICES ASSUME FilesInv, [Next]_vars PROVE FilesInv'
  OBVIOUS
<1>1. BaseInv /\ BaseInv' /\ (SameCommits \/ NewCommit)
  BY BaseStep, GitMoves DEF FilesInv
<1> QED
  BY <1>1, ChainedStep, OneMakerStep, InOrderStep, TakesBackStep, LeftMineStep, UnderwayStep
     DEF FilesInv, RestoredInv

\* Of two rows of a session the one of the earlier turn, or the earlier of one turn, has
\* the earlier commit.
LEMMA RowsInOrder ==
  ASSUME BaseInv, InOrder, ~hist.stale, NEW c \in tc, NEW d \in tc, c.sess = d.sess, Before(c, d)
  PROVE  c.hash < d.hash
<1>1. /\ c.sess \in Sessions /\ c.turn \in Turns /\ d.turn \in Turns
      /\ c.hash \in Nat /\ d.hash \in Nat
  <2>1. c.hash \in DOMAIN commits /\ d.hash \in DOMAIN commits /\ DOMAIN commits = 1 .. Len(commits)
    BY CommitFacts DEF BaseInv, TypeOK
  <2> QED
    BY <2>1 DEF BaseInv, TypeOK
<1>2. CASE c.turn < d.turn
  <2>1. d.turn <= lastTurn[c.sess] /\ hist.before[c.sess][d.turn] < d.hash
    BY DEF InOrder
  <2>2. c.hash <= hist.before[c.sess][d.turn]
    BY <1>1, <1>2, <2>1 DEF InOrder
  <2>3. hist.before[c.sess][d.turn] \in Nat
    BY <1>1, TypeParts DEF BaseInv, Hists
  <2> QED
    BY <1>1, <2>1, <2>2, <2>3
<1> QED
  BY <1>2 DEF Before

\* When every commit has been reverted, a file that nothing else has changed since the turn
\* began holds what was committed before it: the oldest commit that changed it is the
\* turn's, or one that comes later, and what it found is what the turn found.
LEMMA FileRestored ==
  ASSUME FilesInv, rb.stage = "db", ~hist.disturbed, ~hist.stale, ~hist.start.other,
         NEW f \in Files, ~Foreign(f)
  PROVE  idx[f] = TreeBefore(rb.sess, rb.target)[f] /\ wt[f] = idx[f]
<1> DEFINE s == rb.sess
           t == rb.target
           b == hist.before[s][t]
           n == Len(commits)
<1>1. s \in Sessions /\ t \in Turns /\ rb.left = {}
  BY DEF FilesInv, BaseInv, TargetKnown
<1>2. /\ hist.start.commits = n /\ hist.start.own = OwnCommits(s, t)
      /\ t <= lastTurn[s]
      /\ IF Changed(f) = {}
         THEN idx[f] # head[f] => ByTurn(hist, commits, s, t, f, n)
         ELSE \E c \in Changed(f) : /\ idx[f] = commits[c.hash].from[f]
                                    /\ \A d \in Changed(f) \ {c} : Before(c, d)
  BY DEF FilesInv, RestoredInv, Underway
<1>3. /\ n \in Nat /\ b \in Nat /\ b <= n /\ \A u \in Turns : hist.before[s][u] \in Nat
      /\ DOMAIN commits = 1 .. n
  BY <1>1, <1>2, TypeParts, CommitFacts DEF FilesInv, RestoredInv, InOrder, BaseInv, Hists
<1>4. Done = Mine /\ Mine \subseteq tc
  BY <1>1 DEF Done, Mine
<1>5. wt[f] = idx[f] /\ \A i \in b + 1 .. n : f \in Touched(commits[i]) => i \in OwnCommits(s, t)
  BY <1>2 DEF Foreign
<1>6. TreeBefore(s, t) = Made(commits, b)
  BY DEF TreeBefore, Made
<1> HIDE DEF b, n
\* What a turn's commit changed is for the rollback to revert.
<1>7. ASSUME NEW i \in b + 1 .. n, f \in Touched(commits[i]), \A r \in hist.reverts : r.hash # i
      PROVE  \E c \in Changed(f) : c.hash = i
  <2>1. PICK c \in tc \cup hist.reverts : c.sess = s /\ c.turn >= t /\ c.hash = i
    BY <1>5, <1>7 DEF OwnCommits
  <2>2. c \in Mine
    BY <1>7, <2>1 DEF Mine
  <2> QED
    BY <1>4, <1>7, <2>1, <2>2 DEF Changed
\* What a rollback's changed, a turn's did before it.
<1>8. ASSUME NEW i \in b + 1 .. n, f \in Touched(commits[i])
      PROVE  \E c \in Changed(f) : c.hash <= i
  <2>1. CASE \A r \in hist.reverts : r.hash # i
    <3>1. PICK c \in Changed(f) : c.hash = i
      BY <1>7, <1>8, <2>1
    <3>2. i <= i
      BY <1>3
    <3> QED
      BY <3>1, <3>2
  <2>2. ASSUME NEW r \in hist.reverts, r.hash = i PROVE \E c \in Changed(f) : c.hash <= i
    <3>1. PICK q \in hist.reverts : q.hash = i /\ ByTurn(hist, commits, q.sess, q.turn, f, i - 1)
      BY <1>8, <2>2 DEF FilesInv, RestoredInv, TakesBack
    <3>2. q.sess = s /\ q.turn >= t
      BY <1>5, <1>8, <3>1 DEF OwnCommits
    <3>3. PICK j \in hist.before[s][q.turn] + 1 .. i - 1 :
            f \in Touched(commits[j]) /\ \A x \in hist.reverts : x.hash # j
      BY <3>1, <3>2 DEF ByTurn
    <3>4. q.turn \in Turns /\ q.turn <= lastTurn[s]
      BY <3>1, <3>2, TypeParts DEF FilesInv, RestoredInv, TakesBack, BaseInv, Hists
    <3>5. t <= q.turn
      BY <1>1, <3>2, <3>4, Basics DEF Turns
    <3>6. b <= hist.before[s][q.turn] /\ hist.before[s][q.turn] \in Nat
      BY <1>1, <1>3, <3>4, <3>5 DEF FilesInv, RestoredInv, InOrder, b
    <3>7. j \in b + 1 .. n /\ j <= i
      BY <1>3, <3>3, <3>6
    <3>8. PICK c \in Changed(f) : c.hash = j
      BY <1>7, <3>3, <3>7
    <3> QED
      BY <3>7, <3>8
  <2> QED
    BY <2>1, <2>2
<1>9. CASE Changed(f) = {}
  <2>1. \A i \in b + 1 .. n : f \notin Touched(commits[i])
    BY <1>8, <1>9
  <2>2. Made(commits, b)[f] = Made(commits, n)[f] /\ head = Made(commits, n)
    <3>1. b \in 0 .. n /\ n \in 0 .. n
      BY <1>3
    <3> QED
      BY <1>3, <2>1, <3>1 DEF FilesInv, RestoredInv, Chained, n
  <2>3. ~ByTurn(hist, commits, s, t, f, n)
    BY <2>1 DEF ByTurn, b
  <2>4. idx[f] = head[f]
    BY <1>2, <1>9, <2>3 DEF n
  <2> QED
    BY <1>5, <1>6, <2>2, <2>4
<1>10. CASE Changed(f) # {}
  <2>1. PICK c \in Changed(f) : /\ idx[f] = commits[c.hash].from[f]
                                /\ \A d \in Changed(f) \ {c} : Before(c, d)
    BY <1>2, <1>10
  <2>2. c \in tc /\ c.sess = s /\ t <= c.turn
    <3>1. c \in Mine /\ c \in tc
      BY <1>4 DEF Changed
    <3>2. c.turn \in Nat /\ t \in Nat
      BY <1>1, <3>1, Basics DEF Turns, FilesInv, BaseInv, TypeOK
    <3> QED
      BY <3>1, <3>2 DEF Mine
  <2>3. b < c.hash /\ c.hash \in 1 .. n
    BY <1>1, <2>2, RowsAfter DEF FilesInv, RestoredInv, b, n
  <2>4. ASSUME NEW k \in b + 1 .. c.hash - 1, f \in Touched(commits[k]) PROVE FALSE
    <3>1. k \in b + 1 .. n /\ k < c.hash
      BY <1>3, <2>3
    <3>2. PICK d \in Changed(f) : d.hash <= k
      BY <1>8, <2>4, <3>1
    <3>3. d \in tc /\ d.sess = s /\ d.hash \in 1 .. n
      BY <1>3, <1>4 DEF Changed, Mine, FilesInv, BaseInv, TypeOK
    <3>4. d # c
      BY <1>3, <2>3, <3>1, <3>2, <3>3
    <3>5. c.hash < d.hash
      BY <2>1, <2>2, <3>3, <3>4, RowsInOrder DEF FilesInv, RestoredInv
    <3> QED
      BY <1>3, <2>3, <3>1, <3>2, <3>3, <3>5
  <2>5. b \in 0 .. n /\ c.hash - 1 \in 0 .. n /\ b <= c.hash - 1
    BY <1>3, <2>3
  <2>6. Made(commits, b)[f] = Made(commits, c.hash - 1)[f]
    BY <2>4, <2>5 DEF FilesInv, RestoredInv, Chained, n
  <2>7. commits[c.hash].from = Made(commits, c.hash - 1)
    BY <1>3, <2>3 DEF FilesInv, RestoredInv, Chained
  <2> QED
    BY <1>5, <1>6, <2>1, <2>6, <2>7
<1> QED
  BY <1>9, <1>10

\* The order RollbackBeforeTurn keeps: when the database takes the turns back, every file
\* that only those turns changed already holds what was committed before the first of
\* them, whatever a crash left staged in an earlier attempt.
THEOREM FilesRestoredHolds == Spec => FilesRestored
<1> DEFINE Restored ==
      RbCommitDB /\ Undisturbed /\ ~hist.stale /\ ~hist.start.other =>
        \A f \in Files : ~Foreign(f) =>
          idx[f] = TreeBefore(rb.sess, rb.target)[f] /\ wt[f] = idx[f]
<1>1. Init => FilesInv
  BY FilesInit
<1>2. FilesInv /\ [Next]_vars => FilesInv'
  BY FilesStep
<1>3. FilesInv /\ [Next]_vars => [Restored]_vars
  BY FileRestored DEF RbCommitDB, Undisturbed
<1> QED
  BY <1>1, <1>2, <1>3, PTL DEF Spec, FilesRestored
=============================================================================
