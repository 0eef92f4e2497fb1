------------------------------- MODULE Turns -------------------------------
(***************************************************************************)
(* The life of the operations on ONE session: chat turns (chatImpl in      *)
(* src/app/chat.go), manual compressions (CompressContext), the title      *)
(* goroutine, CancelChat and DeleteSession.  They meet in the cancel       *)
(* manager (src/internal/agent/cancel.go), which keeps one cancel function *)
(* and one shutdown channel per session, and in the database.              *)
(*                                                                         *)
(* Every step is one call that takes the manager's lock or one database    *)
(* statement or transaction (the pool has a single connection); between    *)
(* two steps of an operation every other one may run.  An operation that   *)
(* finds the session gone works on another session and is not seen here.   *)
(***************************************************************************)
EXTENDS Naturals, FiniteSets

CONSTANTS
  Chats,         \* calls of Chat for the session
  Compressions,  \* calls of CompressContext for it
  NoOp,          \* no operation
  Timeouts       \* whether DeleteSession may exhaust its ten seconds

Ops == Chats \cup Compressions

ASSUME OpsAssumption ==
  /\ Chats \cap Compressions = {}
  /\ NoOp \notin Ops
  /\ Timeouts \in BOOLEAN

VARIABLES
  pc,         \* how far each operation has come
  cancels,    \* the operation whose cancel function the manager holds
  done,       \* the operation that made the channel the manager holds
  closed,     \* operations whose channel has been closed
  cancelled,  \* operations whose context has been cancelled
  row,        \* the session's row
  rows,       \* operations with message or commit rows in the database
  snap,       \* chats that have read the session row and will save it whole
  creator,    \* the chat that created the session
  title,      \* the title goroutine
  deleter,    \* DeleteSession
  waitFor,    \* the operation whose channel DeleteSession waits on
  past        \* the history: solo operations, and whether the deletion was clean

manager   == <<cancels, done, closed, cancelled>>
db        == <<row, rows, snap>>
naming    == <<creator, title>>
deletion  == <<deleter, waitFor>>
turnsVars == <<pc, manager, db, naming, deletion, past>>

Stages == {"idle", "checked", "loaded", "cleared", "registered", "open",
           "turned", "staged", "looping", "closing", "committed", "ended"}

Active == {o \in Ops : pc[o] \notin {"idle", "ended"}}

\* From Register to Unregister: an operation others have to be able to stop.
Held(o) == pc[o] \in {"registered", "open", "turned", "staged", "looping",
                      "closing", "committed"}

\* From RegisterShutdown on: an operation others are able to wait for.
Open(o) == Held(o) /\ pc[o] # "registered"

\* `solo' holds the operations that have had no other beside them since they
\* began; `clean' says that DeleteSession found every operation over or open,
\* none of them with company, the title settled, and that until the rows went
\* none began and the wait was not cut short.
Past == [solo : SUBSET Ops, clean : BOOLEAN]

TurnsTypeOK ==
  /\ pc \in [Ops -> Stages]
  /\ cancels \in Ops \cup {NoOp}
  /\ done \in Ops \cup {NoOp}
  /\ closed \subseteq Ops
  /\ cancelled \subseteq Ops
  /\ row \in {"none", "live", "deleted"}
  /\ rows \subseteq Ops
  /\ snap \subseteq Chats
  /\ creator \in Chats \cup {NoOp}
  /\ title \in {"off", "asking", "read", "settled"}
  /\ deleter \in {"off", "cancelled", "waiting", "go", "returned"}
  /\ waitFor \in Ops \cup {NoOp}
  /\ past \in Past
  /\ deleter = "waiting" => waitFor \in Ops  \* a nil channel blocks for ever

TurnsInit ==
  /\ pc = [o \in Ops |-> "idle"]
  /\ cancels = NoOp
  /\ done = NoOp
  /\ closed = {}
  /\ cancelled = {}
  /\ row = "none"
  /\ rows = {}
  /\ snap = {}
  /\ creator = NoOp
  /\ title = "off"
  /\ deleter = "off"
  /\ waitFor = NoOp
  /\ past = [solo |-> {}, clean |-> FALSE]

-----------------------------------------------------------------------------
(* The cancel manager.  Each operator is one critical section.             *)

\* Mutant: the entry is dropped and its cancel function is not called.
CancelForgets ==
  /\ cancels' = NoOp
  /\ UNCHANGED <<done, closed, cancelled>>

\* CancelManager.Cancel: call the registered function and drop it; the channel
\* stays until Unregister.
Cancel ==
  /\ cancelled' = cancelled \cup ({cancels} \ {NoOp})
  /\ cancels' = NoOp
  /\ UNCHANGED <<done, closed>>

\* CancelManager.Register: the entry of whoever was there is overwritten.
Register(o) ==
  /\ cancels' = o
  /\ UNCHANGED <<done, closed, cancelled>>

\* CancelManager.RegisterShutdown: so is its channel, which nobody can close
\* any more.
RegisterShutdown(o) ==
  /\ done' = o
  /\ UNCHANGED <<cancels, closed, cancelled>>

\* Mutant: the channel is closed and stays in the map.
UnregisterLeavesChannel(o) ==
  /\ cancels' = NoOp
  /\ closed' = closed \cup ({done} \ {NoOp})
  /\ UNCHANGED <<done, cancelled>>

\* CancelManager.Unregister: whoever made them, the entry is dropped and the
\* channel closed and dropped.
Unregister(o) ==
  /\ cancels' = NoOp
  /\ closed' = closed \cup ({done} \ {NoOp})
  /\ done' = NoOp
  /\ UNCHANGED cancelled

-----------------------------------------------------------------------------
(* The steps the operations share.                                         *)

Goto(o, from, to) == pc[o] = from /\ pc' = [pc EXCEPT ![o] = to]

\* The history an operation's beginning leaves.
Begin(o) ==
  past' = [solo  |-> IF Active = {} THEN past.solo \cup {o}
                     ELSE past.solo \ Active,
           clean |-> past.clean /\ deleter = "returned"]

\* A statement that may or may not have something to write for o.
MayWrite(o) == rows' \in {rows, rows \cup {o}} /\ UNCHANGED <<row, snap>>

CallRegister(o) ==
  /\ Goto(o, IF o \in Chats THEN "cleared" ELSE "loaded", "registered")
  /\ Register(o)
  /\ UNCHANGED <<db, naming, deletion, past>>

CallRegisterShutdown(o) ==
  /\ Goto(o, "registered", "open")
  /\ RegisterShutdown(o)
  /\ UNCHANGED <<db, naming, deletion, past>>

\* The deferred UnregisterCancel, on every way out.
CallUnregister(o) ==
  /\ Goto(o, "committed", "ended")
  /\ Unregister(o)
  /\ UNCHANGED <<db, naming, deletion, past>>

-----------------------------------------------------------------------------
(* A chat turn, in the order of chatImpl.                                  *)

\* loadOrCreateSession, for the chats that end up on this session.
ChatLoad(o) ==
  /\ Goto(o, "idle", "loaded")
  /\ row # "deleted"
  /\ row' = "live"
  /\ creator' = IF row = "none" THEN o ELSE creator
  /\ Begin(o)
  /\ UNCHANGED <<manager, rows, snap, title, deletion>>

\* The turn before this one, if it is still there, is told to stop; nobody
\* waits for it.
ChatCancelsPrevious(o) ==
  /\ Goto(o, "loaded", "cleared")
  /\ Cancel
  /\ UNCHANGED <<db, naming, deletion, past>>

\* A new session's title is asked for in a goroutine; then NextTurn, which
\* fails when the context is gone, before any commit has been deferred.
BeginTurn(o) ==
  /\ Goto(o, "open", IF o \in cancelled THEN "committed" ELSE "turned")
  /\ title' = IF creator = o THEN "asking" ELSE title
  /\ UNCHANGED <<manager, db, creator, deletion, past>>

\* commitUserChanges: the user's edits, if any, and their turn_commits row.
CommitUserChanges(o) ==
  /\ Goto(o, "turned", "staged")
  /\ MayWrite(o)
  /\ UNCHANGED <<manager, naming, deletion, past>>

\* The transaction that stores the user's message and what goes with it.  It
\* asks nothing about the session's row.
StoreMessages(o) ==
  /\ Goto(o, "staged", IF o \in cancelled THEN "closing" ELSE "looping")
  /\ rows' = IF o \in cancelled THEN rows ELSE rows \cup {o}
  /\ UNCHANGED <<manager, row, snap, naming, deletion, past>>

\* One write of the agent loop: appendMsg, model usage.  Most of them do not
\* look at the context.
AppendRow(o) ==
  /\ pc[o] = "looping" /\ o \notin snap
  /\ rows' = rows \cup {o}
  /\ UNCHANGED <<pc, manager, row, snap, naming, deletion, past>>

\* UpdateSessionUsage reads the whole row ...
ReadUsage(o) ==
  /\ pc[o] = "looping" /\ o \notin snap \cup cancelled
  /\ row = "live"
  /\ snap' = snap \cup {o}
  /\ UNCHANGED <<pc, manager, row, rows, naming, deletion, past>>

\* ... and saves it, inserting it when there is none to update.
SaveUsage(o) ==
  /\ o \in snap
  /\ snap' = snap \ {o}
  /\ row' = IF o \in cancelled THEN row ELSE "live"
  /\ UNCHANGED <<pc, manager, rows, naming, deletion, past>>

\* Mutant: the loop's retries do not look at the context.
EndTurnUnlessCancelled(o) ==
  /\ Goto(o, "looping", "closing")
  /\ o \notin snap \cup cancelled
  /\ MayWrite(o)
  /\ UNCHANGED <<manager, naming, deletion, past>>

\* agent.Run returns; when it was stopped or failed a message says so.
EndTurn(o) ==
  /\ Goto(o, "looping", "closing")
  /\ o \notin snap
  /\ MayWrite(o)
  /\ UNCHANGED <<manager, naming, deletion, past>>

\* The deferred commitAIChanges, which runs before the deferred Unregister.
CommitAIChanges(o) ==
  /\ Goto(o, "closing", "committed")
  /\ MayWrite(o)
  /\ UNCHANGED <<manager, naming, deletion, past>>

-----------------------------------------------------------------------------
(* A manual compression, in the order of CompressContext.                  *)

\* IsRunning: nobody is registered.  (A refused call changes nothing.)
CheckIdle(c) ==
  /\ Goto(c, "idle", "checked")
  /\ row # "none"
  /\ cancels = NoOp
  /\ Begin(c)
  /\ UNCHANGED <<manager, db, naming, deletion>>

\* The session, its next turn number and its messages; nothing is registered
\* yet.
CompressLoad(c) ==
  /\ Goto(c, "checked", IF row = "live" THEN "loaded" ELSE "ended")
  /\ UNCHANGED <<manager, db, naming, deletion, past>>

\* The summary is made and persistCompression's transaction, which needs the
\* row, replaces the context; or one of them fails.
Persist(c) ==
  /\ Goto(c, "open", "committed")
  /\ \/ c \notin cancelled /\ row = "live" /\ rows' = rows \cup {c}
     \/ UNCHANGED rows
  /\ UNCHANGED <<manager, row, snap, naming, deletion, past>>

-----------------------------------------------------------------------------
(* The title goroutine: UpdateSessionMeta reads the whole row and saves it. *)

ReadTitle ==
  /\ title = "asking"
  /\ title' \in {"settled"} \cup (IF row = "live" THEN {"read"} ELSE {})
  /\ UNCHANGED <<pc, manager, db, creator, deletion, past>>

SaveTitle ==
  /\ title = "read"
  /\ title' = "settled"
  /\ row' = "live"
  /\ UNCHANGED <<pc, manager, rows, snap, creator, deletion, past>>

-----------------------------------------------------------------------------
(* The user stops the conversation, or deletes the session.                *)

CancelChat ==
  /\ cancels # NoOp
  /\ Cancel
  /\ UNCHANGED <<pc, db, naming, deletion, past>>

DeleteCancels ==
  /\ deleter = "off" /\ row = "live"
  /\ deleter' = "cancelled"
  /\ Cancel
  /\ past' = [past EXCEPT !.clean = /\ \A o \in Active : Open(o) /\ o \in past.solo
                                    /\ title = "settled"]
  /\ UNCHANGED <<pc, db, naming, waitFor>>

\* Mutant: the wait asks whether the session is registered, as IsRunning does,
\* instead of looking for its channel.
DeleteLooksUpRunning ==
  /\ deleter = "cancelled"
  /\ deleter' = IF cancels = NoOp \/ done = NoOp THEN "go" ELSE "waiting"
  /\ waitFor' = IF cancels = NoOp THEN NoOp ELSE done
  /\ UNCHANGED <<pc, manager, db, naming, past>>

\* WaitForStop looks the channel up: there is none before RegisterShutdown.
DeleteLooksUp ==
  /\ deleter = "cancelled"
  /\ deleter' = IF done = NoOp THEN "go" ELSE "waiting"
  /\ waitFor' = done
  /\ UNCHANGED <<pc, manager, db, naming, past>>

DeleteHears ==
  /\ deleter = "waiting" /\ waitFor \in closed
  /\ deleter' = "go"
  /\ UNCHANGED <<pc, manager, db, naming, waitFor, past>>

\* Mutant: the wait has no timeout.
DeleteTimesOutNever == FALSE /\ UNCHANGED turnsVars

\* Ten seconds have passed; DeleteSession does not look at the answer.
DeleteTimesOut ==
  /\ Timeouts
  /\ deleter = "waiting"
  /\ deleter' = "go"
  /\ past' = [past EXCEPT !.clean = FALSE]
  /\ UNCHANGED <<pc, manager, db, naming, waitFor>>

\* The transaction of Store.DeleteSession.
DeleteRows ==
  /\ deleter = "go"
  /\ deleter' = "returned"
  /\ row' = "deleted"
  /\ rows' = {}
  /\ UNCHANGED <<pc, manager, snap, naming, waitFor, past>>

-----------------------------------------------------------------------------

\* What an operation does by itself, without an answer of the model it talks
\* to: it goes through as long as the process runs.
ChatStep(o) ==
  \/ ChatCancelsPrevious(o) \/ CallRegister(o) \/ CallRegisterShutdown(o)
  \/ BeginTurn(o) \/ CommitUserChanges(o) \/ StoreMessages(o)
  \/ SaveUsage(o) \/ CommitAIChanges(o) \/ CallUnregister(o)

CompressStep(c) ==
  CompressLoad(c) \/ CallRegister(c) \/ CallRegisterShutdown(c) \/ CallUnregister(c)

Deleting == DeleteLooksUp \/ DeleteHears \/ DeleteTimesOut \/ DeleteRows

TurnsNext ==
  \/ \E o \in Chats :
       ChatLoad(o) \/ ChatStep(o) \/ AppendRow(o) \/ ReadUsage(o) \/ EndTurn(o)
  \/ \E c \in Compressions : CheckIdle(c) \/ CompressStep(c) \/ Persist(c)
  \/ ReadTitle \/ SaveTitle
  \/ CancelChat
  \/ DeleteCancels \/ Deleting

\* A turn ends by itself only when it wants to; a cancelled one does: its
\* stream, its tools and its approvals watch the context.
Fairness ==
  /\ \A o \in Chats :
       WF_turnsVars(ChatStep(o)) /\ WF_turnsVars(o \in cancelled /\ EndTurn(o))
  /\ \A c \in Compressions :
       WF_turnsVars(CompressStep(c)) /\ WF_turnsVars(c \in cancelled /\ Persist(c))
  /\ WF_turnsVars(Deleting)

TurnsSpec == TurnsInit /\ [][TurnsNext]_turnsVars

FairSpec == TurnsSpec /\ Fairness

-----------------------------------------------------------------------------
(* Properties.                                                             *)

\* The channel the manager holds has not been closed, so that Unregister never
\* closes one twice, which would panic, however the operations overlap
\* (CancelManager.Unregister).
NoDoubleClose == done # NoOp => done \notin closed

\* What is registered belongs to an operation still under way, cancelled or
\* not: IsRunning does not answer yes for a session that has ended (the comment
\* at the deferred UnregisterCancel in chatImpl).
OwnedRegistrations ==
  /\ cancels # NoOp => Held(cancels)
  /\ done # NoOp => Open(done)

\* An operation that has had the session to itself can be stopped from the
\* moment it is registered: either the manager holds its cancel function or its
\* context has been cancelled already.  (Two operations on one session lose
\* this: the first to end drops the other's entry.)
SoloStoppable ==
  \A o \in past.solo : Held(o) => cancels = o \/ o \in cancelled

\* DeleteSession keeps its word when nothing unusual meets it: if every
\* operation was over or open when it cancelled, none had company, none began
\* meanwhile and the wait was not cut short, nothing of the session is ever
\* written again.
CleanDelete ==
  deleter = "returned" /\ past.clean => row = "deleted" /\ rows = {}

\* DeleteSession comes back, even when the channel it waits on was overwritten
\* by a second operation and will never be closed.
DeleteReturns == deleter # "off" ~> deleter = "returned"

\* A turn or a compression whose context is cancelled comes to its end,
\* wherever the cancellation caught it.
CancelledEnds == \A o \in Ops : o \in cancelled ~> pc[o] = "ended"
=============================================================================
