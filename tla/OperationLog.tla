---------------------------- MODULE OperationLog ----------------------------
(***************************************************************************)
(* The tables of a novel and the operation log that the GORM hooks of      *)
(* src/internal/storage/operation_log.go keep of them: which statements    *)
(* are logged, to which turn a statement of the user is credited, and how  *)
(* RollbackInTx takes the records of a session's turns back.               *)
(*                                                                         *)
(* A tool of a session and a call of the interface both read a row, decide *)
(* and write it in separate statements, with other actors in between; the  *)
(* database has one connection, so a statement or a transaction is one     *)
(* step.  What an actor has read and is about to write is op[a].  The      *)
(* modules that extend this one give the checks of each operation.         *)
(***************************************************************************)
EXTENDS Naturals, Sequences, SequencesExt, FiniteSets, Functions

CONSTANTS
  Sessions,   \* sessions of the novel, each with its agent
  User,       \* the interface
  None,       \* no row; nothing in progress
  Tables,     \* names of the tables
  Unreadable, \* tables whose JSON names are not the names of their columns
  MaxRows,    \* bound on the rows ever put in a table
  MaxTurns,   \* bound on the turns of all sessions, taken together
  MaxSteps    \* bound on the operations that write a table, for each part

ASSUME OperationLogAssumption ==
  /\ User \notin Sessions
  /\ Unreadable \subseteq Tables
  /\ MaxRows \in Nat /\ MaxTurns \in Nat
  /\ \A part \in DOMAIN MaxSteps : MaxSteps[part] \in Nat

VARIABLES
  db,    \* the rows of each table, by id, and the operation log
  turn,  \* last_turn_id of each session
  op,    \* what each actor has read and will write
  steps, \* operations that have written so far
  hist   \* history: the part of the tables in use, the rows at the start of each
         \* turn, who has touched a row since, who has read what is stale, and the
         \* rolled back turn

vars == <<db, turn, op, steps, hist>>

Actors == Sessions \cup {User}

Nobody == [sess |-> User, turn |-> 0]  \* the credit of a statement no turn made

-----------------------------------------------------------------------------
(* Rows.  An id is never given out twice (AUTOINCREMENT).                  *)

Ids(d, t)    == {i \in DOMAIN d.rows[t] : d.rows[t][i] # None}
Has(d, t, i) == i \in Ids(d, t)
Rows(d, t)   == {d.rows[t][i] : i \in Ids(d, t)}
Put(d, t, i, r) == [d EXCEPT !.rows[t][i] = r]

(* The hooks.  A statement made in a turn is credited to it, one of the    *)
(* user to the turn that the last record of the same row is credited to.   *)

resolveTurnForEntity(d, t, i) ==
  LET last == SelectLastInSubSeq(d.log, 1, Len(d.log),
                                 LAMBDA r : r.table = t /\ r.id = i)
  IN  IF last = 0 THEN Nobody ELSE d.log[last].by

Credit(d, a, t, i) ==
  IF a = User THEN resolveTurnForEntity(d, t, i)
              ELSE [sess |-> a, turn |-> turn[a]]

buildRecord(d, a, kind, t, i, old) ==
  [d EXCEPT !.log = Append(@, [by |-> Credit(d, a, t, i), kind |-> kind,
                               table |-> t, id |-> i, old |-> old])]

\* Create of a row without an id: the next id.
Create(d, a, t, r) ==
  LET i == Len(d.rows[t]) + 1
  IN  buildRecord([d EXCEPT !.rows[t] = Append(@, r)], a, "create", t, i, None)

\* Create of several rows, one after the other, by a session.
CreateAll(d, s, t, rows) ==
  LET Logged(n) == [by |-> Credit(d, s, t, Len(d.rows[t]) + n), kind |-> "create",
                    table |-> t, id |-> Len(d.rows[t]) + n, old |-> None]
  IN  [d EXCEPT !.rows[t] = @ \o rows,
                !.log = @ \o [n \in DOMAIN rows |-> Logged(n)]]

\* Save of a row with its id, or Create of a row with a natural key: an update
\* that is logged when it changes something, and an insert when the row is not
\* there, or no longer.
Save(d, a, t, i, r) ==
  IF ~Has(d, t, i)
  THEN buildRecord(Put(d, t, i, r), a, "create", t, i, None)
  ELSE IF d.rows[t][i] = r THEN d
  ELSE buildRecord(Put(d, t, i, r), a, "update", t, i, d.rows[t][i])

\* Delete of a row that was read.
Delete(d, a, t, i) ==
  IF ~Has(d, t, i) THEN d
  ELSE buildRecord(Put(d, t, i, None), a, "delete", t, i, d.rows[t][i])

\* Model(..).Where(..).Updates(map): the hooks cannot tell the row from the
\* destination and log nothing.
Updates(d, t, ids, F(_)) ==
  [d EXCEPT !.rows[t] = [i \in DOMAIN @ |->
                           IF i \in ids /\ @[i] # None THEN F(@[i]) ELSE @[i]]]

\* Where(..).Delete(&T{}): the same.
DeleteWhere(d, t, ids) == Updates(d, t, ids, LAMBDA r : None)

(* Reversal.                                                               *)

CanReverse(d, r) == CASE r.kind = "create" -> TRUE
                      [] r.kind = "update" -> r.table \notin Unreadable
                      [] OTHER -> /\ r.table \notin Unreadable
                                  /\ ~Has(d, r.table, r.id)

reverseOne(d, r) ==
  CASE r.kind = "create" -> Put(d, r.table, r.id, None)
    [] r.kind = "update" -> IF Has(d, r.table, r.id)
                            THEN Put(d, r.table, r.id, r.old) ELSE d
    [] OTHER -> Put(d, r.table, r.id, r.old)

Of(r, s, n) == r.by.sess = s /\ r.by.turn >= n /\ r.by.turn <= turn[s]

\* What is left of the log.
Forgotten(d, s, n) == [d EXCEPT !.log = SelectSeq(@, LAMBDA r : ~Of(r, s, n))]

\* The database d after reversing record r, or None when that fails.
TryReverse(d, r) == IF d = None \/ ~CanReverse(d, r) THEN None ELSE reverseOne(d, r)

\* Mutant: the first one first.
ReverseOldestFirst(s, n) ==
  LET before[i \in 0 .. Len(db.log)] ==
        IF i = 0 THEN db
        ELSE IF Of(db.log[i], s, n) THEN TryReverse(before[i - 1], db.log[i])
        ELSE before[i - 1]
  IN  before[Len(db.log)]

\* The database after reversing the records of turns n and later of session s, the
\* last one first, or None when one fails; after[i] is it down to record i.
ReverseAll(s, n) ==
  LET end == Len(db.log) + 1
      after[i \in 1 .. end] ==
        IF i = end THEN db
        ELSE IF Of(db.log[i], s, n) THEN TryReverse(after[i + 1], db.log[i])
        ELSE after[i + 1]
  IN  after[1]

-----------------------------------------------------------------------------
(* Actors.                                                                 *)

Idle(a) == op[a] = None
MayAct(a) == a \in Sessions => turn[a] > 0

\* Bound: nothing after a rollback, and before it room for another operation that
\* writes, beside those that actors have decided on; and it has written.
Pending == {a \in Actors : op[a] # None}
Spare   == hist.undone = None /\ steps + Cardinality(Pending) < MaxSteps[hist.part]
Tick    == steps' = steps + 1

\* Bound: room for another row.
Room(t) == Len(db.rows[t]) < MaxRows

\* History: the rows that differ in d, and the record d has of each.
Changed(d) == {e \in Tables \X (1 .. MaxRows) :
                 /\ e[2] \in DOMAIN d.rows[e[1]]
                 /\ Has(db, e[1], e[2]) \/ Has(d, e[1], e[2])
                 /\ e[2] \in DOMAIN db.rows[e[1]] =>
                      d.rows[e[1]][e[2]] # db.rows[e[1]][e[2]]}

NewRecord(d, e) ==
  SelectLastInSubSeq(d.log, Len(db.log) + 1, Len(d.log),
                     LAMBDA r : r.table = e[1] /\ r.id = e[2])

Touches(a, d) ==
  {LET k == NewRecord(d, e)
   IN  [row |-> e, actor |-> a, logged |-> k # 0, at |-> turn,
        by |-> IF k = 0 THEN Nobody ELSE d.log[k].by] : e \in Changed(d)}

\* Actor a makes the database d in one statement or transaction; whatever
\* others have read is stale then.
Commits(a, d) ==
  /\ db' = d
  /\ hist' = [hist EXCEPT !.touches = @ \cup Touches(a, d),
                          !.stale = (@ \ {a}) \cup (Pending \ {a})]
  /\ UNCHANGED turn

\* The check of an operation has passed: what it will do with row i of table t.
\* `seen' is the row as it was read, `new' the row it will write.
Will(a, do, t, i, seen, new) ==
  /\ Spare /\ Idle(a) /\ MayAct(a)
  /\ op' = [op EXCEPT ![a] = [do |-> do, table |-> t, id |-> i,
                              seen |-> seen, new |-> new]]
  /\ hist' = [hist EXCEPT !.stale = @ \ {a}]
  /\ UNCHANGED <<db, turn, steps>>

Done(a) == op' = [op EXCEPT ![a] = None]

\* Something done in one statement, with nothing read before it.
AtOnce(a, d) == Spare /\ Tick /\ Idle(a) /\ MayAct(a) /\ Commits(a, d) /\ UNCHANGED op

\* Bound: nothing after a rollback.
About(a, do) == op[a] # None /\ op[a].do = do /\ hist.undone = None

\* A row is read, and saved whole with some change that `May' allows.  The tools
\* that update a row do this, and PatchAndSave for the interface.
Edit(a, t, i, NewRows, May(_, _)) ==
  /\ Has(db, t, i)
  /\ \E new \in NewRows \ {db.rows[t][i]} :
       /\ May(db.rows[t][i], new)
       /\ Will(a, "save", t, i, db.rows[t][i], new)

PatchAndSave(t, i, NewRows) == Edit(User, t, i, NewRows, LAMBDA old, new : TRUE)

\* delete_record: the row is read, rows that refer to it are looked for, and then
\* the user is asked.
delete_record(s, t, i, Referring) ==
  /\ Has(db, t, i) /\ Referring = {}
  /\ Will(s, "delete", t, i, db.rows[t][i], None)

\* The writes most operations end in.
WriteSave(a) ==
  /\ About(a, "save") /\ Tick /\ Done(a)
  /\ Commits(a, Save(db, a, op[a].table, op[a].id, op[a].new))

WriteDelete(a) ==
  /\ About(a, "delete") /\ Tick /\ Done(a)
  /\ Commits(a, Delete(db, a, op[a].table, op[a].id))

WriteCreate(a) ==
  /\ About(a, "create") /\ Room(op[a].table) /\ Tick /\ Done(a)
  /\ Commits(a, Create(db, a, op[a].table, op[a].new))

\* The user rejects a deletion, or the turn is cancelled while it waits.
Refuse(s) ==
  /\ About(s, "delete") \/ About(s, "delete_silently")
  /\ Done(s)
  /\ UNCHANGED <<db, turn, steps, hist>>

TurnsBegun == FoldFunction(+, 0, turn)

\* A turn of session s begins.
BeginTurn(s) ==
  /\ Idle(s) /\ TurnsBegun < MaxTurns
  /\ turn' = [turn EXCEPT ![s] = @ + 1]
  /\ hist' = [hist EXCEPT !.marks[s] = Append(@, db.rows)]
  /\ UNCHANGED <<db, op, steps>>

\* RollbackInTx to the start of turn n of session s.  Bound: the last step.
RollbackInTx(s, n) ==
  /\ n \in 1 .. turn[s] /\ hist.undone = None
  /\ LET undone == ReverseAll(s, n)
     IN  /\ undone # None
         /\ db' = Forgotten(undone, s, n)
  /\ hist' = [hist EXCEPT !.undone = [sess |-> s, turn |-> n]]
  /\ steps' = MaxSteps[hist.part]
  /\ UNCHANGED <<turn, op>>

LogInit(part) ==
  /\ turn = [s \in Sessions |-> 0]
  /\ op = [a \in Actors |-> None]
  /\ steps = 0
  /\ hist = [part |-> part, marks |-> [s \in Sessions |-> <<>>], touches |-> {},
             stale |-> {}, undone |-> None]

LogNext ==
  \/ \E a \in Actors : WriteSave(a) \/ WriteDelete(a) \/ WriteCreate(a)
  \/ \E s \in Sessions : Refuse(s) \/ BeginTurn(s)
  \/ \E s \in Sessions, n \in 1 .. MaxTurns : RollbackInTx(s, n)
=============================================================================
