-------------------------------- MODULE Items --------------------------------
(***************************************************************************)
(* Items, whose status can be final, and the records of where they went:   *)
(* item_tools.go, item_occurrence_tools.go and delete_tools.go of          *)
(* src/internal/mcp_tools, the stores of src/internal/item and             *)
(* src/internal/itemoccurrence and src/app/item_view.go.                   *)
(*                                                                         *)
(* update_item is not one transaction: the item is written, and when its   *)
(* owner changed two occurrences are, each in a statement of its own that  *)
(* a cancellation of the turn may prevent.                                 *)
(***************************************************************************)
EXTENDS OperationLog

NoOwner == 0
Owners  == 0 .. 2
Finals  == {"destroyed"}  \* destroyed stands for consumed too

Item           == [status : {"active"} \cup Finals, owner : Owners]
ItemOccurrence == [item : 1 .. MaxRows, action : {"acquired", "lost"}]

ItemIds       == Ids(db, "items")
Occurrence(i, action) == [item |-> i, action |-> action]

\* create_item of a tool and CreateItem of the interface; items begin active.
CreateItem(a) ==
  /\ Room("items")
  /\ \E owner \in Owners :
       AtOnce(a, Create(db, a, "items", [status |-> "active", owner |-> owner]))

\* An item is read and all its columns are written.
EditItem(a, i, May(_, _)) ==
  /\ i \in ItemIds
  /\ \E new \in Item \ {db.rows["items"][i]} :
       /\ new.owner = NoOwner => db.rows["items"][i].owner = NoOwner
       /\ May(db.rows["items"][i], new)
       /\ Will(a, "write_item", "items", i, db.rows["items"][i], new)

\* A final status is not changed into another that is not.
FinalIsFinal(old, new) == old.status \in Finals => new.status \in Finals

update_item(s, i) == EditItem(s, i, FinalIsFinal)
UpdateItem(i)     == EditItem(User, i, LAMBDA old, new : TRUE)

\* The tool records the change of an owner the item had; none is recorded for an
\* item that had no owner.
OwnerChanged(a) ==
  a # User /\ op[a].seen.owner # NoOwner /\ op[a].new.owner # op[a].seen.owner

WriteItem(a) ==
  /\ About(a, "write_item") /\ Tick
  /\ Commits(a, Updates(db, "items", {op[a].id}, LAMBDA r : op[a].new))
  /\ op' = [op EXCEPT ![a] = IF OwnerChanged(a) THEN [@ EXCEPT !.do = "record_lost"]
                                                ELSE None]

\* The two occurrences of a change of owner.
RecordOccurrence(s, action, Next(_)) ==
  /\ Room("item_occurrences")
  /\ Commits(s, Create(db, s, "item_occurrences", Occurrence(op[s].id, action)))
  /\ UNCHANGED steps
  /\ op' = [op EXCEPT ![s] = Next(@)]

RecordLost(s) ==
  About(s, "record_lost")
    /\ RecordOccurrence(s, "lost", LAMBDA o : [o EXCEPT !.do = "record_acquired"])

RecordAcquired(s) ==
  About(s, "record_acquired") /\ RecordOccurrence(s, "acquired", LAMBDA o : None)

\* The turn is cancelled before the next statement.
CancelRecords(s) ==
  /\ About(s, "record_lost") \/ About(s, "record_acquired")
  /\ Done(s) /\ UNCHANGED <<db, turn, steps, hist>>

\* create_item_occurrence asks nothing of the item.
create_item_occurrence(s) ==
  /\ Room("item_occurrences")
  /\ \E o \in ItemOccurrence :
       /\ o.item <= Len(db.rows["items"])
       /\ AtOnce(s, Create(db, s, "item_occurrences", o))

\* delete_record asks the user and looks for nothing that refers to the item;
\* delete_item does not ask, and leaves no record.
deleteItem(s, i)           == delete_record(s, "items", i, {})
deleteItemOccurrence(s, k) == delete_record(s, "item_occurrences", k, {})

DeleteItem(a, i) == i \in ItemIds /\ AtOnce(a, DeleteWhere(db, "items", {i}))

ItemsNext ==
  \/ \E a \in Actors : CreateItem(a) \/ WriteItem(a)
  \/ \E a \in Actors, i \in 1 .. MaxRows : DeleteItem(a, i)
  \/ \E s \in Sessions :
       RecordLost(s) \/ RecordAcquired(s) \/ CancelRecords(s) \/ create_item_occurrence(s)
  \/ \E s \in Sessions, i \in 1 .. MaxRows :
       update_item(s, i) \/ deleteItem(s, i) \/ deleteItemOccurrence(s, i)
  \/ \E i \in 1 .. MaxRows : UpdateItem(i)
=============================================================================
