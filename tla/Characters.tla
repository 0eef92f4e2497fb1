----------------------------- MODULE Characters -----------------------------
(***************************************************************************)
(* Characters and the directed relations between them: the tools of        *)
(* src/internal/mcp_tools/character_tools.go and delete_tools.go, the      *)
(* store of src/internal/character and the interface's calls in            *)
(* src/app/character_view.go.                                              *)
(*                                                                         *)
(* A relation is never edited: the row that holds is retired and another   *)
(* takes its place.                                                        *)
(***************************************************************************)
EXTENDS OperationLog

Statuses == {"alive", "dead"}  \* alive stands for missing too
Texts    == {"old", "new"}  \* a name, a description or any other free text

Character         == [status : Statuses, text : Texts]
CharacterRelation == [source : 1 .. MaxRows, target : 1 .. MaxRows,
                      is_current : BOOLEAN, text : Texts]

RelationIds   == Ids(db, "character_relations")
Relation(k)   == db.rows["character_relations"][k]
RelationsOf(i) == {k \in RelationIds : i \in {Relation(k).source, Relation(k).target}}

\* The relations of one direction that hold.
CurrentOf(d, source, target) ==
  {k \in Ids(d, "character_relations") :
     LET r == d.rows["character_relations"][k]
     IN  r.is_current /\ r.source = source /\ r.target = target}

\* create_character: one transaction for up to ten; nothing is read.
create_character(s) ==
  \E rows \in SeqOf([status : Statuses, text : {"old"}], 2) \ {<<>>} :
    /\ Len(db.rows["characters"]) + Len(rows) <= MaxRows
    /\ AtOnce(s, CreateAll(db, s, "characters", rows))

\* Mutant: the guard asks what the new status is, not what it was.
AnyoneMayLive(old, new) == new.status = "dead" => old.status = "alive"

\* A dead character stays dead.
DeathIsFinal(old, new) == old.status = "dead" => new.status = "dead"

update_character(s, i) == Edit(s, "characters", i, Character, DeathIsFinal)

\* update_character_relationship with the id of a relation, current or not.
editRelation(s, k) ==
  /\ k \in RelationIds
  /\ \E text \in Texts :
       Will(s, "edit_relation", "character_relations", k, Relation(k),
            [Relation(k) EXCEPT !.text = text, !.is_current = TRUE])

\* The relation is retired without a record and the new one inserted.
WriteEdit(s) ==
  /\ About(s, "edit_relation") /\ Room("character_relations") /\ Tick /\ Done(s)
  /\ LET retired == Updates(db, "character_relations", {op[s].id},
                            LAMBDA r : [r EXCEPT !.is_current = FALSE])
     IN  Commits(s, Create(retired, s, "character_relations", op[s].new))

\* update_character_relationship with two characters, which must exist.
evolveRelation(s, source, target) ==
  /\ source # target
  /\ {source, target} \subseteq Ids(db, "characters")
  /\ Will(s, "evolve_relation", "character_relations", 0, None,
          [source |-> source, target |-> target, is_current |-> TRUE, text |-> "new"])

\* Mutant: what held before is not retired.
KeepOldRelations(s) ==
  /\ About(s, "evolve_relation") /\ Room("character_relations") /\ Tick /\ Done(s)
  /\ Commits(s, Create(db, s, "character_relations", op[s].new))

\* Relations are retired one after the other, each with a record.
Retired(s, ids) ==
  LET t         == "character_relations"
      order     == SetToSeq(ids)
      Logged(n) == [by |-> Credit(db, s, t, order[n]), kind |-> "update", table |-> t,
                    id |-> order[n], old |-> Relation(order[n])]
  IN  [Updates(db, t, ids, LAMBDA r : [r EXCEPT !.is_current = FALSE])
         EXCEPT !.log = @ \o [n \in DOMAIN order |-> Logged(n)]]

\* Every relation that holds in this direction is retired, the new one inserted.
WriteEvolve(s) ==
  /\ About(s, "evolve_relation") /\ Room("character_relations") /\ Tick /\ Done(s)
  /\ LET new == op[s].new
     IN  Commits(s, Create(Retired(s, CurrentOf(db, new.source, new.target)), s,
                           "character_relations", new))

\* delete_record refuses a character that has relations, retired ones included.
deleteCharacter(s, i) == delete_record(s, "characters", i, RelationsOf(i))
deleteCharacterRelation(s, k) == delete_record(s, "character_relations", k, {})

\* The interface.
CreateCharacter ==
  /\ Room("characters")
  /\ \E status \in Statuses :
       AtOnce(User, Create(db, User, "characters", [status |-> status, text |-> "old"]))

UpdateCharacter(i) == PatchAndSave("characters", i, Character)

DeleteCharacter(i) ==
  /\ Has(db, "characters", i)
  /\ AtOnce(User, DeleteWhere(DeleteWhere(db, "character_relations", RelationsOf(i)),
                              "characters", {i}))

CharactersNext ==
  \/ \E s \in Sessions : create_character(s) \/ WriteEdit(s) \/ WriteEvolve(s)
  \/ \E s \in Sessions, i \in 1 .. MaxRows :
       \/ update_character(s, i) \/ deleteCharacter(s, i)
       \/ editRelation(s, i) \/ deleteCharacterRelation(s, i)
  \/ \E s \in Sessions, i, j \in 1 .. MaxRows : evolveRelation(s, i, j)
  \/ CreateCharacter
  \/ \E i \in 1 .. MaxRows : UpdateCharacter(i) \/ DeleteCharacter(i)
=============================================================================
