---------------------------- MODULE Story_proofs ----------------------------
(***************************************************************************)
(* What the story's run shows of a few rows, proved for any number of      *)
(* sessions, rows, turns and operations: rows keep their ends, what is     *)
(* final stays so, and of the relations of one direction one holds, unless *)
(* an actor writes what it decided on before another changed a row; and a  *)
(* rollback puts every row back that only the undone turns have touched.   *)
(***************************************************************************)
EXTENDS Story, FiniteSetTheorems, SequenceTheorems, WellFoundedInduction, TLAPS

-----------------------------------------------------------------------------
(* The invariant.                                                          *)

EndTables == DOMAIN EndRows

Shape(d) == d = [rows |-> d.rows, log |-> d.log] /\ d.rows = [t \in Tables |-> d.rows[t]]

RowsTyped(d) == Shape(d) /\ \A t \in EndTables : d.rows[t] \in Seq(EndRows[t] \cup {None})

\* What an actor has read and will write: a row that is written whole is one of its
\* table, and each way to write goes with its tables.
OpTyped(o) ==
  /\ o = [do |-> o.do, table |-> o.table, id |-> o.id, seen |-> o.seen, new |-> o.new]
  /\ o.table \in EndTables =>
       /\ o.do \in {"save", "create", "link", "edit_relation", "evolve_relation", "write_item"}
            => o.new \in EndRows[o.table]
  /\ o.do = "save" => o.table \notin {"items", "character_relations"} /\ o.new # None
  /\ o.do = "create" => o.table \in {"locations", "arc_nodes", "volumes"}
  /\ o.do \in {"edit_relation", "evolve_relation"} => o.table = "character_relations"
  /\ o.do = "link" => o.table = "location_relations"
  /\ o.do = "write_item" => o.table = "items"
  /\ o.do = "write_columns" => o.table \notin EndTables

\* What was so when an actor decided, and is so until another changes a row.
DecidedSave(a, o) ==
  /\ Has(db, o.table, o.id) /\ db.rows[o.table][o.id] = o.seen
  /\ o.table = "locations" /\ a \in Sessions =>
       o.new.parent = o.seen.parent \/ Known(o.new.parent)
  /\ o.table = "arc_nodes" => o.new.arc = o.seen.arc
  /\ o.table = "location_relations" => o.new.a = o.seen.a /\ o.new.b = o.seen.b
  /\ o.table = "characters" /\ a \in Sessions => DeathIsFinal(o.seen, o.new)

DecidedCreate(o) ==
  /\ o.table = "locations" => Known(o.new.parent)
  /\ o.table = "arc_nodes" => o.new.arc \in ArcIds

DecidedDelete(o) ==
  /\ o.table = "characters" => RelationsOf(o.id) = {}
  /\ o.table = "locations" => Children(o.id) = {} /\ LinksOf(o.id) = {}
  /\ o.table = "story_arcs" => NodesOf(o.id) = {}

Decided(a, o) ==
  /\ o.do = "save" /\ o.table \in EndTables => DecidedSave(a, o)
  /\ o.do = "create" => DecidedCreate(o)
  /\ o.do = "delete" => DecidedDelete(o)
  /\ o.do = "link" => {o.new.a, o.new.b} \subseteq LocationIds
  /\ o.do = "edit_relation" =>
       /\ o.id \in RelationIds
       /\ o.new.source = Relation(o.id).source /\ o.new.target = Relation(o.id).target
  /\ o.do = "evolve_relation" => {o.new.source, o.new.target} \subseteq Ids(db, "characters")
  /\ o.do = "write_item" /\ a \in Sessions => FinalIsFinal(db.rows["items"][o.id], o.new)

Histories ==
  hist = [part |-> hist.part, marks |-> hist.marks, touches |-> hist.touches,
          stale |-> hist.stale, undone |-> hist.undone]

StoryInv ==
  /\ Histories
  /\ op = [a \in Actors |-> op[a]]
  /\ hist.undone = None =>
       /\ RowsTyped(db)
       /\ \A a \in Actors : op[a] # None =>
            OpTyped(op[a]) /\ (a \notin hist.stale => Decided(a, op[a]))

-----------------------------------------------------------------------------
(* Steps that decide.                                                      *)

LEMMA Tabled ==
  /\ EndTables = {"characters", "character_relations", "locations", "location_relations",
                  "story_arcs", "arc_nodes", "items", "timeline_entries"}
  /\ EndTables \subseteq Tables
BY StoryAssumption DEF EndTables, EndRows

\* What was so when an actor decided is so while no row changes.
LEMMA DecidedStill ==
  ASSUME UNCHANGED db, NEW a, NEW o, Decided(a, o)
  PROVE  Decided(a, o)'
<1>1. DecidedSave(a, o)' <=> DecidedSave(a, o)
  BY DEF DecidedSave, Has, Ids, Known, LocationIds
<1>2. DecidedCreate(o)' <=> DecidedCreate(o)
  BY DEF DecidedCreate, Ids, Known, LocationIds, ArcIds
<1>3. DecidedDelete(o)' <=> DecidedDelete(o)
  BY DEF DecidedDelete, Ids, RelationsOf, RelationIds, Relation, Children, LocationIds, Parent,
         LinksOf, LinkIds, Link, NodesOf, NodeIds, Node
<1>4. LocationIds' = LocationIds /\ RelationIds' = RelationIds
      /\ \A k : Relation(k)' = Relation(k)
  BY DEF LocationIds, RelationIds, Relation, Ids
<1> QED
  BY <1>1, <1>2, <1>3, <1>4 DEF Decided, Ids

\* An actor decides: what others have decided on stays as it was.
LEMMA WillStep ==
  ASSUME StoryInv, NEW a \in Actors, NEW do, NEW t, NEW i, NEW seen, NEW new,
         Will(a, do, t, i, seen, new),
         OpTyped([do |-> do, table |-> t, id |-> i, seen |-> seen, new |-> new]),
         Decided(a, [do |-> do, table |-> t, id |-> i, seen |-> seen, new |-> new])
  PROVE  StoryInv' /\ UNCHANGED db
<1> DEFINE o == [do |-> do, table |-> t, id |-> i, seen |-> seen, new |-> new]
<1>1. /\ hist.undone = None /\ op' = [op EXCEPT ![a] = o]
      /\ hist' = [hist EXCEPT !.stale = @ \ {a}] /\ UNCHANGED db
  BY DEF Will, Spare
<1>2. OpTyped(o) /\ Decided(a, o)
  OBVIOUS
<1> HIDE DEF o
<1>3. Histories' /\ hist'.undone = None /\ hist'.stale = hist.stale \ {a}
  BY <1>1 DEF StoryInv, Histories
<1>4. /\ op' = [b \in Actors |-> op'[b]] /\ op'[a] = o
      /\ \A b \in Actors \ {a} : op'[b] = op[b]
  BY <1>1 DEF StoryInv
<1>5. RowsTyped(db')
  BY <1>1 DEF StoryInv
<1>6. ASSUME NEW b, NEW p, Decided(b, p) PROVE Decided(b, p)'
  BY <1>1, <1>6, DecidedStill
<1>7. ASSUME NEW b \in Actors, op'[b] # None
      PROVE  (OpTyped(op[b]) /\ (b \notin hist.stale => Decided(b, op[b])))'
  <2>1. PICK p : p = op'[b]
    OBVIOUS
  <2>2. OpTyped(p) /\ (b \notin hist'.stale => Decided(b, p)')
    <3>1. CASE b = a
      BY <1>2, <1>4, <1>6, <2>1, <3>1
    <3>2. CASE b # a
      <4>1. p = op[b] /\ (b \notin hist'.stale => b \notin hist.stale)
        BY <1>3, <1>4, <2>1, <3>2
      <4>2. OpTyped(p) /\ (b \notin hist.stale => Decided(b, p))
        BY <1>1, <1>7, <2>1, <4>1 DEF StoryInv
      <4> QED
        BY <1>6, <4>1, <4>2
    <3> QED
      BY <3>1, <3>2
  <2> QED
    BY <2>1, <2>2
<1> QED
  BY <1>1, <1>3, <1>4, <1>5, <1>7 DEF StoryInv

-----------------------------------------------------------------------------
(* What a statement does to the tables.                                    *)

\* Table t is all that differs.
SameBut(e, d, t) == Shape(e) /\ \A u \in Tables \ {t} : e.rows[u] = d.rows[u]

Others(d, t) == SameBut(d, db, t)

LEMMA CreateEffect ==
  ASSUME NEW d, Shape(d), NEW t, NEW a, NEW r
  PROVE  /\ SameBut(Create(d, a, t, r), d, t)
         /\ t \in Tables => Create(d, a, t, r).rows[t] = Append(d.rows[t], r)
<1> DEFINE i  == Len(d.rows[t]) + 1
           e  == [d EXCEPT !.rows[t] = Append(@, r)]
           by == Credit(e, a, t, i)
<1>1. Create(d, a, t, r) =
        [e EXCEPT !.log = Append(@, [by |-> by, kind |-> "create", table |-> t,
                                     id |-> i, old |-> None])]
  BY DEF Create, buildRecord
<1> HIDE DEF by, i
<1> QED
  BY <1>1 DEF Shape, SameBut

LEMMA CreateAllEffect ==
  ASSUME NEW d, Shape(d), NEW t, NEW a, NEW rows
  PROVE  /\ SameBut(CreateAll(d, a, t, rows), d, t)
         /\ t \in Tables => CreateAll(d, a, t, rows).rows[t] = d.rows[t] \o rows
<1>1. PICK records : CreateAll(d, a, t, rows) =
        [d EXCEPT !.rows[t] = @ \o rows, !.log = @ \o records]
  BY DEF CreateAll
<1> QED
  BY <1>1 DEF Shape, SameBut

\* Row i of table t is r.
Stores(e, d, t, i, r) ==
  \/ e.rows[t] = [d.rows[t] EXCEPT ![i] = r]
  \/ d.rows[t][i] = r /\ e.rows[t] = d.rows[t]

LEMMA SaveEffect ==
  ASSUME NEW d, Shape(d), NEW t, NEW a, NEW i, NEW r
  PROVE  /\ SameBut(Save(d, a, t, i, r), d, t)
         /\ t \in Tables => Stores(Save(d, a, t, i, r), d, t, i, r)
<1> DEFINE e == Put(d, t, i, r)
<1>1. PICK records : \/ Save(d, a, t, i, r) = [e EXCEPT !.log = records]
                     \/ Has(d, t, i) /\ d.rows[t][i] = r /\ Save(d, a, t, i, r) = d
  BY DEF Save, buildRecord
<1> QED
  BY <1>1 DEF Shape, SameBut, Put, Stores

\* Row i of table t goes, or was not there.
Blanks(e, d, t, i) ==
  \/ e.rows[t] = [d.rows[t] EXCEPT ![i] = None]
  \/ e.rows[t] = d.rows[t]

LEMMA DeleteEffect ==
  ASSUME NEW d, Shape(d), NEW t, NEW a, NEW i
  PROVE  /\ SameBut(Delete(d, a, t, i), d, t)
         /\ t \in Tables => Blanks(Delete(d, a, t, i), d, t, i)
<1> DEFINE e == Put(d, t, i, None)
<1>1. PICK records : \/ Delete(d, a, t, i) = [e EXCEPT !.log = records]
                     \/ ~Has(d, t, i) /\ Delete(d, a, t, i) = d
  BY DEF Delete, buildRecord
<1> QED
  BY <1>1 DEF Shape, SameBut, Put, Blanks

\* Rows of table t go.
Thins(e, d, t, ids) ==
  e.rows[t] = [k \in DOMAIN d.rows[t] |-> IF k \in ids /\ d.rows[t][k] # None
                                         THEN None ELSE d.rows[t][k]]

LEMMA DeleteWhereEffect ==
  ASSUME NEW d, Shape(d), NEW t, NEW ids
  PROVE  /\ SameBut(DeleteWhere(d, t, ids), d, t)
         /\ t \in Tables => Thins(DeleteWhere(d, t, ids), d, t, ids)
<1>1. DeleteWhere(d, t, ids) =
        [d EXCEPT !.rows[t] = [i \in DOMAIN @ |-> IF i \in ids /\ @[i] # None
                                                 THEN None ELSE @[i]]]
  BY DEF DeleteWhere, Updates
<1> DEFINE kept == [i \in DOMAIN d.rows[t] |-> IF i \in ids /\ d.rows[t][i] # None
                                               THEN None ELSE d.rows[t][i]]
<1>2. DeleteWhere(d, t, ids) = [d EXCEPT !.rows[t] = kept]
  BY <1>1
<1> HIDE DEF kept
<1>3. /\ SameBut(DeleteWhere(d, t, ids), d, t)
      /\ t \in Tables => DeleteWhere(d, t, ids).rows[t] = kept
  BY <1>2 DEF Shape, SameBut
<1> QED
  BY <1>3 DEF kept, Thins

-----------------------------------------------------------------------------
(* What keeps ends, what is final, and the one that holds.                 *)

KeepsEnds(d) == Dangling(d) \subseteq Dangling(db)

KeepsFinals(d) ==
  \A t \in {"characters", "items"} : \A i \in Ids(db, t) \cap Ids(d, t) :
    Final(t, db.rows[t][i]) => Final(t, d.rows[t][i])

KeepsOne(d) ==
  \A i, j \in 1 .. MaxRows :
    Cardinality(CurrentOf(d, i, j)) > 1 => Cardinality(CurrentOf(db, i, j)) > 1

Sound(d) == KeepsEnds(d) /\ KeepsFinals(d) /\ KeepsOne(d)

LEMMA Together ==
  ASSUME NEW d, KeepsEnds(d), KeepsFinals(d), KeepsOne(d)
  PROVE  Sound(d)
BY DEF Sound

\* Row k of table t of d points at nothing.
Loose(d, t, k) ==
  LET r == d.rows[t][k]
  IN  \/ t = "character_relations" /\ ~({r.source, r.target} \subseteq Ids(d, "characters"))
      \/ t = "location_relations" /\ ~({r.a, r.b} \subseteq Ids(d, "locations"))
      \/ t = "locations" /\ r.parent \notin {NoParent} \cup Ids(d, "locations")
      \/ t = "arc_nodes" /\ r.arc \notin Ids(d, "story_arcs")

LEMMA LooseDangles ==
  ASSUME NEW d
  PROVE  \A t, k : <<t, k>> \in Dangling(d) <=> k \in Ids(d, t) /\ Loose(d, t, k)
BY DEF Dangling, Loose

LEMMA EndsKept ==
  ASSUME NEW d,
         \A t \in EndTables : \A k \in Ids(d, t) :
           Loose(d, t, k) => k \in Ids(db, t) /\ Loose(db, t, k)
  PROVE  KeepsEnds(d)
<1> SUFFICES ASSUME NEW x \in Dangling(d) PROVE x \in Dangling(db)
  BY DEF KeepsEnds
<1>1. PICK t, k : x = <<t, k>>
  BY DEF Dangling
<1>2. k \in Ids(d, t) /\ Loose(d, t, k)
  BY <1>1, LooseDangles
<1>3. t \in EndTables
  BY <1>2, Tabled DEF Loose
<1> QED
  BY <1>1, <1>2, <1>3, LooseDangles

\* Ids are among the places of a table.
LEMMA FewIds ==
  ASSUME NEW d, RowsTyped(d), NEW t \in EndTables
  PROVE  /\ IsFiniteSet(Ids(d, t)) /\ Ids(d, t) \subseteq 1 .. Len(d.rows[t])
         /\ \A i \in Ids(d, t) : d.rows[t][i] \in EndRows[t]
<1>1. d.rows[t] \in Seq(EndRows[t] \cup {None})
  BY DEF RowsTyped
<1>2. /\ Ids(d, t) \subseteq 1 .. Len(d.rows[t])
      /\ \A i \in Ids(d, t) : d.rows[t][i] \in EndRows[t]
  BY <1>1 DEF Ids
<1>3. IsFiniteSet(1 .. Len(d.rows[t]))
  BY <1>1, FS_Interval
<1> QED
  BY <1>2, <1>3, FS_Subset

\* A relation that holds in d held before.
LEMMA OneKept ==
  ASSUME RowsTyped(db), NEW d,
         \A i, j : CurrentOf(d, i, j) \subseteq CurrentOf(db, i, j)
  PROVE  KeepsOne(d)
<1> SUFFICES ASSUME NEW i, NEW j,
                    Cardinality(CurrentOf(d, i, j)) > 1
             PROVE  Cardinality(CurrentOf(db, i, j)) > 1
  BY DEF KeepsOne
<1>1. CurrentOf(db, i, j) \subseteq Ids(db, "character_relations")
  BY DEF CurrentOf
<1>2. IsFiniteSet(CurrentOf(db, i, j))
  BY <1>1, FewIds, FS_Subset, Tabled
<1>3. /\ CurrentOf(d, i, j) \subseteq CurrentOf(db, i, j) /\ IsFiniteSet(CurrentOf(d, i, j))
      /\ Cardinality(CurrentOf(d, i, j)) <= Cardinality(CurrentOf(db, i, j))
  BY <1>2, FS_Subset
<1> QED
  BY <1>2, <1>3, FS_CardinalityType

LEMMA OneKeptAlone ==
  ASSUME RowsTyped(db), NEW d, d.rows["character_relations"] = db.rows["character_relations"]
  PROVE  KeepsOne(d)
<1>1. \A i, j : CurrentOf(d, i, j) = CurrentOf(db, i, j)
  BY DEF CurrentOf, Ids
<1> QED
  BY <1>1, OneKept

\* Another table of the novel is written.
LEMMA Elsewhere ==
  ASSUME RowsTyped(db), NEW t, t \notin EndTables, NEW d, Others(d, t)
  PROVE  RowsTyped(d) /\ Sound(d)
<1>1. Shape(d) /\ \A u \in EndTables : d.rows[u] = db.rows[u] /\ Ids(d, u) = Ids(db, u)
  BY Tabled DEF Others, SameBut, Ids
<1>2. RowsTyped(d)
  BY <1>1 DEF RowsTyped
<1>3. KeepsEnds(d)
  BY <1>1, EndsKept, Tabled DEF Loose
<1>4. KeepsFinals(d)
  BY <1>1, Tabled DEF KeepsFinals
<1>5. KeepsOne(d)
  BY <1>1, OneKeptAlone, Tabled
<1> QED
  BY <1>2, <1>3, <1>4, <1>5, Together

\* A row whose ends are there.
Placed(t, r) ==
  /\ t = "locations" => Known(r.parent)
  /\ t = "arc_nodes" => r.arc \in ArcIds
  /\ t = "location_relations" => {r.a, r.b} \subseteq LocationIds

\* Rows are added to one table.
LEMMA Added ==
  ASSUME RowsTyped(db), NEW t \in EndTables, t # "character_relations",
         NEW d, Others(d, t), NEW rows \in Seq(EndRows[t]),
         d.rows[t] = db.rows[t] \o rows
  PROVE  /\ RowsTyped(d) /\ KeepsFinals(d) /\ KeepsOne(d)
         /\ (\A n \in DOMAIN rows : Placed(t, rows[n])) => KeepsEnds(d)
<1> DEFINE m == Len(db.rows[t])
<1>0. db.rows[t] \in Seq(EndRows[t] \cup {None}) /\ t \in Tables
  BY Tabled DEF RowsTyped
<1>1. Shape(d) /\ \A u \in EndTables \ {t} : d.rows[u] = db.rows[u] /\ Ids(d, u) = Ids(db, u)
  BY Tabled DEF Others, SameBut, Ids
<1>2. d.rows[t] \in Seq(EndRows[t] \cup {None})
  <2>1. rows \in Seq(EndRows[t] \cup {None})
    OBVIOUS
  <2> QED
    BY <1>0, <2>1
<1>3. RowsTyped(d)
  BY <1>1, <1>2 DEF RowsTyped
<1>4. \A k \in Ids(db, t) : k \in Ids(d, t) /\ d.rows[t][k] = db.rows[t][k]
  BY <1>0 DEF Ids
<1>5. ASSUME \A n \in DOMAIN rows : Placed(t, rows[n])
      PROVE  \A k \in Ids(d, t) : \/ k \in Ids(db, t) /\ d.rows[t][k] = db.rows[t][k]
                                  \/ Placed(t, d.rows[t][k])
  <2> SUFFICES ASSUME NEW k \in Ids(d, t), k \notin Ids(db, t)
               PROVE  Placed(t, d.rows[t][k])
    BY <1>4
  <2>1. k \in m + 1 .. m + Len(rows) /\ d.rows[t][k] = rows[k - m]
    BY <1>0 DEF Ids
  <2>2. k - m \in DOMAIN rows
    BY <1>0, <2>1
  <2> QED
    BY <1>5, <2>1, <2>2
<1>6. \A u \in EndTables : Ids(db, u) \subseteq Ids(d, u)
  BY <1>1, <1>4
<1>7. ASSUME \A n \in DOMAIN rows : Placed(t, rows[n])
      PROVE  KeepsEnds(d)
  <2> SUFFICES ASSUME NEW u \in EndTables, NEW k \in Ids(d, u), Loose(d, u, k)
               PROVE  k \in Ids(db, u) /\ Loose(db, u, k)
    BY EndsKept
  <2>1. CASE k \in Ids(db, u) /\ d.rows[u][k] = db.rows[u][k]
    BY <1>6, <2>1, Tabled DEF Loose
  <2>2. CASE u = t /\ Placed(t, d.rows[t][k])
    BY <1>6, <2>2, Tabled DEF Loose, Placed, Known, LocationIds, ArcIds
  <2> QED
    BY <1>1, <1>5, <1>7, <2>1, <2>2
<1>8. KeepsFinals(d)
  BY <1>1, <1>4, Tabled DEF KeepsFinals
<1>9. KeepsOne(d)
  BY <1>1, OneKeptAlone, Tabled
<1> QED
  BY <1>3, <1>7, <1>8, <1>9

LEMMA ExceptTyped ==
  ASSUME NEW T, NEW s \in Seq(T), NEW i, NEW r \in T
  PROVE  [s EXCEPT ![i] = r] \in Seq(T)
<1>1. CASE i \in 1 .. Len(s)
  BY <1>1, ExceptSeq
<1>2. CASE i \notin 1 .. Len(s)
  <2>1. [s EXCEPT ![i] = r] = s
    BY <1>2
  <2> QED
    BY <2>1
<1> QED
  BY <1>1, <1>2

LEMMA MapTyped ==
  ASSUME NEW T, NEW s \in Seq(T), NEW f, f = [k \in DOMAIN s |-> f[k]],
         \A k \in DOMAIN s : f[k] \in T
  PROVE  f \in Seq(T) /\ Len(f) = Len(s) /\ DOMAIN f = DOMAIN s
OBVIOUS

LEMMA MapThenAppend ==
  ASSUME NEW T, NEW s \in Seq(T), NEW q, q = [k \in DOMAIN s |-> q[k]],
         \A k \in DOMAIN s : q[k] \in T, NEW r \in T
  PROVE  /\ Append(q, r) \in Seq(T)
         /\ Len(s) + 1 \notin DOMAIN s /\ DOMAIN Append(q, r) = DOMAIN s \cup {Len(s) + 1}
         /\ Append(q, r)[Len(s) + 1] = r
         /\ \A k \in DOMAIN s : Append(q, r)[k] = q[k]
<1>1. q \in Seq(T) /\ Len(q) = Len(s) /\ DOMAIN q = DOMAIN s
  BY MapTyped
<1>2. \A k \in DOMAIN q : Append(q, r)[k] = q[k]
  BY <1>1
<1>3. Append(q, r) \in Seq(T) /\ Append(q, r)[Len(q) + 1] = r
  BY <1>1
<1>4. DOMAIN Append(q, r) = DOMAIN q \cup {Len(q) + 1} /\ Len(q) + 1 \notin DOMAIN q
  BY <1>1
<1> QED
  BY <1>1, <1>2, <1>3, <1>4

\* The ends of a row are as they were, or there.
EndsAgree(t, old, new) ==
  /\ t = "locations" => new.parent = old.parent \/ Known(new.parent)
  /\ t = "arc_nodes" => new.arc = old.arc
  /\ t = "location_relations" => new.a = old.a /\ new.b = old.b

\* A row of one table is replaced.
LEMMA Replaced ==
  ASSUME RowsTyped(db), NEW t \in EndTables, t # "character_relations",
         NEW d, Others(d, t), NEW i, NEW r \in EndRows[t],
         d.rows[t] = [db.rows[t] EXCEPT ![i] = r]
  PROVE  /\ RowsTyped(d) /\ KeepsOne(d)
         /\ i \in Ids(db, t) /\ EndsAgree(t, db.rows[t][i], r) => KeepsEnds(d)
         /\ i \in Ids(db, t) /\ (Final(t, db.rows[t][i]) => Final(t, r)) => KeepsFinals(d)
<1>0. db.rows[t] \in Seq(EndRows[t] \cup {None}) /\ t \in Tables /\ r # None
  BY Tabled, StoryAssumption DEF RowsTyped, EndTables
<1>1. Shape(d) /\ \A u \in EndTables \ {t} : d.rows[u] = db.rows[u] /\ Ids(d, u) = Ids(db, u)
  BY Tabled DEF Others, SameBut, Ids
<1>2. d.rows[t] \in Seq(EndRows[t] \cup {None})
  <2> DEFINE T == EndRows[t] \cup {None}
  <2>1. db.rows[t] \in Seq(T) /\ r \in T
    BY <1>0
  <2> HIDE DEF T
  <2>2. d.rows[t] \in Seq(T)
    BY <2>1, ExceptTyped
  <2> QED
    BY <2>2 DEF T
<1>3. RowsTyped(d)
  BY <1>1, <1>2 DEF RowsTyped
<1>4. KeepsOne(d)
  BY <1>1, OneKeptAlone, Tabled
<1>5. ASSUME i \in Ids(db, t)
      PROVE  /\ Ids(d, t) = Ids(db, t)
             /\ \A k \in Ids(d, t) : d.rows[t][k] = IF k = i THEN r ELSE db.rows[t][k]
  BY <1>0, <1>5 DEF Ids
<1>6. ASSUME i \in Ids(db, t), EndsAgree(t, db.rows[t][i], r)
      PROVE  KeepsEnds(d)
  <2>1. \A u \in EndTables : Ids(d, u) = Ids(db, u)
    BY <1>1, <1>5, <1>6
  <2> SUFFICES ASSUME NEW u \in EndTables, NEW k \in Ids(d, u), Loose(d, u, k)
               PROVE  k \in Ids(db, u) /\ Loose(db, u, k)
    BY EndsKept
  <2>2. CASE d.rows[u][k] = db.rows[u][k]
    BY <2>1, <2>2, Tabled DEF Loose
  <2>3. CASE u = t /\ k = i /\ d.rows[u][k] = r
    BY <1>6, <2>1, <2>3, Tabled DEF Loose, EndsAgree, Known, LocationIds
  <2> QED
    BY <1>1, <1>5, <1>6, <2>2, <2>3
<1>7. ASSUME i \in Ids(db, t), Final(t, db.rows[t][i]) => Final(t, r)
      PROVE  KeepsFinals(d)
  BY <1>1, <1>5, <1>7, Tabled DEF KeepsFinals
<1> QED
  BY <1>3, <1>4, <1>6, <1>7

\* Rows go, and locations lose their parents.
LEMMA Shrunk ==
  ASSUME RowsTyped(db), NEW d, RowsTyped(d),
         \A t \in EndTables : \A k \in Ids(d, t) :
           /\ k \in Ids(db, t)
           /\ \/ d.rows[t][k] = db.rows[t][k]
              \/ t = "locations" /\ d.rows[t][k] = [db.rows[t][k] EXCEPT !.parent = NoParent],
         \A t \in EndTables : \A k \in Ids(d, t) : Loose(d, t, k) => Loose(db, t, k)
  PROVE  Sound(d)
<1>1. KeepsEnds(d)
  BY EndsKept
<1>2. KeepsFinals(d)
  BY Tabled DEF KeepsFinals
<1>3. \A i, j : CurrentOf(d, i, j) \subseteq CurrentOf(db, i, j)
  BY Tabled DEF CurrentOf
<1> QED
  BY <1>1, <1>2, <1>3, OneKept, Together

LEMMA AddedOne ==
  ASSUME RowsTyped(db), NEW t \in EndTables, t # "character_relations",
         NEW d, Others(d, t), NEW r \in EndRows[t],
         d.rows[t] = Append(db.rows[t], r)
  PROVE  /\ RowsTyped(d) /\ KeepsFinals(d) /\ KeepsOne(d)
         /\ Placed(t, r) => KeepsEnds(d)
<1>1. <<r>> \in Seq(EndRows[t]) /\ DOMAIN <<r>> = {1} /\ <<r>>[1] = r
  <2> DEFINE T == EndRows[t]
  <2>1. r \in T
    OBVIOUS
  <2> HIDE DEF T
  <2>2. <<r>> \in Seq(T) /\ DOMAIN <<r>> = {1} /\ <<r>>[1] = r
    BY <2>1
  <2> QED
    BY <2>2 DEF T
<1>2. d.rows[t] = db.rows[t] \o <<r>>
  <2>1. db.rows[t] \in Seq(EndRows[t] \cup {None})
    BY DEF RowsTyped
  <2> QED
    BY <2>1
<1> QED
  BY <1>1, <1>2, Added

\* Nothing refers to row i of table t.
Unreferred(t, i) ==
  /\ t = "characters" => RelationsOf(i) = {}
  /\ t = "locations" => Children(i) = {} /\ LinksOf(i) = {}
  /\ t = "story_arcs" => NodesOf(i) = {}

\* A row of one table goes.
LEMMA Gone ==
  ASSUME RowsTyped(db), NEW t \in EndTables, NEW i, NEW d, Others(d, t),
         d.rows[t] = [db.rows[t] EXCEPT ![i] = None]
  PROVE  /\ RowsTyped(d) /\ (Unreferred(t, i) => Sound(d))
<1>0. db.rows[t] \in Seq(EndRows[t] \cup {None}) /\ t \in Tables
  BY Tabled DEF RowsTyped
<1>1. Shape(d) /\ \A u \in EndTables \ {t} : d.rows[u] = db.rows[u] /\ Ids(d, u) = Ids(db, u)
  BY Tabled DEF Others, SameBut, Ids
<1>2. d.rows[t] \in Seq(EndRows[t] \cup {None})
  <2> DEFINE T == EndRows[t] \cup {None}
  <2>1. db.rows[t] \in Seq(T) /\ None \in T
    BY <1>0
  <2> HIDE DEF T
  <2>2. \A s : s \in Seq(T) => [s EXCEPT ![i] = None] \in Seq(T)
    BY <2>1, ExceptTyped, Zenon
  <2>3. d.rows[t] \in Seq(T)
    BY <2>1, <2>2
  <2> QED
    BY <2>3 DEF T
<1>3. RowsTyped(d)
  BY <1>1, <1>2 DEF RowsTyped
<1>4. /\ Ids(d, t) = Ids(db, t) \ {i}
      /\ \A k \in Ids(d, t) : d.rows[t][k] = db.rows[t][k]
  BY <1>0 DEF Ids
<1>5. \A u \in EndTables : \A k \in Ids(d, u) :
        k \in Ids(db, u) /\ d.rows[u][k] = db.rows[u][k]
  BY <1>1, <1>4
<1>6. ASSUME Unreferred(t, i), NEW u \in EndTables, NEW k \in Ids(d, u), Loose(d, u, k)
      PROVE  Loose(db, u, k)
  <2>1. k \in Ids(db, u) /\ d.rows[u][k] = db.rows[u][k]
    BY <1>5
  <2>2. CASE t \notin {"characters", "locations", "story_arcs"}
    BY <1>1, <1>6, <2>1, <2>2, Tabled DEF Loose
  <2>3. CASE t = "characters"
    BY <1>1, <1>4, <1>6, <2>1, <2>3, Tabled
       DEF Loose, Unreferred, RelationsOf, RelationIds, Relation
  <2>4. CASE t = "locations"
    BY <1>1, <1>4, <1>6, <2>1, <2>4, Tabled
       DEF Loose, Unreferred, Children, LinksOf, LinkIds, Link, LocationIds, Parent
  <2>5. CASE t = "story_arcs"
    BY <1>1, <1>4, <1>6, <2>1, <2>5, Tabled
       DEF Loose, Unreferred, NodesOf, NodeIds, Node
  <2> QED
    BY <2>2, <2>3, <2>4, <2>5
<1> QED
  BY <1>3, <1>5, <1>6, Shrunk

-----------------------------------------------------------------------------
(* The steps that write.                                                   *)

EndsStep ==
  \/ \A e \in Dangling(db') \ Dangling(db) : SetByInterface(e)
  \/ RollsBack
  \/ \E a \in Actors : /\ Writes(a)
                       /\ \/ a \in hist.stale
                          \/ /\ op[a].do = "edit_relation"
                             /\ <<op[a].table, op[a].id>> \in Dangling(db)

FinalsStep ==
  \A t \in {"characters", "items"} : \A i \in Ids(db, t) \cap Ids(db', t) :
    Final(t, db.rows[t][i]) /\ ~Final(t, db'.rows[t][i]) =>
      RollsBack \/ Writes(User) \/ \E s \in Sessions \cap hist.stale : Writes(s)

OneStep ==
  \A i, j \in 1 .. MaxRows :
    Cardinality(CurrentOf(db', i, j)) > 1 =>
      \/ Cardinality(CurrentOf(db, i, j)) > 1
      \/ RollsBack
      \/ \E a \in Actors : /\ Writes(a)
                           /\ a \in hist.stale \/ op[a].do = "edit_relation"

StoryStep == StoryInv' /\ EndsStep /\ FinalsStep /\ OneStep

LEMMA SoundStep ==
  ASSUME Sound(db')
  PROVE  EndsStep /\ FinalsStep /\ OneStep
BY DEF Sound, KeepsEnds, KeepsFinals, KeepsOne, EndsStep, FinalsStep, OneStep

LEMMA Still ==
  ASSUME UNCHANGED db
  PROVE  EndsStep /\ FinalsStep /\ OneStep
BY DEF EndsStep, FinalsStep, OneStep

LEMMA Decides ==
  ASSUME StoryInv, NEW a \in Actors, NEW do, NEW t, NEW i, NEW seen, NEW new,
         Will(a, do, t, i, seen, new),
         OpTyped([do |-> do, table |-> t, id |-> i, seen |-> seen, new |-> new]),
         Decided(a, [do |-> do, table |-> t, id |-> i, seen |-> seen, new |-> new])
  PROVE  StoryStep
BY WillStep, Still DEF StoryStep

\* Actor a makes the database d; its operation is p from then on.
LEMMA CommitInv ==
  ASSUME StoryInv, hist.undone = None, NEW a \in Actors, NEW d, Commits(a, d), RowsTyped(d),
         NEW p, op' = [op EXCEPT ![a] = p],
         p # None => OpTyped(p) /\ p.do \in {"record_lost", "record_acquired"}
  PROVE  StoryInv'
<1>1. /\ db' = d
      /\ hist' = [hist EXCEPT !.touches = @ \cup Touches(a, d),
                              !.stale = (@ \ {a}) \cup (Pending \ {a})]
  BY DEF Commits
<1>2. Histories' /\ hist'.undone = None /\ Pending \ {a} \subseteq hist'.stale
  BY <1>1 DEF StoryInv, Histories
<1>3. /\ op' = [b \in Actors |-> op'[b]] /\ op'[a] = p
      /\ \A b \in Actors \ {a} : op'[b] = op[b]
  BY DEF StoryInv
<1>4. ASSUME NEW b \in Actors, op'[b] # None
      PROVE  (OpTyped(op[b]) /\ (b \notin hist.stale => Decided(b, op[b])))'
  <2>1. PICK q : q = op'[b]
    OBVIOUS
  <2>2. OpTyped(q) /\ (b \notin hist'.stale => Decided(b, q)')
    <3>1. CASE b = a
      BY <1>3, <1>4, <2>1, <3>1
         DEF Decided, DecidedSave, DecidedCreate, DecidedDelete
    <3>2. CASE b # a
      <4>1. q = op[b] /\ b \in hist'.stale
        BY <1>2, <1>3, <1>4, <2>1, <3>2 DEF Pending
      <4> QED
        BY <1>4, <2>1, <4>1 DEF StoryInv
    <3> QED
      BY <3>1, <3>2
  <2> QED
    BY <2>1, <2>2
<1> QED
  BY <1>1, <1>2, <1>3, <1>4 DEF StoryInv

\* What comes to point at nothing in d is a location or a node that is new or changed.
MovesEnds(d) ==
  \A e \in Dangling(d) \ Dangling(db) :
    e[1] \in {"locations", "arc_nodes"} /\ Row(d.rows, e) # Row(db.rows, e)

\* Where no row goes, only the rows of the one table that changes can.
LEMMA PointsAnew ==
  ASSUME RowsTyped(db), NEW d, RowsTyped(d), NEW t \in {"locations", "arc_nodes"},
         Others(d, t), Ids(db, t) \subseteq Ids(d, t)
  PROVE  MovesEnds(d)
<1>1. \A u \in EndTables \ {t} : d.rows[u] = db.rows[u] /\ Ids(d, u) = Ids(db, u)
  BY Tabled DEF Others, SameBut, Ids
<1>2. \A u \in EndTables : Ids(db, u) \subseteq Ids(d, u)
  BY <1>1
<1> SUFFICES ASSUME NEW e \in Dangling(d), e \notin Dangling(db)
             PROVE  e[1] \in {"locations", "arc_nodes"} /\ Row(d.rows, e) # Row(db.rows, e)
  BY DEF MovesEnds
<1>3. PICK u, k : e = <<u, k>>
  BY DEF Dangling
<1>4. k \in Ids(d, u) /\ Loose(d, u, k) /\ e[1] = u /\ e[2] = k
  BY <1>3, LooseDangles
<1>5. u \in EndTables
  BY <1>4, Tabled DEF Loose
<1>6. ~(k \in Ids(db, u) /\ d.rows[u][k] = db.rows[u][k])
  <2> SUFFICES ASSUME k \in Ids(db, u), d.rows[u][k] = db.rows[u][k] PROVE FALSE
    OBVIOUS
  <2>1. Loose(db, u, k)
    BY <1>2, <1>4, Tabled DEF Loose
  <2> QED
    BY <1>3, <2>1, LooseDangles
<1>7. u = t
  BY <1>1, <1>4, <1>5, <1>6
<1>8. Row(d.rows, e) = d.rows[u][k] /\ d.rows[u][k] # None
  BY <1>4 DEF Row, Ids
<1>9. Row(db.rows, e) # d.rows[u][k]
  BY <1>4, <1>6, <1>8 DEF Row, Ids
<1> QED
  BY <1>4, <1>7, <1>8, <1>9

\* The interface may write those.
LEMMA MovesStep ==
  ASSUME StoryInv, MovesEnds(db'), \A s \in Sessions : op'[s] = op[s]
  PROVE  EndsStep
BY DEF MovesEnds, EndsStep, SetByInterface, Writes

LEMMA OnceStep ==
  ASSUME StoryInv, NEW a \in Actors, NEW d, AtOnce(a, d), RowsTyped(d), Sound(d)
  PROVE  StoryStep
<1>1. /\ hist.undone = None /\ op[a] = None /\ UNCHANGED op /\ Commits(a, d) /\ db' = d
  BY DEF AtOnce, Spare, Idle, Commits
<1>2. op' = [op EXCEPT ![a] = None]
  BY <1>1 DEF StoryInv
<1>3. StoryInv'
  BY <1>1, <1>2, CommitInv
<1> QED
  BY <1>1, <1>3, SoundStep DEF StoryStep

LEMMA WriteStep ==
  ASSUME StoryInv, NEW a \in Actors, NEW do, About(a, do), NEW d, Commits(a, d), RowsTyped(d),
         NEW p, op' = [op EXCEPT ![a] = p], p # op[a],
         p # None => OpTyped(p) /\ p.do \in {"record_lost", "record_acquired"},
         a \notin hist.stale =>
           \/ KeepsEnds(d)
           \/ a = User /\ MovesEnds(d)
           \/ do = "edit_relation" /\ <<op[a].table, op[a].id>> \in Dangling(db),
         a \notin hist.stale /\ a \in Sessions => KeepsFinals(d),
         a \notin hist.stale /\ do # "edit_relation" => KeepsOne(d)
  PROVE  StoryStep
<1>1. hist.undone = None /\ op[a] # None /\ op[a].do = do /\ db' = d
  BY DEF About, Commits
<1>2. StoryInv'
  BY <1>1, CommitInv
<1>3. Writes(a)
  BY <1>1 DEF Writes, StoryInv
<1>4. EndsStep
  <2>1. CASE a = User /\ MovesEnds(d)
    <3>1. \A s \in Sessions : op'[s] = op[s]
      BY <2>1, OperationLogAssumption DEF StoryInv, Actors
    <3> QED
      BY <1>1, <2>1, <3>1, MovesStep
  <2>2. CASE ~(a = User /\ MovesEnds(d))
    BY <1>1, <1>3, <2>2 DEF EndsStep, KeepsEnds
  <2> QED
    BY <2>1, <2>2
<1>5. FinalsStep
  BY <1>1, <1>3 DEF FinalsStep, KeepsFinals, Actors
<1>6. OneStep
  BY <1>1, <1>3 DEF OneStep, KeepsOne
<1> QED
  BY <1>2, <1>4, <1>5, <1>6 DEF StoryStep

\* What an actor is about to write.
LEMMA AboutOp ==
  ASSUME StoryInv, NEW a \in Actors, NEW do, About(a, do)
  PROVE  /\ op[a] # None /\ op[a].do = do /\ RowsTyped(db)
         /\ OpTyped(op[a]) /\ (a \notin hist.stale => Decided(a, op[a]))
BY DEF About, StoryInv

\* An operation is given up.
LEMMA GivesUp ==
  ASSUME StoryInv, NEW a \in Actors, Done(a), UNCHANGED <<db, hist>>
  PROVE  StoryStep
<1>1. /\ op' = [b \in Actors |-> op'[b]] /\ op'[a] = None
      /\ \A b \in Actors \ {a} : op'[b] = op[b]
  BY DEF Done, StoryInv
<1>2. RowsTyped(db)' <=> RowsTyped(db)
  BY DEF RowsTyped, Shape
<1>3. ASSUME NEW b, NEW q, Decided(b, q) PROVE Decided(b, q)'
  BY <1>3, DecidedStill
<1>4. ASSUME hist.undone = None, NEW b \in Actors, op'[b] # None
      PROVE  (OpTyped(op[b]) /\ (b \notin hist.stale => Decided(b, op[b])))'
  <2>1. PICK q : q = op'[b]
    OBVIOUS
  <2>2. q = op[b] /\ OpTyped(q) /\ (b \notin hist.stale => Decided(b, q))
    BY <1>1, <1>4, <2>1 DEF StoryInv
  <2> QED
    BY <1>3, <2>1, <2>2
<1>5. StoryInv'
  BY <1>1, <1>2, <1>4 DEF StoryInv, Histories
<1> QED
  BY <1>5, Still DEF StoryStep

-----------------------------------------------------------------------------
(* The steps of every table.                                               *)

LEMMA WriteSaveStep ==
  ASSUME StoryInv, NEW a \in Actors, WriteSave(a)
  PROVE  StoryStep
<1>0. PICK t, i, r : t = op[a].table /\ i = op[a].id /\ r = op[a].new
  OBVIOUS
<1> DEFINE d == Save(db, a, t, i, r)
<1>1. /\ About(a, "save") /\ op' = [op EXCEPT ![a] = None] /\ Commits(a, d)
      /\ op[a] # None
  BY <1>0 DEF WriteSave, Done, About
<1>2. /\ RowsTyped(db) /\ OpTyped(op[a]) /\ op[a].do = "save"
      /\ a \notin hist.stale => Decided(a, op[a])
  BY <1>1, AboutOp
<1>3. Shape(db) /\ Others(d, t)
  <2>1. Shape(db)
    BY <1>2 DEF RowsTyped
  <2> QED
    BY <2>1, SaveEffect DEF Others
<1>4. CASE t \notin EndTables
  <2>1. RowsTyped(d) /\ Sound(d)
    BY <1>2, <1>3, <1>4, Elsewhere
  <2> HIDE DEF d
  <2> QED
    BY <1>1, <2>1, WriteStep DEF Sound
<1>5. CASE t \in EndTables
  <2>1. /\ t \in Tables /\ t \notin {"items", "character_relations"} /\ r \in EndRows[t]
        /\ db.rows[t] \in Seq(EndRows[t] \cup {None})
    BY <1>0, <1>2, <1>5, Tabled DEF OpTyped, RowsTyped
  <2>2. d.rows[t] = [db.rows[t] EXCEPT ![i] = r]
    <3>1. Stores(d, db, t, i, r)
      BY <1>3, <2>1, SaveEffect
    <3>2. db.rows[t] = [db.rows[t] EXCEPT ![i] = db.rows[t][i]]
      BY <2>1
    <3> HIDE DEF d
    <3> QED
      BY <3>1, <3>2 DEF Stores
  <2>3. /\ RowsTyped(d) /\ KeepsOne(d)
        /\ i \in Ids(db, t) /\ EndsAgree(t, db.rows[t][i], r) => KeepsEnds(d)
        /\ i \in Ids(db, t) /\ (Final(t, db.rows[t][i]) => Final(t, r)) => KeepsFinals(d)
    <3> HIDE DEF d
    <3> QED
      BY <1>2, <1>3, <1>5, <2>1, <2>2, Replaced
  <2>4. ASSUME a \notin hist.stale
        PROVE  /\ i \in Ids(db, t)
               /\ \/ EndsAgree(t, db.rows[t][i], r)
                  \/ a = User /\ t = "locations"
               /\ a \in Sessions => (Final(t, db.rows[t][i]) => Final(t, r))
    <3>1. DecidedSave(a, op[a])
      BY <1>0, <1>2, <1>5, <2>4 DEF Decided
    <3>2. a \in Sessions \/ a = User
      BY DEF Actors
    <3> QED
      BY <1>0, <2>1, <3>1, <3>2 DEF DecidedSave, EndsAgree, Has, Final, DeathIsFinal
  <2> HIDE DEF d
  <2>5. ASSUME a \notin hist.stale, a = User, t = "locations"
        PROVE  MovesEnds(d)
    <3>1. r # None
      BY <1>5, <2>1, StoryAssumption DEF EndTables
    <3>2. Ids(db, t) \subseteq Ids(d, t)
      BY <2>1, <2>2, <3>1 DEF Ids
    <3> QED
      BY <1>2, <1>3, <2>3, <2>5, <3>2, PointsAnew
  <2> QED
    BY <1>1, <2>3, <2>4, <2>5, WriteStep
<1> QED
  BY <1>4, <1>5

LEMMA WriteDeleteStep ==
  ASSUME StoryInv, NEW a \in Actors, WriteDelete(a)
  PROVE  StoryStep
<1>0. PICK t, i : t = op[a].table /\ i = op[a].id
  OBVIOUS
<1> DEFINE d == Delete(db, a, t, i)
<1>1. /\ About(a, "delete") /\ op' = [op EXCEPT ![a] = None] /\ Commits(a, d)
      /\ op[a] # None
  BY <1>0 DEF WriteDelete, Done, About
<1>2. /\ RowsTyped(db) /\ OpTyped(op[a]) /\ op[a].do = "delete"
      /\ a \notin hist.stale => Decided(a, op[a])
  BY <1>1, AboutOp
<1>3. Shape(db) /\ Others(d, t)
  <2>1. Shape(db)
    BY <1>2 DEF RowsTyped
  <2> QED
    BY <2>1, DeleteEffect DEF Others
<1>4. CASE t \notin EndTables
  <2>1. RowsTyped(d) /\ Sound(d)
    BY <1>2, <1>3, <1>4, Elsewhere
  <2> HIDE DEF d
  <2> QED
    BY <1>1, <2>1, WriteStep DEF Sound
<1>5. CASE t \in EndTables
  <2>1. \/ d.rows[t] = [db.rows[t] EXCEPT ![i] = None]
        \/ d.rows[t] = db.rows[t]
    <3>1. t \in Tables
      BY <1>5, Tabled
    <3>2. Blanks(d, db, t, i)
      BY <1>3, <3>1, DeleteEffect
    <3> QED
      BY <3>2 DEF Blanks
  <2>2. ASSUME d.rows[t] = [db.rows[t] EXCEPT ![i] = None]
        PROVE  RowsTyped(d) /\ (Unreferred(t, i) => Sound(d))
    <3> HIDE DEF d
    <3> QED
      BY <1>2, <1>3, <1>5, <2>2, Gone
  <2>3. ASSUME d.rows[t] = db.rows[t]
        PROVE  RowsTyped(d) /\ Sound(d)
    <3> HIDE DEF d
    <3>1. Shape(d) /\ \A u \in EndTables : d.rows[u] = db.rows[u] /\ Ids(d, u) = Ids(db, u)
      BY <1>3, <2>3, Tabled DEF Others, SameBut, Ids
    <3>2. RowsTyped(d)
      BY <1>2, <3>1 DEF RowsTyped
    <3>3. \A u \in EndTables : \A k : Loose(d, u, k) => Loose(db, u, k)
      BY <3>1, Tabled DEF Loose
    <3> QED
      BY <1>2, <3>1, <3>2, <3>3, Shrunk
  <2>4. a \notin hist.stale => Unreferred(t, i)
    BY <1>0, <1>2 DEF Decided, DecidedDelete, Unreferred
  <2> HIDE DEF d
  <2> QED
    BY <1>1, <2>1, <2>2, <2>3, <2>4, WriteStep DEF Sound
<1> QED
  BY <1>4, <1>5

LEMMA WriteCreateStep ==
  ASSUME StoryInv, NEW a \in Actors, WriteCreate(a)
  PROVE  StoryStep
<1>0. PICK t, r : t = op[a].table /\ r = op[a].new
  OBVIOUS
<1> DEFINE d == Create(db, a, t, r)
<1>1. /\ About(a, "create") /\ op' = [op EXCEPT ![a] = None] /\ Commits(a, d)
      /\ op[a] # None
  BY <1>0 DEF WriteCreate, Done, About
<1>2. /\ RowsTyped(db) /\ OpTyped(op[a]) /\ op[a].do = "create"
      /\ a \notin hist.stale => Decided(a, op[a])
  BY <1>1, AboutOp
<1>3. Shape(db) /\ Others(d, t)
  <2>1. Shape(db)
    BY <1>2 DEF RowsTyped
  <2> QED
    BY <2>1, CreateEffect DEF Others
<1>4. CASE t \notin EndTables
  <2>1. RowsTyped(d) /\ Sound(d)
    BY <1>2, <1>3, <1>4, Elsewhere
  <2> HIDE DEF d
  <2> QED
    BY <1>1, <2>1, WriteStep DEF Sound
<1>5. CASE t \in EndTables
  <2>1. t \in {"locations", "arc_nodes"} /\ r \in EndRows[t]
    BY <1>0, <1>2, <1>5, Tabled DEF OpTyped
  <2>2. d.rows[t] = Append(db.rows[t], r)
    BY <1>3, <1>5, CreateEffect, Tabled
  <2>3. /\ RowsTyped(d) /\ KeepsFinals(d) /\ KeepsOne(d)
        /\ Placed(t, r) => KeepsEnds(d)
    <3> HIDE DEF d
    <3> QED
      BY <1>2, <1>3, <1>5, <2>1, <2>2, AddedOne
  <2>4. a \notin hist.stale => Placed(t, r)
    BY <1>0, <1>2, <2>1 DEF Decided, DecidedCreate, Placed
  <2> HIDE DEF d
  <2> QED
    BY <1>1, <2>3, <2>4, WriteStep
<1> QED
  BY <1>4, <1>5

\* A turn begins, or nothing happens.
LEMMA Unwritten ==
  ASSUME StoryInv, UNCHANGED <<db, op>>, Histories',
         hist'.stale = hist.stale, hist'.undone = hist.undone
  PROVE  StoryStep
<1>1. RowsTyped(db)' <=> RowsTyped(db)
  BY DEF RowsTyped, Shape
<1>2. ASSUME NEW b, NEW q, Decided(b, q) PROVE Decided(b, q)'
  BY <1>2, DecidedStill
<1>3. ASSUME hist.undone = None, NEW b \in Actors, op'[b] # None
      PROVE  (OpTyped(op[b]) /\ (b \notin hist.stale => Decided(b, op[b])))'
  <2>1. PICK q : q = op'[b]
    OBVIOUS
  <2>2. q = op[b] /\ OpTyped(q) /\ (b \notin hist.stale => Decided(b, q))
    BY <1>3, <2>1 DEF StoryInv
  <2> QED
    BY <1>2, <2>1, <2>2
<1>4. StoryInv'
  BY <1>1, <1>3 DEF StoryInv
<1> QED
  BY <1>4, Still DEF StoryStep

LEMMA RollbackStep ==
  ASSUME StoryInv, NEW s \in Sessions, NEW n \in 1 .. MaxTurns, RollbackInTx(s, n)
  PROVE  StoryStep
<1>1. /\ hist.undone = None /\ UNCHANGED op
      /\ hist' = [hist EXCEPT !.undone = [sess |-> s, turn |-> n]]
  BY DEF RollbackInTx
<1>2. [sess |-> s, turn |-> n] # None
  BY StoryAssumption
<1>3. Histories' /\ hist'.undone # None
  BY <1>1, <1>2 DEF StoryInv, Histories
<1>4. StoryInv'
  BY <1>1, <1>3 DEF StoryInv
<1>5. RollsBack
  BY <1>1, <1>3 DEF RollsBack
<1> QED
  BY <1>4, <1>5 DEF StoryStep, EndsStep, FinalsStep, OneStep

LEMMA LogSteps ==
  ASSUME StoryInv, LogNext
  PROVE  StoryStep
<1>1. ASSUME NEW s \in Sessions, Refuse(s) PROVE StoryStep
  BY <1>1, GivesUp DEF Refuse, Actors
<1>2. ASSUME NEW s \in Sessions, BeginTurn(s) PROVE StoryStep
  <2>1. UNCHANGED <<db, op>> /\ hist' = [hist EXCEPT !.marks[s] = Append(@, db.rows)]
    BY <1>2 DEF BeginTurn
  <2>2. Histories' /\ hist'.stale = hist.stale /\ hist'.undone = hist.undone
    BY <2>1 DEF StoryInv, Histories
  <2> QED
    BY <2>1, <2>2, Unwritten
<1> QED
  BY <1>1, <1>2, WriteSaveStep, WriteDeleteStep, WriteCreateStep, RollbackStep DEF LogNext

\* What most operations come to.

LEMMA SavesStep ==
  ASSUME StoryInv, NEW a \in Actors, NEW t, NEW i, NEW new, Has(db, t, i),
         Will(a, "save", t, i, db.rows[t][i], new), t \notin {"items", "character_relations"},
         t \in EndTables =>
           /\ new \in EndRows[t] /\ EndsAgree(t, db.rows[t][i], new)
           /\ t = "characters" /\ a \in Sessions => DeathIsFinal(db.rows[t][i], new),
         t \notin EndTables => new \in SavedRows
  PROVE  StoryStep
<1> DEFINE o == [do |-> "save", table |-> t, id |-> i, seen |-> db.rows[t][i], new |-> new]
<1>0. new # None
  BY StoryAssumption DEF EndTables
<1>1. OpTyped(o)
  BY <1>0 DEF OpTyped
<1>2. Decided(a, o)
  BY DEF Decided, DecidedSave, EndsAgree
<1> QED
  BY <1>1, <1>2, Decides

LEMMA DeletesStep ==
  ASSUME StoryInv, NEW s \in Sessions, NEW t, NEW i, NEW Referring,
         delete_record(s, t, i, Referring), Referring = {} => Unreferred(t, i)
  PROVE  StoryStep
<1> DEFINE o == [do |-> "delete", table |-> t, id |-> i, seen |-> db.rows[t][i], new |-> None]
<1>1. Will(s, "delete", t, i, db.rows[t][i], None) /\ Unreferred(t, i) /\ s \in Actors
  BY DEF delete_record, Actors
<1>2. OpTyped(o)
  BY DEF OpTyped
<1>3. Decided(s, o)
  BY <1>1 DEF Decided, DecidedDelete, Unreferred
<1> QED
  BY <1>1, <1>2, <1>3, Decides

\* An operation that is not one of those that need anything.
LEMMA DecidesFreely ==
  ASSUME StoryInv, NEW a \in Actors, NEW do, NEW t, NEW i, NEW seen, NEW new,
         Will(a, do, t, i, seen, new), t \notin EndTables,
         do \in {"create_chapter", "insert_outline", "write_columns", "delete_silently"}
  PROVE  StoryStep
<1> DEFINE o == [do |-> do, table |-> t, id |-> i, seen |-> seen, new |-> new]
<1>1. OpTyped(o)
  BY DEF OpTyped
<1>2. Decided(a, o)
  BY DEF Decided
<1> QED
  BY <1>1, <1>2, Decides

LEMMA ActsElsewhere ==
  ASSUME StoryInv, NEW a \in Actors, NEW t, t \notin EndTables, NEW d, SameBut(d, db, t),
         \/ AtOnce(a, d)
         \/ \E do : About(a, do) /\ Commits(a, d) /\ Done(a)
  PROVE  StoryStep
<1>1. hist.undone = None
  BY DEF AtOnce, Spare, About
<1>2. RowsTyped(d) /\ Sound(d)
  BY <1>1, Elsewhere DEF StoryInv, Others
<1>3. ASSUME NEW do, About(a, do), Commits(a, d), Done(a)
      PROVE  StoryStep
  <2>1. op' = [op EXCEPT ![a] = None] /\ op[a] # None
    BY <1>3 DEF Done, About
  <2> QED
    BY <1>2, <1>3, <2>1, WriteStep DEF Sound
<1> QED
  BY <1>2, <1>3, OnceStep

LEMMA CreatesElsewhere ==
  ASSUME StoryInv, NEW a \in Actors, NEW t, t \notin EndTables, NEW r,
         \/ AtOnce(a, Create(db, a, t, r))
         \/ \E do : About(a, do) /\ Commits(a, Create(db, a, t, r)) /\ Done(a)
  PROVE  StoryStep
<1>1. hist.undone = None
  BY DEF AtOnce, Spare, About
<1>2. Shape(db)
  BY <1>1 DEF StoryInv, RowsTyped
<1>3. SameBut(Create(db, a, t, r), db, t)
  BY <1>2, CreateEffect
<1> QED
  BY <1>3, ActsElsewhere

LEMMA DeletesElsewhere ==
  ASSUME StoryInv, NEW a \in Actors, NEW t, t \notin EndTables, NEW ids,
         \/ AtOnce(a, DeleteWhere(db, t, ids))
         \/ \E do : About(a, do) /\ Commits(a, DeleteWhere(db, t, ids)) /\ Done(a)
  PROVE  StoryStep
<1>1. hist.undone = None
  BY DEF AtOnce, Spare, About
<1>2. Shape(db)
  BY <1>1 DEF StoryInv, RowsTyped
<1>3. SameBut(DeleteWhere(db, t, ids), db, t)
  BY <1>2, DeleteWhereEffect
<1> QED
  BY <1>3, ActsElsewhere

\* One row that has its ends is added.
LEMMA CreatesStep ==
  ASSUME StoryInv, NEW a \in Actors, NEW t \in EndTables, t # "character_relations",
         NEW r \in EndRows[t], Placed(t, r), AtOnce(a, Create(db, a, t, r))
  PROVE  StoryStep
<1> DEFINE d == Create(db, a, t, r)
<1>1. RowsTyped(db) /\ Shape(db) /\ t \in Tables
  BY Tabled DEF AtOnce, Spare, StoryInv, RowsTyped
<1>2. Others(d, t) /\ d.rows[t] = Append(db.rows[t], r)
  BY <1>1, CreateEffect DEF Others
<1> HIDE DEF d
<1>3. RowsTyped(d) /\ Sound(d)
  BY <1>1, <1>2, AddedOne, Together
<1> QED
  BY <1>3, OnceStep DEF d

\* The interface adds a location or a node, wherever it points.
LEMMA UserCreates ==
  ASSUME StoryInv, NEW t \in {"locations", "arc_nodes"}, NEW r \in EndRows[t],
         AtOnce(User, Create(db, User, t, r))
  PROVE  StoryStep
<1> DEFINE d == Create(db, User, t, r)
<1>1. /\ RowsTyped(db) /\ Shape(db) /\ t \in Tables /\ t \in EndTables /\ User \in Actors
      /\ hist.undone = None /\ op[User] = None /\ UNCHANGED op
      /\ Commits(User, d) /\ db' = d
  BY Tabled DEF AtOnce, Spare, Idle, Commits, StoryInv, RowsTyped, Actors
<1>2. Others(d, t) /\ d.rows[t] = Append(db.rows[t], r)
  BY <1>1, CreateEffect DEF Others
<1> HIDE DEF d
<1>3. RowsTyped(d) /\ KeepsFinals(d) /\ KeepsOne(d)
  BY <1>1, <1>2, AddedOne
<1>4. Ids(db, t) \subseteq Ids(d, t)
  <2>1. db.rows[t] \in Seq(EndRows[t] \cup {None})
    BY <1>1 DEF RowsTyped
  <2> QED
    BY <1>2, <2>1 DEF Ids
<1>5. MovesEnds(d)
  BY <1>1, <1>2, <1>3, <1>4, PointsAnew
<1>6. op' = [op EXCEPT ![User] = None]
  BY <1>1 DEF StoryInv
<1>7. StoryInv'
  BY <1>1, <1>3, <1>6, CommitInv
<1>8. EndsStep
  BY <1>1, <1>5, MovesStep
<1>9. FinalsStep /\ OneStep
  BY <1>1, <1>3 DEF FinalsStep, OneStep, KeepsFinals, KeepsOne
<1> QED
  BY <1>7, <1>8, <1>9 DEF StoryStep

\* One row that nothing refers to goes.
LEMMA RemovesStep ==
  ASSUME StoryInv, NEW a \in Actors, NEW t \in EndTables, NEW i,
         Has(db, t, i), Unreferred(t, i), AtOnce(a, DeleteWhere(db, t, {i}))
  PROVE  StoryStep
<1> DEFINE d == DeleteWhere(db, t, {i})
<1>1. RowsTyped(db) /\ Shape(db) /\ t \in Tables
  BY Tabled DEF AtOnce, Spare, StoryInv, RowsTyped
<1>2. Others(d, t) /\ Thins(d, db, t, {i})
  BY <1>1, DeleteWhereEffect DEF Others
<1> HIDE DEF d
<1>3. d.rows[t] = [db.rows[t] EXCEPT ![i] = None]
  BY <1>1, <1>2 DEF RowsTyped, Thins
<1>4. RowsTyped(d) /\ Sound(d)
  BY <1>1, <1>2, <1>3, Gone
<1> QED
  BY <1>4, OnceStep DEF d

-----------------------------------------------------------------------------
(* Characters and their relations.                                         *)

\* Relations are retired.
Retires(e, ids) ==
  /\ SameBut(e, db, "character_relations")
  /\ e.rows["character_relations"] =
       [k \in DOMAIN db.rows["character_relations"] |->
          IF k \in ids /\ Relation(k) # None
          THEN [Relation(k) EXCEPT !.is_current = FALSE] ELSE Relation(k)]

LEMMA RetireThenCreate ==
  ASSUME RowsTyped(db), NEW ids, NEW e, Retires(e, ids),
         NEW r \in EndRows["character_relations"],
         NEW d, SameBut(d, e, "character_relations"),
         d.rows["character_relations"] = Append(e.rows["character_relations"], r)
  PROVE  /\ RowsTyped(d) /\ KeepsFinals(d)
         /\ {r.source, r.target} \subseteq Ids(db, "characters") => KeepsEnds(d)
         /\ ids = CurrentOf(db, r.source, r.target) => KeepsOne(d)
<1> DEFINE t   == "character_relations"
           All == [source : Nat, target : Nat, is_current : BOOLEAN, text : Texts]
           T   == All \cup {None}
           Over(x) == [x EXCEPT !.is_current = FALSE]
<1>0. /\ t \in EndTables /\ t \in Tables /\ EndRows[t] = All /\ None \notin All
      /\ db.rows[t] \in Seq(T) /\ r \in All
  BY Tabled, StoryAssumption DEF RowsTyped, EndRows, EndTables
<1>1. Shape(d) /\ \A u \in EndTables \ {t} : d.rows[u] = db.rows[u] /\ Ids(d, u) = Ids(db, u)
  BY Tabled DEF Retires, SameBut, Ids
<1>2. PICK s, q, f : s = db.rows[t] /\ q = e.rows[t] /\ f = d.rows[t]
  OBVIOUS
<1>3. PICK n : n = Len(s) + 1
  OBVIOUS
<1>4. /\ q = [k \in DOMAIN s |-> q[k]] /\ f = Append(q, r)
      /\ \A k \in DOMAIN s : q[k] = IF k \in ids /\ s[k] # None THEN Over(s[k]) ELSE s[k]
  BY <1>2 DEF Retires, Relation
<1>5. /\ f \in Seq(T) /\ n \notin DOMAIN s /\ DOMAIN f = DOMAIN s \cup {n} /\ f[n] = r
      /\ \A k \in DOMAIN s :
           /\ s[k] \in T /\ (f[k] = None <=> s[k] = None)
           /\ f[k] = IF k \in ids /\ s[k] # None THEN Over(s[k]) ELSE s[k]
  <2>1. \A x \in All : Over(x) \in All
    OBVIOUS
  <2> HIDE DEF All, Over
  <2>2. s \in Seq(T) /\ r \in T /\ \A k \in DOMAIN s : s[k] \in T
    BY <1>0, <1>2
  <2>3. \A k \in DOMAIN s : q[k] \in T /\ (q[k] = None <=> s[k] = None)
    BY <1>0, <1>4, <2>1, <2>2
  <2> HIDE DEF T
  <2>4. /\ f \in Seq(T) /\ n \notin DOMAIN s /\ DOMAIN f = DOMAIN s \cup {n} /\ f[n] = r
        /\ \A k \in DOMAIN s : f[k] = q[k]
    BY <1>3, <1>4, <2>2, <2>3, MapThenAppend
  <2> QED
    BY <1>4, <2>2, <2>3, <2>4
<1>6. RowsTyped(d)
  BY <1>0, <1>1, <1>2, <1>5 DEF RowsTyped
<1>7. /\ n \notin Ids(db, t) /\ Ids(d, t) \subseteq Ids(db, t) \cup {n} /\ d.rows[t][n] = r
       /\ \A k \in Ids(db, t) :
            /\ db.rows[t][k] \in All
            /\ d.rows[t][k] = IF k \in ids THEN Over(db.rows[t][k]) ELSE db.rows[t][k]
  <2> HIDE DEF All, Over
  <2> QED
    BY <1>2, <1>5 DEF Ids
<1>8. KeepsFinals(d)
  BY <1>1, Tabled DEF KeepsFinals
<1>9. ASSUME {r.source, r.target} \subseteq Ids(db, "characters")
      PROVE  KeepsEnds(d)
  <2> SUFFICES ASSUME NEW u \in EndTables, NEW k \in Ids(d, u), Loose(d, u, k)
               PROVE  k \in Ids(db, u) /\ Loose(db, u, k)
    BY EndsKept
  <2>1. CASE u # t
    BY <1>1, <2>1, Tabled DEF Loose
  <2>2. CASE u = t /\ k = n
    BY <1>1, <1>7, <1>9, <2>2, Tabled DEF Loose
  <2>3. CASE u = t /\ k \in Ids(db, t)
    BY <1>1, <1>7, <2>3, Tabled DEF Loose
  <2> QED
    BY <1>7, <2>1, <2>2, <2>3
<1>10. ASSUME ids = CurrentOf(db, r.source, r.target)
      PROVE  KeepsOne(d)
  <2> SUFFICES ASSUME NEW i, NEW j, Cardinality(CurrentOf(d, i, j)) > 1
               PROVE  Cardinality(CurrentOf(db, i, j)) > 1
    BY DEF KeepsOne
  <2>1. CASE i = r.source /\ j = r.target
    <3>1. CurrentOf(d, i, j) \subseteq {n}
      BY <1>10, <1>7, <2>1 DEF CurrentOf
    <3>2. IsFiniteSet({n}) /\ Cardinality({n}) = 1
      BY FS_Singleton
    <3>3. Cardinality(CurrentOf(d, i, j)) <= 1 /\ Cardinality(CurrentOf(d, i, j)) \in Nat
      BY <3>1, <3>2, FS_Subset, FS_CardinalityType
    <3> QED
      BY <3>3
  <2>2. CASE ~(i = r.source /\ j = r.target)
    <3>1. CurrentOf(d, i, j) \subseteq CurrentOf(db, i, j)
      BY <1>7, <2>2 DEF CurrentOf
    <3>2. IsFiniteSet(CurrentOf(db, i, j))
      <4>1. CurrentOf(db, i, j) \subseteq Ids(db, t)
        BY DEF CurrentOf
      <4> QED
        BY <1>0, <4>1, FewIds, FS_Subset
    <3>3. Cardinality(CurrentOf(d, i, j)) <= Cardinality(CurrentOf(db, i, j))
      BY <3>1, <3>2, FS_Subset
    <3>4. /\ Cardinality(CurrentOf(db, i, j)) \in Nat
          /\ Cardinality(CurrentOf(d, i, j)) \in Nat
      BY <3>1, <3>2, FS_Subset, FS_CardinalityType
    <3> QED
      BY <3>3, <3>4
  <2> QED
    BY <2>1, <2>2
<1> QED
  BY <1>6, <1>8, <1>9, <1>10

LEMMA RelationEffect ==
  ASSUME RowsTyped(db), NEW ids, NEW a, NEW new, NEW e, Retires(e, ids),
         new \in EndRows["character_relations"]
  PROVE  LET d == Create(e, a, "character_relations", new)
         IN  /\ RowsTyped(d) /\ KeepsFinals(d)
             /\ {new.source, new.target} \subseteq Ids(db, "characters") => KeepsEnds(d)
             /\ ids = CurrentOf(db, new.source, new.target) => KeepsOne(d)
<1> DEFINE d == Create(e, a, "character_relations", new)
<1>1. Shape(e) /\ "character_relations" \in Tables
  BY Tabled DEF Retires, SameBut
<1>2. /\ SameBut(d, e, "character_relations")
      /\ d.rows["character_relations"] = Append(e.rows["character_relations"], new)
  BY <1>1, CreateEffect
<1> HIDE DEF d
<1>3. /\ RowsTyped(d) /\ KeepsFinals(d)
      /\ {new.source, new.target} \subseteq Ids(db, "characters") => KeepsEnds(d)
      /\ ids = CurrentOf(db, new.source, new.target) => KeepsOne(d)
  BY <1>2, RetireThenCreate
<1> QED
  BY <1>3 DEF d

LEMMA WriteEditStep ==
  ASSUME StoryInv, NEW a \in Actors, WriteEdit(a)
  PROVE  StoryStep
<1>0. PICK id, new : id = op[a].id /\ new = op[a].new
  OBVIOUS
<1> DEFINE t == "character_relations"
           e == Updates(db, t, {op[a].id}, LAMBDA r : [r EXCEPT !.is_current = FALSE])
           d == Create(e, a, t, new)
<1>1. /\ About(a, "edit_relation") /\ op' = [op EXCEPT ![a] = None] /\ Commits(a, d)
      /\ op[a] # None
  BY <1>0 DEF WriteEdit, Done, About
<1>2. /\ RowsTyped(db) /\ Shape(db) /\ OpTyped(op[a]) /\ op[a].do = "edit_relation"
      /\ t \in Tables /\ t \in EndTables
      /\ a \notin hist.stale => Decided(a, op[a])
  BY <1>1, AboutOp, Tabled DEF RowsTyped
<1>3. new \in EndRows[t] /\ op[a].table = t
  BY <1>0, <1>2 DEF OpTyped
<1>4. Retires(e, {id})
  <2>1. e = [db EXCEPT !.rows[t] = [k \in DOMAIN @ |-> IF k \in {id} /\ @[k] # None
                                                      THEN [@[k] EXCEPT !.is_current = FALSE]
                                                      ELSE @[k]]]
    BY <1>0 DEF Updates
  <2> HIDE DEF e
  <2> QED
    BY <1>2, <2>1 DEF Retires, SameBut, Shape, Relation
<1> HIDE DEF e
<1>5. /\ RowsTyped(d) /\ KeepsFinals(d)
      /\ {new.source, new.target} \subseteq Ids(db, "characters") => KeepsEnds(d)
  BY <1>2, <1>3, <1>4, RelationEffect
<1>6. ASSUME a \notin hist.stale, <<t, id>> \notin Dangling(db)
      PROVE  {new.source, new.target} \subseteq Ids(db, "characters")
  <2>1. /\ id \in Ids(db, t)
        /\ new.source = Relation(id).source /\ new.target = Relation(id).target
    BY <1>0, <1>2, <1>6 DEF Decided, RelationIds
  <2>2. ~Loose(db, t, id)
    BY <1>6, <2>1, LooseDangles
  <2> QED
    BY <2>1, <2>2 DEF Loose, Relation
<1> HIDE DEF d
<1> QED
  BY <1>0, <1>1, <1>2, <1>3, <1>5, <1>6, WriteStep

LEMMA WriteEvolveStep ==
  ASSUME StoryInv, NEW a \in Actors, WriteEvolve(a)
  PROVE  StoryStep
<1>0. PICK new, ids : new = op[a].new /\ ids = CurrentOf(db, new.source, new.target)
  OBVIOUS
<1> DEFINE t == "character_relations"
           e == Retired(a, ids)
           d == Create(e, a, t, new)
<1>1. /\ About(a, "evolve_relation") /\ op' = [op EXCEPT ![a] = None] /\ Commits(a, d)
      /\ op[a] # None
  BY <1>0 DEF WriteEvolve, Done, About
<1>2. /\ RowsTyped(db) /\ Shape(db) /\ OpTyped(op[a]) /\ op[a].do = "evolve_relation"
      /\ t \in Tables /\ t \in EndTables
      /\ a \notin hist.stale => Decided(a, op[a])
  BY <1>1, AboutOp, Tabled DEF RowsTyped
<1>3. new \in EndRows[t]
  BY <1>0, <1>2 DEF OpTyped
<1>4. Retires(e, ids)
  <2>1. PICK records : e =
          [Updates(db, t, ids, LAMBDA r : [r EXCEPT !.is_current = FALSE])
             EXCEPT !.log = @ \o records]
    BY DEF Retired
  <2> HIDE DEF e
  <2> QED
    BY <1>2, <2>1 DEF Retires, SameBut, Shape, Updates, Relation
<1> HIDE DEF e
<1>5. /\ RowsTyped(d) /\ KeepsFinals(d) /\ KeepsOne(d)
      /\ {new.source, new.target} \subseteq Ids(db, "characters") => KeepsEnds(d)
  BY <1>0, <1>2, <1>3, <1>4, RelationEffect
<1>6. a \notin hist.stale => {new.source, new.target} \subseteq Ids(db, "characters")
  BY <1>0, <1>2 DEF Decided
<1> HIDE DEF d
<1> QED
  BY <1>1, <1>2, <1>5, <1>6, WriteStep

LEMMA create_characterStep ==
  ASSUME StoryInv, NEW s \in Sessions, create_character(s)
  PROVE  StoryStep
<1> DEFINE t == "characters"
<1>1. PICK rows \in SeqOf([status : Statuses, text : {"old"}], 2) :
        AtOnce(s, CreateAll(db, s, t, rows))
  BY DEF create_character
<1> DEFINE d == CreateAll(db, s, t, rows)
<1>2. rows \in Seq(Character)
  <2>1. PICK m \in 0 .. 2 : rows \in [1 .. m -> [status : Statuses, text : {"old"}]]
    BY DEF SeqOf
  <2>2. [status : Statuses, text : {"old"}] \subseteq Character
    BY DEF Character, Texts
  <2>3. rows \in [1 .. m -> Character]
    BY <2>1, <2>2
  <2> HIDE DEF t
  <2> QED
    BY <2>1, <2>3
<1>3. /\ RowsTyped(db) /\ Shape(db) /\ t \in Tables /\ t \in EndTables
      /\ EndRows[t] = Character
  BY <1>1, Tabled DEF AtOnce, Spare, StoryInv, RowsTyped, EndRows
<1>4. Others(d, t) /\ d.rows[t] = db.rows[t] \o rows
  BY <1>3, CreateAllEffect DEF Others
<1> HIDE DEF d
<1>5. RowsTyped(d) /\ KeepsFinals(d) /\ KeepsOne(d) /\ KeepsEnds(d)
  BY <1>2, <1>3, <1>4, Added DEF Placed
<1> QED
  BY <1>1, <1>5, OnceStep, Together DEF d, Actors

\* Rows of a table go.
LEMMA Thinned ==
  ASSUME NEW t \in EndTables, NEW e, e.rows[t] \in Seq(EndRows[t] \cup {None}),
         NEW ids, NEW d, Thins(d, e, t, ids)
  PROVE  /\ d.rows[t] \in Seq(EndRows[t] \cup {None})
         /\ Ids(d, t) = Ids(e, t) \ ids
         /\ \A k \in Ids(d, t) : d.rows[t][k] = e.rows[t][k]
<1>1. PICK T, s, f : T = EndRows[t] \cup {None} /\ s = e.rows[t] /\ f = d.rows[t]
  OBVIOUS
<1>2. /\ s \in Seq(T) /\ None \in T
      /\ f = [k \in DOMAIN s |-> IF k \in ids /\ s[k] # None THEN None ELSE s[k]]
  BY <1>1 DEF Thins
<1>3. f = [k \in DOMAIN s |-> f[k]] /\ \A k \in DOMAIN s : f[k] \in T
  BY <1>2
<1>4. f \in Seq(T) /\ DOMAIN f = DOMAIN s
  BY <1>2, <1>3, MapTyped
<1>5. d.rows[t] \in Seq(EndRows[t] \cup {None})
  BY <1>1, <1>4
<1> QED
  BY <1>1, <1>2, <1>4, <1>5 DEF Ids

\* A row goes with all that refer to it.
LEMMA CascadeStep ==
  ASSUME StoryInv, NEW i, NEW t, NEW u, NEW ids,
         AtOnce(User, DeleteWhere(DeleteWhere(db, u, ids), t, {i})),
         \/ t = "characters" /\ u = "character_relations" /\ ids = RelationsOf(i)
         \/ t = "story_arcs" /\ u = "arc_nodes" /\ ids = NodesOf(i)
  PROVE  StoryStep
<1> DEFINE e == DeleteWhere(db, u, ids)
           d == DeleteWhere(e, t, {i})
<1>1. AtOnce(User, d)
  OBVIOUS
<1>2. RowsTyped(db) /\ Shape(db) /\ {t, u} \subseteq Tables \cap EndTables /\ t # u
  BY <1>1, Tabled DEF AtOnce, Spare, StoryInv, RowsTyped
<1>3. SameBut(e, db, u) /\ Thins(e, db, u, ids)
  BY <1>2, DeleteWhereEffect
<1> HIDE DEF e
<1>4. SameBut(d, e, t) /\ Thins(d, e, t, {i})
  BY <1>2, <1>3, DeleteWhereEffect DEF SameBut
<1> HIDE DEF d
<1>5. /\ Shape(d) /\ \A v \in EndTables \ {t, u} : d.rows[v] = db.rows[v] /\ Ids(d, v) = Ids(db, v)
      /\ d.rows[u] = e.rows[u] /\ Ids(d, u) = Ids(e, u)
      /\ e.rows[t] = db.rows[t] /\ Ids(e, t) = Ids(db, t)
  BY <1>2, <1>3, <1>4, Tabled DEF SameBut, Ids
<1>6. /\ d.rows[u] \in Seq(EndRows[u] \cup {None}) /\ Ids(d, u) = Ids(db, u) \ ids
      /\ \A k \in Ids(d, u) : d.rows[u][k] = db.rows[u][k]
  <2>1. u \in EndTables /\ db.rows[u] \in Seq(EndRows[u] \cup {None})
    BY <1>2 DEF RowsTyped
  <2> QED
    BY <1>3, <1>5, <2>1, Thinned
<1>7. /\ d.rows[t] \in Seq(EndRows[t] \cup {None}) /\ Ids(d, t) = Ids(db, t) \ {i}
      /\ \A k \in Ids(d, t) : d.rows[t][k] = db.rows[t][k]
  <2>1. t \in EndTables /\ e.rows[t] \in Seq(EndRows[t] \cup {None})
    BY <1>2, <1>5 DEF RowsTyped
  <2> QED
    BY <1>4, <1>5, <2>1, Thinned
<1>8. RowsTyped(d)
  BY <1>2, <1>5, <1>6, <1>7 DEF RowsTyped
<1>9. \A v \in EndTables : \A k \in Ids(d, v) :
        k \in Ids(db, v) /\ d.rows[v][k] = db.rows[v][k]
  BY <1>5, <1>6, <1>7
<1>10. ASSUME NEW v \in EndTables, NEW k \in Ids(d, v), Loose(d, v, k)
       PROVE  Loose(db, v, k)
  <2>1. CASE t = "characters" /\ u = "character_relations" /\ ids = RelationsOf(i)
    BY <1>5, <1>6, <1>7, <1>9, <1>10, <2>1, Tabled
       DEF Loose, RelationsOf, RelationIds, Relation
  <2>2. CASE t = "story_arcs" /\ u = "arc_nodes" /\ ids = NodesOf(i)
    BY <1>5, <1>6, <1>7, <1>9, <1>10, <2>2, Tabled DEF Loose, NodesOf, NodeIds, Node
  <2> QED
    BY <2>1, <2>2
<1>11. Sound(d)
  BY <1>2, <1>8, <1>9, <1>10, Shrunk
<1> QED
  BY <1>1, <1>8, <1>11, OnceStep DEF Actors

LEMMA CharactersSteps ==
  ASSUME StoryInv, CharactersNext
  PROVE  StoryStep
<1>0. /\ User \in Actors /\ Sessions \subseteq Actors
      /\ {"characters", "character_relations"} \subseteq EndTables
      /\ EndRows["characters"] = Character
      /\ EndRows["character_relations"] =
           [source : Nat, target : Nat, is_current : BOOLEAN, text : Texts]
  BY Tabled DEF Actors, EndRows
<1>1. ASSUME NEW s \in Sessions, NEW i, update_character(s, i) PROVE StoryStep
  <2>1. PICK new \in Character :
          /\ Has(db, "characters", i) /\ DeathIsFinal(db.rows["characters"][i], new)
          /\ Will(s, "save", "characters", i, db.rows["characters"][i], new)
    BY <1>1 DEF update_character, Edit
  <2> QED
    BY <1>0, <2>1, SavesStep DEF EndsAgree
<1>2. ASSUME NEW i, UpdateCharacter(i) PROVE StoryStep
  <2>1. PICK new \in Character :
          /\ Has(db, "characters", i)
          /\ Will(User, "save", "characters", i, db.rows["characters"][i], new)
    BY <1>2 DEF UpdateCharacter, PatchAndSave, Edit
  <2> QED
    BY <1>0, <2>1, SavesStep, OperationLogAssumption DEF EndsAgree
<1>3. ASSUME NEW s \in Sessions, NEW i, deleteCharacter(s, i) PROVE StoryStep
  BY <1>3, DeletesStep DEF deleteCharacter, Unreferred
<1>4. ASSUME NEW s \in Sessions, NEW i, deleteCharacterRelation(s, i) PROVE StoryStep
  BY <1>4, DeletesStep DEF deleteCharacterRelation, Unreferred
<1>5. ASSUME NEW s \in Sessions, NEW k, editRelation(s, k) PROVE StoryStep
  <2>0. PICK text \in Texts :
          /\ k \in RelationIds
          /\ Will(s, "edit_relation", "character_relations", k, Relation(k),
                  [Relation(k) EXCEPT !.text = text, !.is_current = TRUE])
    BY <1>5 DEF editRelation
  <2>1. PICK old, new :
          /\ old = Relation(k) /\ new = [old EXCEPT !.text = text, !.is_current = TRUE]
          /\ Will(s, "edit_relation", "character_relations", k, Relation(k), new)
    BY <2>0
  <2>2. hist.undone = None
    BY <2>1 DEF Will, Spare
  <2>3. old \in EndRows["character_relations"]
    BY <1>0, <2>0, <2>1, <2>2, FewIds DEF StoryInv, RelationIds, Relation
  <2>4. /\ new \in EndRows["character_relations"]
        /\ new.source = old.source /\ new.target = old.target
    <3>1. old \in [source : Nat, target : Nat, is_current : BOOLEAN, text : Texts]
      BY <1>0, <2>3
    <3>2. new = [old EXCEPT !.text = text, !.is_current = TRUE]
      BY <2>1
    <3>3. /\ new \in [source : Nat, target : Nat, is_current : BOOLEAN, text : Texts]
          /\ new.source = old.source /\ new.target = old.target
      BY <2>0, <3>1, <3>2
    <3> QED
      BY <1>0, <3>3
  <2> DEFINE o == [do |-> "edit_relation", table |-> "character_relations", id |-> k,
                   seen |-> Relation(k), new |-> new]
  <2>5. OpTyped(o)
    BY <2>4 DEF OpTyped
  <2>6. Decided(s, o)
    BY <2>0, <2>1, <2>4 DEF Decided
  <2> QED
    BY <1>0, <2>1, <2>5, <2>6, Decides
<1>6. ASSUME NEW s \in Sessions, NEW i \in 1 .. MaxRows, NEW j \in 1 .. MaxRows,
             evolveRelation(s, i, j)
      PROVE  StoryStep
  <2>1. PICK new :
          /\ new = [source |-> i, target |-> j, is_current |-> TRUE, text |-> "new"]
          /\ {i, j} \subseteq Ids(db, "characters")
          /\ Will(s, "evolve_relation", "character_relations", 0, None, new)
    BY <1>6 DEF evolveRelation
  <2>2. new \in EndRows["character_relations"]
    BY <1>0, <2>1, OperationLogAssumption DEF Texts
  <2> DEFINE o == [do |-> "evolve_relation", table |-> "character_relations", id |-> 0,
                   seen |-> None, new |-> new]
  <2>3. OpTyped(o)
    BY <2>2 DEF OpTyped
  <2>4. Decided(s, o)
    BY <2>1 DEF Decided
  <2> QED
    BY <1>0, <2>1, <2>3, <2>4, Decides
<1>7. ASSUME CreateCharacter PROVE StoryStep
  <2>1. PICK status \in Statuses :
          AtOnce(User, Create(db, User, "characters", [status |-> status, text |-> "old"]))
    BY <1>7 DEF CreateCharacter
  <2>2. [status |-> status, text |-> "old"] \in Character
    BY DEF Character, Texts
  <2> QED
    BY <1>0, <2>1, <2>2, CreatesStep DEF Placed
<1>8. ASSUME NEW i, DeleteCharacter(i) PROVE StoryStep
  BY <1>8, CascadeStep DEF DeleteCharacter
<1> QED
  BY <1>0, <1>1, <1>2, <1>3, <1>4, <1>5, <1>6, <1>7, <1>8, create_characterStep,
     WriteEditStep, WriteEvolveStep DEF CharactersNext

-----------------------------------------------------------------------------
(* Locations and the relations between them.                               *)

LEMMA WriteLinkStep ==
  ASSUME StoryInv, NEW a \in Actors, WriteLink(a)
  PROVE  StoryStep
<1>0. PICK new : new = op[a].new
  OBVIOUS
<1> DEFINE t == "location_relations"
           d == Create(db, a, t, new)
<1>1. CASE UNCHANGED <<db, turn, hist>>
  BY <1>1, GivesUp DEF WriteLink
<1>2. CASE Commits(a, d)
  <2>1. About(a, "link") /\ op' = [op EXCEPT ![a] = None] /\ op[a] # None
    BY DEF WriteLink, Done, About
  <2>2. /\ RowsTyped(db) /\ Shape(db) /\ OpTyped(op[a]) /\ op[a].do = "link"
        /\ t \in Tables /\ t \in EndTables
        /\ a \notin hist.stale => Decided(a, op[a])
    BY <2>1, AboutOp, Tabled DEF RowsTyped
  <2>3. new \in EndRows[t]
    BY <1>0, <2>2 DEF OpTyped
  <2>4. Others(d, t) /\ d.rows[t] = Append(db.rows[t], new)
    BY <2>2, CreateEffect DEF Others
  <2> HIDE DEF d
  <2>5. RowsTyped(d) /\ KeepsFinals(d) /\ KeepsOne(d) /\ (Placed(t, new) => KeepsEnds(d))
    BY <2>2, <2>3, <2>4, AddedOne
  <2>6. a \notin hist.stale => Placed(t, new)
    BY <1>0, <2>2 DEF Decided, Placed
  <2> QED
    BY <1>2, <2>1, <2>5, <2>6, WriteStep
<1> QED
  BY <1>0, <1>1, <1>2 DEF WriteLink

LEMMA DeleteLocationStep ==
  ASSUME StoryInv, NEW i, DeleteLocation(i)
  PROVE  StoryStep
<1> DEFINE t == "locations"
           u == "location_relations"
           b == Updates(db, t, Children(i), LAMBDA r : [r EXCEPT !.parent = NoParent])
           e == DeleteWhere(b, u, LinksOf(i))
           d == DeleteWhere(e, t, {i})
           All == [parent : Nat, text : Texts]
           Root(r) == [r EXCEPT !.parent = NoParent]
<1>1. AtOnce(User, d)
  BY DEF DeleteLocation
<1>2. /\ RowsTyped(db) /\ Shape(db) /\ {t, u} \subseteq Tables \cap EndTables
      /\ EndRows[t] = All
  BY <1>1, Tabled DEF AtOnce, Spare, StoryInv, RowsTyped, EndRows
<1>3. /\ SameBut(b, db, t)
      /\ b.rows[t] = [k \in DOMAIN db.rows[t] |->
                       IF k \in Children(i) /\ db.rows[t][k] # None
                       THEN Root(db.rows[t][k]) ELSE db.rows[t][k]]
  <2> DEFINE moved == [k \in DOMAIN db.rows[t] |->
                       IF k \in Children(i) /\ db.rows[t][k] # None
                       THEN Root(db.rows[t][k]) ELSE db.rows[t][k]]
  <2>1. b = [db EXCEPT !.rows[t] = moved]
    BY DEF Updates
  <2> HIDE DEF b, moved
  <2>2. SameBut(b, db, t) /\ b.rows[t] = moved
    BY <1>2, <2>1 DEF SameBut, Shape
  <2> QED
    BY <2>2 DEF moved
<1>4. /\ b.rows[t] \in Seq(EndRows[t] \cup {None}) /\ Ids(b, t) = Ids(db, t)
      /\ \A k \in Ids(b, t) :
           b.rows[t][k] = IF k \in Children(i) THEN Root(db.rows[t][k]) ELSE db.rows[t][k]
  <2>1. PICK s, f : s = db.rows[t] /\ f = b.rows[t]
    OBVIOUS
  <2>2. \A x \in All : Root(x) \in All
    BY DEF NoParent
  <2>3. None \notin All
    BY <1>2, StoryAssumption DEF EndTables
  <2>4. /\ f = [k \in DOMAIN s |-> f[k]]
        /\ \A k \in DOMAIN s : f[k] = IF k \in Children(i) /\ s[k] # None
                                      THEN Root(s[k]) ELSE s[k]
    BY <1>3, <2>1
  <2> DEFINE T == All \cup {None}
  <2> HIDE DEF All, Root
  <2>5. s \in Seq(T) /\ \A k \in DOMAIN s : s[k] \in T
    <3>1. s \in Seq(EndRows[t] \cup {None})
      BY <1>2, <2>1 DEF RowsTyped
    <3>2. s \in Seq(T)
      BY <1>2, <3>1
    <3> HIDE DEF T
    <3> QED
      BY <3>2
  <2>6. \A k \in DOMAIN s : f[k] \in T /\ (f[k] = None <=> s[k] = None)
    BY <2>2, <2>3, <2>4, <2>5
  <2> HIDE DEF T
  <2>7. f \in Seq(T) /\ DOMAIN f = DOMAIN s
    BY <2>4, <2>5, <2>6, MapTyped
  <2> QED
    BY <1>2, <2>1, <2>4, <2>6, <2>7 DEF Ids, T
<1> HIDE DEF b
<1>5. SameBut(e, b, u) /\ Thins(e, b, u, LinksOf(i))
  BY <1>2, <1>3, DeleteWhereEffect DEF SameBut
<1> HIDE DEF e
<1>6. SameBut(d, e, t) /\ Thins(d, e, t, {i})
  BY <1>2, <1>5, DeleteWhereEffect DEF SameBut
<1> HIDE DEF d
<1>7. /\ Shape(d) /\ \A v \in EndTables \ {t, u} : d.rows[v] = db.rows[v] /\ Ids(d, v) = Ids(db, v)
      /\ d.rows[u] = e.rows[u] /\ Ids(d, u) = Ids(e, u)
      /\ b.rows[u] = db.rows[u] /\ Ids(b, u) = Ids(db, u)
      /\ e.rows[t] = b.rows[t] /\ Ids(e, t) = Ids(b, t)
  BY <1>2, <1>3, <1>5, <1>6, Tabled DEF SameBut, Ids
<1>8. /\ d.rows[u] \in Seq(EndRows[u] \cup {None}) /\ Ids(d, u) = Ids(db, u) \ LinksOf(i)
      /\ \A k \in Ids(d, u) : d.rows[u][k] = db.rows[u][k]
  <2>1. u \in EndTables /\ b.rows[u] \in Seq(EndRows[u] \cup {None})
    BY <1>2, <1>7 DEF RowsTyped
  <2> QED
    BY <1>5, <1>7, <2>1, Thinned
<1>9. /\ d.rows[t] \in Seq(EndRows[t] \cup {None}) /\ Ids(d, t) = Ids(db, t) \ {i}
      /\ \A k \in Ids(d, t) :
           d.rows[t][k] = IF k \in Children(i) THEN Root(db.rows[t][k]) ELSE db.rows[t][k]
  <2>1. t \in EndTables /\ e.rows[t] \in Seq(EndRows[t] \cup {None})
    BY <1>2, <1>4, <1>7
  <2> QED
    BY <1>4, <1>6, <1>7, <2>1, Thinned
<1>10. RowsTyped(d)
  BY <1>2, <1>7, <1>8, <1>9 DEF RowsTyped
<1>11. \A v \in EndTables : \A k \in Ids(d, v) :
        /\ k \in Ids(db, v)
        /\ \/ d.rows[v][k] = db.rows[v][k]
           \/ v = t /\ d.rows[v][k] = Root(db.rows[v][k])
  BY <1>7, <1>8, <1>9
<1>12. ASSUME NEW v \in EndTables, NEW k \in Ids(d, v), Loose(d, v, k)
       PROVE  Loose(db, v, k)
  <2>1. CASE v = t
    <3>1. db.rows[t][k] \in All /\ k \in Ids(db, t)
      BY <1>2, <1>9, <2>1, FewIds
    <3>2. CASE k \in Children(i)
      <4>1. d.rows[t][k].parent = NoParent
        BY <1>9, <2>1, <3>1, <3>2
      <4> QED
        BY <1>12, <2>1, <4>1 DEF Loose
    <3>3. CASE k \notin Children(i)
      BY <1>9, <1>12, <2>1, <3>1, <3>3 DEF Loose, Children, LocationIds, Parent
    <3> QED
      BY <3>2, <3>3
  <2>2. CASE v = u
    BY <1>8, <1>9, <1>12, <2>2 DEF Loose, LinksOf, LinkIds, Link
  <2>3. CASE v \notin {t, u}
    BY <1>7, <1>12, <2>3, Tabled DEF Loose
  <2> QED
    BY <2>1, <2>2, <2>3
<1>13. Sound(d)
  BY <1>2, <1>10, <1>11, <1>12, Shrunk
<1> QED
  BY <1>1, <1>10, <1>13, OnceStep DEF Actors

LEMMA PlacesSteps ==
  ASSUME StoryInv, PlacesNext
  PROVE  StoryStep
<1> DEFINE All  == [parent : Nat, text : Texts]
           Ends == [a : Nat, b : Nat, text : Texts]
<1>0. /\ User \in Actors /\ Sessions \subseteq Actors /\ User \notin Sessions /\ MaxRows \in Nat
      /\ {"locations", "location_relations"} \subseteq EndTables
      /\ EndRows["locations"] = All /\ EndRows["location_relations"] = Ends
      /\ Location \subseteq All /\ LocationRelation \subseteq Ends
  <2>1. MaxRows \in Nat /\ 0 .. MaxRows \subseteq Nat /\ 1 .. MaxRows \subseteq Nat
    BY OperationLogAssumption
  <2>2. Location \subseteq All
    BY <2>1 DEF Location, Texts
  <2>3. LocationRelation \subseteq Ends
    BY <2>1 DEF LocationRelation, Texts
  <2> QED
    BY <2>1, <2>2, <2>3, Tabled, OperationLogAssumption DEF Actors, EndRows
<1>1. hist.undone = None => LocationIds \subseteq Nat
  <2> SUFFICES ASSUME hist.undone = None PROVE LocationIds \subseteq Nat
    OBVIOUS
  <2>1. RowsTyped(db)
    BY DEF StoryInv
  <2>2. LocationIds \subseteq 1 .. Len(db.rows["locations"])
    BY <1>0, <2>1, FewIds DEF LocationIds
  <2> QED
    BY <2>2
<1>2. ASSUME NEW s \in Sessions, create_location(s) PROVE StoryStep
  <2>1. PICK parent \in {NoParent} \cup LocationIds :
          Will(s, "create", "locations", 0, None, [parent |-> parent, text |-> "old"])
    BY <1>2 DEF create_location
  <2>2. PICK new : new = [parent |-> parent, text |-> "old"]
    OBVIOUS
  <2>3. new \in EndRows["locations"] /\ Known(new.parent)
    BY <1>0, <1>1, <2>1, <2>2 DEF Will, Spare, NoParent, Texts, Known
  <2> DEFINE o == [do |-> "create", table |-> "locations", id |-> 0, seen |-> None, new |-> new]
  <2>4. OpTyped(o)
    BY <2>3 DEF OpTyped
  <2>5. Decided(s, o)
    BY <2>3 DEF Decided, DecidedCreate
  <2> QED
    BY <1>0, <2>1, <2>2, <2>4, <2>5, Decides
<1>3. ASSUME NEW a \in Actors, NEW i, NEW new \in Location, Has(db, "locations", i),
             new.parent # db.rows["locations"][i].parent => Known(new.parent),
             Will(a, "save", "locations", i, db.rows["locations"][i], new)
      PROVE  StoryStep
  BY <1>0, <1>3, SavesStep DEF EndsAgree
<1>4. ASSUME NEW s \in Sessions, NEW i, update_location(s, i) PROVE StoryStep
  BY <1>0, <1>3, <1>4 DEF update_location, Edit
<1>5. ASSUME NEW i, UpdateLocation(i) PROVE StoryStep
  <2>1. PICK new \in Location :
          /\ Has(db, "locations", i)
          /\ Will(User, "save", "locations", i, db.rows["locations"][i], new)
    BY <1>5 DEF UpdateLocation, PatchAndSave, Edit
  <2> DEFINE o == [do |-> "save", table |-> "locations", id |-> i,
                   seen |-> db.rows["locations"][i], new |-> new]
  <2>2. new \in EndRows["locations"] /\ new # None
    BY <1>0, StoryAssumption DEF EndTables
  <2>3. OpTyped(o)
    BY <1>0, <2>2 DEF OpTyped
  <2>4. Decided(User, o)
    BY <1>0, <2>1 DEF Decided, DecidedSave
  <2> QED
    BY <1>0, <2>1, <2>3, <2>4, Decides
<1>6. ASSUME NEW s \in Sessions, NEW i \in 1 .. MaxRows, NEW j \in 1 .. MaxRows,
             create_location_relation(s, i, j)
      PROVE  StoryStep
  <2>1. PICK a \in 1 .. MaxRows, b \in 1 .. MaxRows :
          /\ {a, b} \subseteq LocationIds
          /\ Will(s, "link", "location_relations", 0, None, [a |-> a, b |-> b, text |-> "old"])
    <3>1. CASE i < j
      BY <1>6, <3>1 DEF create_location_relation
    <3>2. CASE ~(i < j)
      BY <1>6, <3>2 DEF create_location_relation
    <3> QED
      BY <3>1, <3>2
  <2>2. PICK new : new = [a |-> a, b |-> b, text |-> "old"]
    OBVIOUS
  <2>3. new \in EndRows["location_relations"] /\ {new.a, new.b} \subseteq LocationIds
    BY <1>0, <2>1, <2>2 DEF Texts
  <2> DEFINE o == [do |-> "link", table |-> "location_relations", id |-> 0, seen |-> None,
                   new |-> new]
  <2>4. OpTyped(o)
    BY <2>3 DEF OpTyped
  <2>5. Decided(s, o)
    BY <2>3 DEF Decided
  <2> QED
    BY <1>0, <2>1, <2>2, <2>4, <2>5, Decides
<1>7. ASSUME NEW s \in Sessions, NEW k, update_location_relation(s, k) PROVE StoryStep
  <2>1. PICK new \in LocationRelation :
          /\ Has(db, "location_relations", k)
          /\ new.a = db.rows["location_relations"][k].a
          /\ new.b = db.rows["location_relations"][k].b
          /\ Will(s, "save", "location_relations", k, db.rows["location_relations"][k], new)
    BY <1>7 DEF update_location_relation, Edit
  <2> QED
    BY <1>0, <2>1, SavesStep DEF EndsAgree
<1>8. ASSUME NEW s \in Sessions, NEW i, deleteLocation(s, i) PROVE StoryStep
  BY <1>8, DeletesStep DEF deleteLocation, Unreferred
<1>9. ASSUME NEW s \in Sessions, NEW k, deleteLocationRelation(s, k) PROVE StoryStep
  BY <1>9, DeletesStep DEF deleteLocationRelation, Unreferred
<1>10. ASSUME CreateLocation PROVE StoryStep
  <2>1. PICK parent \in 0 .. MaxRows :
          AtOnce(User, Create(db, User, "locations", [parent |-> parent, text |-> "old"]))
    BY <1>10 DEF CreateLocation
  <2>2. [parent |-> parent, text |-> "old"] \in EndRows["locations"]
    BY <1>0 DEF Texts
  <2> QED
    BY <2>1, <2>2, UserCreates
<1> QED
  BY <1>0, <1>2, <1>4, <1>5, <1>6, <1>7, <1>8, <1>9, <1>10, WriteLinkStep,
     DeleteLocationStep DEF PlacesNext

-----------------------------------------------------------------------------
(* Arcs, their nodes, and volumes.                                         *)

LEMMA ThreadsSteps ==
  ASSUME StoryInv, ThreadsNext
  PROVE  StoryStep
<1> DEFINE All == [arc : Nat, status : {"pending", "completed"}]
<1>0. /\ User \in Actors /\ Sessions \subseteq Actors /\ User \notin Sessions /\ MaxRows \in Nat
      /\ {"story_arcs", "arc_nodes"} \subseteq EndTables /\ "volumes" \notin EndTables
      /\ EndRows["story_arcs"] = StoryArc /\ EndRows["arc_nodes"] = All /\ ArcNode \subseteq All
  <2>1. MaxRows \in Nat /\ 1 .. MaxRows \subseteq Nat
    BY OperationLogAssumption
  <2>2. ArcNode \subseteq All
    BY <2>1 DEF ArcNode
  <2> QED
    BY <2>1, <2>2, Tabled, OperationLogAssumption DEF Actors, EndRows
<1>1. ASSUME NEW a \in Actors, NEW arc \in StoryArc, Creates(a, "story_arcs", arc)
      PROVE  StoryStep
  BY <1>0, <1>1, CreatesStep DEF Creates, Placed
<1>2. ASSUME NEW s \in Sessions, create_story_arc(s) PROVE StoryStep
  BY <1>0, <1>1, <1>2 DEF create_story_arc
<1>3. ASSUME CreateStoryArc PROVE StoryStep
  BY <1>0, <1>1, <1>3 DEF CreateStoryArc
<1>4. ASSUME NEW a \in Actors, NEW i, NEW new \in StoryArc, Has(db, "story_arcs", i),
             Will(a, "save", "story_arcs", i, db.rows["story_arcs"][i], new)
      PROVE  StoryStep
  BY <1>0, <1>4, SavesStep DEF EndsAgree
<1>5. ASSUME NEW s \in Sessions, NEW i, update_story_arc(s, i) PROVE StoryStep
  BY <1>0, <1>4, <1>5 DEF update_story_arc, Edit
<1>6. ASSUME NEW i, UpdateStoryArc(i) PROVE StoryStep
  BY <1>0, <1>4, <1>6 DEF UpdateStoryArc, Edit
<1>7. ASSUME NEW s \in Sessions, NEW i \in 1 .. MaxRows, create_arc_node(s, i) PROVE StoryStep
  <2>1. PICK new : /\ new = [arc |-> i, status |-> "pending"] /\ i \in ArcIds
                   /\ Will(s, "create", "arc_nodes", 0, None, new)
    BY <1>7 DEF create_arc_node
  <2>2. new \in EndRows["arc_nodes"] /\ new.arc \in ArcIds
    BY <1>0, <2>1
  <2> DEFINE o == [do |-> "create", table |-> "arc_nodes", id |-> 0, seen |-> None, new |-> new]
  <2>3. OpTyped(o)
    BY <2>2 DEF OpTyped
  <2>4. Decided(s, o)
    BY <2>2 DEF Decided, DecidedCreate
  <2> QED
    BY <1>0, <2>1, <2>3, <2>4, Decides
<1>8. ASSUME NEW a \in Actors, NEW k, NEW new \in ArcNode, Has(db, "arc_nodes", k),
             new.arc = db.rows["arc_nodes"][k].arc,
             Will(a, "save", "arc_nodes", k, db.rows["arc_nodes"][k], new)
      PROVE  StoryStep
  BY <1>0, <1>8, SavesStep DEF EndsAgree
<1>9. ASSUME NEW s \in Sessions, NEW k, update_arc_node(s, k) PROVE StoryStep
  BY <1>0, <1>8, <1>9 DEF update_arc_node, Edit
<1>10. ASSUME NEW k, UpdateArcNode(k) PROVE StoryStep
  BY <1>0, <1>8, <1>10 DEF UpdateArcNode, Edit
<1>11. ASSUME NEW s \in Sessions, NEW i, deleteStoryArc(s, i) PROVE StoryStep
  BY <1>11, DeletesStep DEF deleteStoryArc, Unreferred
<1>12. ASSUME NEW s \in Sessions, NEW k, deleteArcNode(s, k) PROVE StoryStep
  BY <1>12, DeletesStep DEF deleteArcNode, Unreferred
<1>13. ASSUME NEW i, DeleteStoryArc(i) PROVE StoryStep
  BY <1>13, CascadeStep DEF DeleteStoryArc
<1>14. ASSUME NEW i \in 1 .. MaxRows, CreateArcNode(i) PROVE StoryStep
  <2>1. AtOnce(User, Create(db, User, "arc_nodes", [arc |-> i, status |-> "pending"]))
    BY <1>14 DEF CreateArcNode, Creates
  <2>2. [arc |-> i, status |-> "pending"] \in EndRows["arc_nodes"]
    BY <1>0
  <2> QED
    BY <2>1, <2>2, UserCreates
<1>15. ASSUME NEW k, DeleteArcNode(k) PROVE StoryStep
  BY <1>0, <1>15, RemovesStep DEF DeleteArcNode, NodeIds, Has, Unreferred
<1>16. ASSUME NEW s \in Sessions, create_volume(s) PROVE StoryStep
  <2>1. PICK new : Will(s, "create", "volumes", 0, None, new)
    BY <1>16 DEF create_volume
  <2> DEFINE o == [do |-> "create", table |-> "volumes", id |-> 0, seen |-> None, new |-> new]
  <2>2. OpTyped(o)
    BY <1>0 DEF OpTyped
  <2>3. Decided(s, o)
    BY DEF Decided, DecidedCreate
  <2> QED
    BY <1>0, <2>1, <2>2, <2>3, Decides
<1>17. ASSUME NEW a \in Actors, NEW i, update_volume(a, i) PROVE StoryStep
  <2>1. PICK new \in Volume : /\ Has(db, "volumes", i)
                              /\ Will(a, "save", "volumes", i, db.rows["volumes"][i], new)
    BY <1>17 DEF update_volume, Edit
  <2> QED
    BY <1>0, <2>1, SavesStep DEF SavedRows
<1>18. ASSUME NEW s \in Sessions, NEW i, delete_volume(s, i) PROVE StoryStep
  BY <1>0, <1>18, DecidesFreely DEF delete_volume
<1>19. ASSUME NEW s \in Sessions, WriteDeleteVolume(s) PROVE StoryStep
  BY <1>0, <1>19, DeletesElsewhere DEF WriteDeleteVolume
<1>20. ASSUME SaveVolume PROVE StoryStep
  <2>1. PICK new : AtOnce(User, Create(db, User, "volumes", new))
    BY <1>20 DEF SaveVolume, Creates
  <2> QED
    BY <1>0, <2>1, CreatesElsewhere
<1>21. ASSUME NEW i, DeleteVolume(i) PROVE StoryStep
  BY <1>0, <1>21, DeletesElsewhere DEF DeleteVolume
<1> QED
  BY <1>0, <1>2, <1>3, <1>5, <1>6, <1>7, <1>9, <1>10, <1>11, <1>12, <1>13, <1>14, <1>15,
     <1>16, <1>17, <1>18, <1>19, <1>20, <1>21 DEF ThreadsNext

-----------------------------------------------------------------------------
(* Items.                                                                  *)

LEMMA WriteItemStep ==
  ASSUME StoryInv, NEW a \in Actors, WriteItem(a)
  PROVE  StoryStep
<1>0. PICK id, new : id = op[a].id /\ new = op[a].new
  OBVIOUS
<1> DEFINE t == "items"
           d == Updates(db, t, {op[a].id}, LAMBDA r : op[a].new)
<1>1. About(a, "write_item") /\ Commits(a, d) /\ op[a] # None /\ op[a].do = "write_item"
  BY DEF WriteItem, About
<1>2. /\ RowsTyped(db) /\ Shape(db) /\ OpTyped(op[a]) /\ t \in Tables /\ t \in EndTables
      /\ a \notin hist.stale => Decided(a, op[a])
  BY <1>1, AboutOp, Tabled DEF RowsTyped
<1>3. new \in EndRows[t]
  BY <1>0, <1>1, <1>2 DEF OpTyped
<1>4. PICK p : /\ op' = [op EXCEPT ![a] = p] /\ p # op[a]
               /\ p # None => OpTyped(p) /\ p.do \in {"record_lost", "record_acquired"}
  <2>1. CASE OwnerChanged(a)
    <3>1. PICK o : o = op[a]
      OBVIOUS
    <3>2. PICK p : p = [o EXCEPT !.do = "record_lost"]
      OBVIOUS
    <3>3. p.do = "record_lost" /\ OpTyped(p)
      BY <1>1, <1>2, <3>1, <3>2 DEF OpTyped
    <3>4. op' = [op EXCEPT ![a] = p] /\ p # op[a]
      BY <1>1, <2>1, <3>1, <3>2, <3>3 DEF WriteItem
    <3> QED
      BY <3>3, <3>4
  <2>2. CASE ~OwnerChanged(a)
    BY <1>1, <2>2 DEF WriteItem
  <2> QED
    BY <2>1, <2>2
<1>5. Others(d, t) /\ d.rows[t] = [k \in DOMAIN db.rows[t] |->
                                     IF k \in {id} /\ db.rows[t][k] # None
                                     THEN new ELSE db.rows[t][k]]
  BY <1>0, <1>2 DEF Others, SameBut, Shape, Updates
<1> HIDE DEF d
<1>6. CASE Has(db, t, id)
  <2>1. id \in DOMAIN db.rows[t] /\ db.rows[t][id] # None
    BY <1>6 DEF Has, Ids
  <2>2. db.rows[t] = [k \in DOMAIN db.rows[t] |-> db.rows[t][k]]
    <3>1. db.rows[t] \in Seq(EndRows[t] \cup {None})
      BY <1>2 DEF RowsTyped
    <3>2. \A T : \A s \in Seq(T) : s = [k \in DOMAIN s |-> s[k]]
      OBVIOUS
    <3> QED
      BY <3>1, <3>2
  <2>3. d.rows[t] = [db.rows[t] EXCEPT ![id] = new]
    BY <1>5, <2>1, <2>2
  <2>4. /\ RowsTyped(d) /\ KeepsOne(d) /\ KeepsEnds(d)
        /\ (Final(t, db.rows[t][id]) => Final(t, new)) => KeepsFinals(d)
    BY <1>2, <1>3, <1>5, <1>6, <2>3, Replaced DEF EndsAgree, Has
  <2>5. a \notin hist.stale /\ a \in Sessions => (Final(t, db.rows[t][id]) => Final(t, new))
    BY <1>0, <1>1, <1>2 DEF Decided, FinalIsFinal, Final
  <2> QED
    BY <1>1, <1>4, <2>4, <2>5, WriteStep
<1>7. CASE ~Has(db, t, id)
  <2>1. ~(id \in DOMAIN db.rows[t] /\ db.rows[t][id] # None)
    BY <1>7 DEF Has, Ids
  <2>2. db.rows[t] = [k \in DOMAIN db.rows[t] |-> db.rows[t][k]]
    <3>1. db.rows[t] \in Seq(EndRows[t] \cup {None})
      BY <1>2 DEF RowsTyped
    <3>2. \A T : \A s \in Seq(T) : s = [k \in DOMAIN s |-> s[k]]
      OBVIOUS
    <3> QED
      BY <3>1, <3>2
  <2>3. d.rows[t] = db.rows[t]
    BY <1>5, <2>1, <2>2
  <2>4. Shape(d) /\ \A u \in EndTables : d.rows[u] = db.rows[u] /\ Ids(d, u) = Ids(db, u)
    BY <1>5, <2>3, Tabled DEF Others, SameBut, Ids
  <2>5. RowsTyped(d)
    BY <1>2, <2>4 DEF RowsTyped
  <2>6. \A u \in EndTables : \A k : Loose(d, u, k) => Loose(db, u, k)
    BY <2>4, Tabled DEF Loose
  <2>7. Sound(d)
    BY <1>2, <2>4, <2>5, <2>6, Shrunk
  <2> QED
    BY <1>1, <1>4, <2>5, <2>7, WriteStep DEF Sound
<1> QED
  BY <1>6, <1>7

\* The occurrences of a change of owner.
LEMMA RecordStep ==
  ASSUME StoryInv, NEW a \in Actors, NEW do, About(a, do), NEW row,
         Commits(a, Create(db, a, "item_occurrences", row)),
         NEW p, op' = [op EXCEPT ![a] = p], p # op[a],
         p # None => OpTyped(p) /\ p.do \in {"record_lost", "record_acquired"}
  PROVE  StoryStep
<1> DEFINE d == Create(db, a, "item_occurrences", row)
<1>1. RowsTyped(db) /\ Shape(db)
  BY AboutOp DEF RowsTyped
<1>2. Others(d, "item_occurrences") /\ "item_occurrences" \notin EndTables
  BY <1>1, CreateEffect, Tabled DEF Others
<1> HIDE DEF d
<1>3. RowsTyped(d) /\ Sound(d)
  BY <1>1, <1>2, Elsewhere
<1> QED
  BY <1>3, WriteStep DEF Sound, d

LEMMA ItemsSteps ==
  ASSUME StoryInv, ItemsNext
  PROVE  StoryStep
<1>0. /\ User \in Actors /\ Sessions \subseteq Actors /\ User \notin Sessions
      /\ "items" \in EndTables /\ "item_occurrences" \notin EndTables
      /\ EndRows["items"] = Item
  BY Tabled, OperationLogAssumption DEF Actors, EndRows
<1>1. ASSUME NEW a \in Actors, CreateItem(a) PROVE StoryStep
  <2>1. PICK owner \in Owners :
          AtOnce(a, Create(db, a, "items", [status |-> "active", owner |-> owner]))
    BY <1>1 DEF CreateItem
  <2>2. PICK new : new = [status |-> "active", owner |-> owner]
    OBVIOUS
  <2>3. new \in Item
    BY <2>2 DEF Item
  <2> QED
    BY <1>0, <2>1, <2>2, <2>3, CreatesStep DEF Placed
<1>2. ASSUME NEW a \in Actors, NEW i, DeleteItem(a, i) PROVE StoryStep
  BY <1>0, <1>2, RemovesStep DEF DeleteItem, ItemIds, Has, Unreferred
<1>3. ASSUME NEW s \in Sessions, RecordLost(s) PROVE StoryStep
  <2>1. /\ About(s, "record_lost") /\ op[s] # None /\ op[s].do = "record_lost"
        /\ Commits(s, Create(db, s, "item_occurrences", Occurrence(op[s].id, "lost")))
        /\ op' = [op EXCEPT ![s] = [@ EXCEPT !.do = "record_acquired"]]
    BY <1>3 DEF RecordLost, RecordOccurrence, About
  <2>2. PICK o, p : o = op[s] /\ p = [o EXCEPT !.do = "record_acquired"]
    OBVIOUS
  <2>3. OpTyped(o) /\ o.do = "record_lost"
    BY <1>0, <2>1, <2>2, AboutOp
  <2>4. p.do = "record_acquired" /\ OpTyped(p)
    BY <2>2, <2>3 DEF OpTyped
  <2>5. op' = [op EXCEPT ![s] = p] /\ p # op[s]
    BY <2>1, <2>2, <2>4
  <2> QED
    BY <1>0, <2>1, <2>4, <2>5, RecordStep
<1>4. ASSUME NEW s \in Sessions, RecordAcquired(s) PROVE StoryStep
  <2>1. /\ About(s, "record_acquired") /\ op[s] # None
        /\ Commits(s, Create(db, s, "item_occurrences", Occurrence(op[s].id, "acquired")))
        /\ op' = [op EXCEPT ![s] = None]
    BY <1>4 DEF RecordAcquired, RecordOccurrence, About
  <2> QED
    BY <1>0, <2>1, RecordStep
<1>5. ASSUME NEW s \in Sessions, CancelRecords(s) PROVE StoryStep
  BY <1>0, <1>5, GivesUp DEF CancelRecords
<1>6. ASSUME NEW s \in Sessions, create_item_occurrence(s) PROVE StoryStep
  <2>1. PICK o : AtOnce(s, Create(db, s, "item_occurrences", o))
    BY <1>6 DEF create_item_occurrence
  <2> QED
    BY <1>0, <2>1, CreatesElsewhere
<1>7. ASSUME NEW a \in Actors, NEW i, NEW new \in Item, i \in ItemIds,
             a \in Sessions => FinalIsFinal(db.rows["items"][i], new),
             Will(a, "write_item", "items", i, db.rows["items"][i], new)
      PROVE  StoryStep
  <2> DEFINE o == [do |-> "write_item", table |-> "items", id |-> i,
                   seen |-> db.rows["items"][i], new |-> new]
  <2>1. OpTyped(o)
    BY <1>0 DEF OpTyped
  <2>2. Decided(a, o)
    BY <1>7 DEF Decided
  <2> QED
    BY <1>7, <2>1, <2>2, Decides
<1>8. ASSUME NEW s \in Sessions, NEW i, update_item(s, i) PROVE StoryStep
  BY <1>0, <1>7, <1>8 DEF update_item, EditItem
<1>9. ASSUME NEW i, UpdateItem(i) PROVE StoryStep
  BY <1>0, <1>7, <1>9 DEF UpdateItem, EditItem
<1>10. ASSUME NEW s \in Sessions, NEW i, deleteItem(s, i) PROVE StoryStep
  BY <1>10, DeletesStep DEF deleteItem, Unreferred
<1>11. ASSUME NEW s \in Sessions, NEW k, deleteItemOccurrence(s, k) PROVE StoryStep
  BY <1>11, DeletesStep DEF deleteItemOccurrence, Unreferred
<1> QED
  BY <1>1, <1>2, <1>3, <1>4, <1>5, <1>6, <1>8, <1>9, <1>10, <1>11, WriteItemStep
     DEF ItemsNext

-----------------------------------------------------------------------------
(* The tables whose rows point at none of these.                           *)

LEMMA LedgerSteps ==
  ASSUME StoryInv, LedgerNext
  PROVE  StoryStep
<1>0. /\ User \in Actors /\ Sessions \subseteq Actors
      /\ "timeline_entries" \in EndTables /\ "reader_perspectives" \notin EndTables
      /\ "chapters" \notin EndTables /\ MaxRows \in Nat
      /\ EndRows["timeline_entries"] =
           [status : {"pending", "resolved"}, resolved_chapter_id : Nat]
  BY Tabled, OperationLogAssumption DEF Actors, EndRows
<1>1. ASSUME NEW a \in Actors, create_timeline_entry(a) PROVE StoryStep
  <2>1. PICK r : /\ r = [status |-> "pending", resolved_chapter_id |-> NoChapter]
                 /\ AtOnce(a, Create(db, a, "timeline_entries", r))
    BY <1>1 DEF create_timeline_entry
  <2>2. r \in EndRows["timeline_entries"]
    BY <1>0, <2>1 DEF NoChapter
  <2> QED
    BY <1>0, <2>1, <2>2, CreatesStep DEF Placed
<1>2. ASSUME NEW a \in Actors, WriteChapter(a) PROVE StoryStep
  <2>1. CASE UNCHANGED <<db, turn, hist>>
    BY <1>2, <2>1, GivesUp DEF WriteChapter
  <2>2. CASE Commits(a, Create(db, a, "chapters", op[a].new))
    <3>1. PICK new : new = op[a].new
      OBVIOUS
    <3> QED
      BY <1>0, <1>2, <2>2, <3>1, CreatesElsewhere DEF WriteChapter
  <2> QED
    BY <1>2, <2>1, <2>2 DEF WriteChapter
<1>3. ASSUME NEW s \in Sessions, create_reader_perspective_entry(s) PROVE StoryStep
  <2>1. PICK r : AtOnce(s, Create(db, s, "reader_perspectives", r))
    BY <1>3 DEF create_reader_perspective_entry
  <2> QED
    BY <1>0, <2>1, CreatesElsewhere
<1>4. ASSUME NEW s \in Sessions, FirstOrCreate(s) PROVE StoryStep
  <2>1. PICK new : Will(s, "create_chapter", "chapters", 0, None, new)
    BY <1>4 DEF FirstOrCreate
  <2> QED
    BY <1>0, <2>1, DecidesFreely
<1>5. ASSUME NEW s \in Sessions, NEW k, update_timeline_entry(s, k) PROVE StoryStep
  <2> DEFINE Given(given, chapter, old) ==
               [status |-> IF given = None THEN old.status ELSE given,
                resolved_chapter_id |-> IF chapter = NoChapter
                                        THEN old.resolved_chapter_id ELSE chapter]
  <2>0. PICK given \in {"pending", "resolved", None}, chapter \in NoChapter .. MaxRows :
          /\ k \in EntryIds
          /\ Will(s, "save", "timeline_entries", k, db.rows["timeline_entries"][k],
                  Given(given, chapter, db.rows["timeline_entries"][k]))
    BY <1>5 DEF update_timeline_entry
  <2>1. PICK old, new :
          /\ k \in EntryIds /\ old = db.rows["timeline_entries"][k]
          /\ new = Given(given, chapter, old)
          /\ Will(s, "save", "timeline_entries", k, old, new)
    BY <2>0
  <2>2. RowsTyped(db)
    BY <2>1 DEF Will, Spare, StoryInv
  <2>3. old \in EndRows["timeline_entries"]
    BY <1>0, <2>1, <2>2, FewIds DEF EntryIds
  <2>4. chapter \in Nat
    BY <1>0 DEF NoChapter
  <2>5. new \in EndRows["timeline_entries"]
    BY <1>0, <2>1, <2>3, <2>4
  <2> QED
    BY <1>0, <2>1, <2>5, SavesStep DEF EntryIds, Has, EndsAgree
<1>6. ASSUME NEW s \in Sessions, NEW k, deleteTimelineEntry(s, k) PROVE StoryStep
  BY <1>6, DeletesStep DEF deleteTimelineEntry, Unreferred
<1>7. ASSUME NEW s \in Sessions, NEW k, deleteReaderPerspectiveEntry(s, k) PROVE StoryStep
  BY <1>7, DeletesStep DEF deleteReaderPerspectiveEntry, Unreferred
<1>8. ASSUME NEW a \in Actors, NEW k, update_reader_perspective_entry(a, k) PROVE StoryStep
  <2>1. PICK new \in ReaderPerspective :
          /\ Has(db, "reader_perspectives", k)
          /\ Will(a, "save", "reader_perspectives", k, db.rows["reader_perspectives"][k], new)
    BY <1>8 DEF update_reader_perspective_entry, Edit
  <2> QED
    BY <1>0, <2>1, SavesStep DEF SavedRows
<1>9. ASSUME NEW a \in Actors, NEW i, update_chapter_meta(a, i) PROVE StoryStep
  <2> DEFINE d == Updates(db, "chapters", {i}, LAMBDA r : [r EXCEPT !.meta = "new"])
  <2>1. AtOnce(a, d)
    BY <1>9 DEF update_chapter_meta
  <2>2. Shape(db)
    BY <2>1 DEF AtOnce, Spare, StoryInv, RowsTyped
  <2>3. SameBut(d, db, "chapters")
    <3>1. PICK rows : d = [db EXCEPT !.rows["chapters"] = rows]
      BY DEF Updates
    <3> HIDE DEF d
    <3> QED
      BY <2>2, <3>1 DEF SameBut, Shape
  <2> HIDE DEF d
  <2> QED
    BY <1>0, <2>1, <2>3, ActsElsewhere
<1>10. ASSUME CreateReaderPerspective PROVE StoryStep
  <2>1. PICK r : AtOnce(User, Create(db, User, "reader_perspectives", r))
    BY <1>10 DEF CreateReaderPerspective
  <2> QED
    BY <1>0, <2>1, CreatesElsewhere
<1>11. ASSUME CreateChapter PROVE StoryStep
  <2>1. PICK new : Will(User, "create_chapter", "chapters", 0, None, new)
    BY <1>11 DEF CreateChapter
  <2> QED
    BY <1>0, <2>1, DecidesFreely
<1>12. ASSUME NEW k, UpdateTimelineEntry(k) PROVE StoryStep
  <2>1. PICK new \in TimelineEntry :
          /\ Has(db, "timeline_entries", k)
          /\ Will(User, "save", "timeline_entries", k, db.rows["timeline_entries"][k], new)
    BY <1>12 DEF UpdateTimelineEntry, PatchAndSave, Edit
  <2>2. new \in EndRows["timeline_entries"]
    BY <1>0 DEF TimelineEntry, NoChapter
  <2> QED
    BY <1>0, <2>1, <2>2, SavesStep DEF EndsAgree
<1>13. ASSUME NEW k, DeleteTimelineEntry(k) PROVE StoryStep
  BY <1>0, <1>13, RemovesStep DEF DeleteTimelineEntry, EntryIds, Has, Unreferred
<1>14. ASSUME NEW k, DeleteReaderPerspective(k) PROVE StoryStep
  BY <1>0, <1>14, DeletesElsewhere DEF DeleteReaderPerspective
<1>15. ASSUME NEW i, DeleteChapter(i) PROVE StoryStep
  BY <1>0, <1>15, DeletesElsewhere DEF DeleteChapter
<1> QED
  BY <1>1, <1>2, <1>3, <1>4, <1>5, <1>6, <1>7, <1>8, <1>9, <1>10, <1>11, <1>12, <1>13,
     <1>14, <1>15 DEF LedgerNext

LEMMA NotesSteps ==
  ASSUME StoryInv, NotesNext
  PROVE  StoryStep
<1> DEFINE Noted == {"lore", "scenes", "preferences", "outlines", "outline_beats"}
<1>0. User \in Actors /\ Sessions \subseteq Actors /\ \A t \in Noted : t \notin EndTables
  BY Tabled DEF Actors
<1>1. ASSUME NEW a \in Actors, NEW t \in Noted, NEW r, Insert(a, t, r) PROVE StoryStep
  BY <1>0, <1>1, CreatesElsewhere DEF Insert
<1>2. ASSUME NEW a \in Actors, NEW t \in Noted, NEW i, NEW new, EditColumns(a, t, i, new)
      PROVE  StoryStep
  BY <1>0, <1>2, DecidesFreely DEF EditColumns
<1>3. ASSUME NEW a \in Actors, NEW t \in Noted, NEW i, DeleteRows(a, t, i) PROVE StoryStep
  BY <1>0, <1>3, DeletesElsewhere DEF DeleteRows
<1>4. ASSUME NEW s \in Sessions, NEW t \in Noted, NEW i, delete_record(s, t, i, {})
      PROVE  StoryStep
  BY <1>4, DeletesStep DEF Unreferred
<1>5. ASSUME NEW a \in Actors, NEW t \in Noted, NEW i, NEW new \in Note, Has(db, t, i),
             Will(a, "save", t, i, db.rows[t][i], new)
      PROVE  StoryStep
  BY <1>0, <1>5, SavesStep DEF SavedRows
<1>6. ASSUME NEW a \in Actors, WriteColumns(a) PROVE StoryStep
  <2>1. PICK t : t = op[a].table
    OBVIOUS
  <2> DEFINE d == Updates(db, t, {op[a].id},
                          LAMBDA r : Stored(op[a].table, r, op[a].new))
  <2>2. About(a, "write_columns") /\ Commits(a, d) /\ Done(a)
    BY <1>6, <2>1 DEF WriteColumns
  <2>3. Shape(db) /\ t \notin EndTables
    BY <2>1, <2>2, AboutOp DEF RowsTyped, OpTyped
  <2>4. SameBut(d, db, t)
    BY <2>3 DEF SameBut, Shape, Updates
  <2> HIDE DEF d
  <2> QED
    BY <2>2, <2>3, <2>4, ActsElsewhere
<1>7. ASSUME NEW a \in Actors, Upsert(a) PROVE StoryStep
  <2>1. PICK text \in NoteTexts :
                    \/ Will(a, "insert_outline", "outlines", 0, None, [text |-> text])
                    \/ \E i \in Ids(db, "outlines") :
                         Will(a, "save", "outlines", i, db.rows["outlines"][i], [text |-> text])
    BY <1>7 DEF Upsert
  <2>2. [text |-> text] \in Note
    BY DEF Note
  <2> QED
    BY <1>0, <1>5, <2>1, <2>2, DecidesFreely DEF Has
<1>8. ASSUME NEW a \in Actors, InsertOutline(a) PROVE StoryStep
  <2>1. CASE UNCHANGED <<db, turn, hist>>
    BY <1>8, <2>1, GivesUp DEF InsertOutline
  <2>2. CASE Commits(a, Create(db, a, "outlines", op[a].new))
    <3>1. PICK new : new = op[a].new
      OBVIOUS
    <3> QED
      BY <1>0, <1>8, <2>2, <3>1, CreatesElsewhere DEF InsertOutline
  <2> QED
    BY <1>8, <2>1, <2>2 DEF InsertOutline
<1>9. ASSUME NEW a \in Actors,
             create_lore(a) \/ create_scene(a) \/ create_preference(a) \/ create_outline_beat(a)
      PROVE  StoryStep
  BY <1>1, <1>9 DEF create_lore, create_scene, create_preference, create_outline_beat
<1>10. ASSUME NEW a \in Actors, NEW i, update_lore(a, i) \/ update_scene(a, i)
       PROVE  StoryStep
  BY <1>2, <1>10 DEF update_lore, update_scene
<1>11. ASSUME NEW a \in Actors, NEW i,
              delete_lore(a, i) \/ delete_scene(a, i) \/ delete_outline_beat(a, i)
       PROVE  StoryStep
  BY <1>3, <1>11 DEF delete_lore, delete_scene, delete_outline_beat
<1>12. ASSUME NEW a \in Actors, NEW i, update_preference(a, i) PROVE StoryStep
  BY <1>5, <1>12 DEF update_preference, Edit, Note, NoteTexts
<1>13. ASSUME NEW s \in Sessions, NEW i,
              deleteLoreRecord(s, i) \/ deleteSceneRecord(s, i) \/ deletePreference(s, i)
       PROVE  StoryStep
  BY <1>4, <1>13 DEF deleteLoreRecord, deleteSceneRecord, deletePreference
<1>14. ASSUME NEW s \in Sessions, NEW i, update_outline_beat(s, i) PROVE StoryStep
  BY <1>0, <1>5, <1>14 DEF update_outline_beat, Edit, Note, NoteTexts
<1>15. ASSUME NEW i, DeletePreference(i) PROVE StoryStep
  BY <1>0, <1>3, <1>15 DEF DeletePreference
<1>16. ASSUME NEW i, UpdateOutlineBeat(i) PROVE StoryStep
  <2>1. PICK new : AtOnce(User, Save(db, User, "outline_beats", i, new))
    BY <1>16 DEF UpdateOutlineBeat
  <2>2. Shape(db)
    BY <2>1 DEF AtOnce, Spare, StoryInv, RowsTyped
  <2>3. SameBut(Save(db, User, "outline_beats", i, new), db, "outline_beats")
    BY <2>2, SaveEffect
  <2> QED
    BY <1>0, <2>1, <2>3, ActsElsewhere
<1> QED
  BY <1>6, <1>7, <1>8, <1>9, <1>10, <1>11, <1>12, <1>13, <1>14, <1>15, <1>16 DEF NotesNext

-----------------------------------------------------------------------------
(* What rows and steps keep.                                               *)

LEMMA StoryStart ==
  ASSUME Init
  PROVE  StoryInv
<1>1. PICK part \in Parts :
        /\ LogInit(part)
        /\ db = [rows |-> [t \in Tables |-> IF t \in DOMAIN Beginning[part]
                                            THEN Beginning[part][t] ELSE <<>>],
                 log |-> <<>>]
  BY DEF Init
<1>2. Shape(db)
  BY <1>1 DEF Shape
<1>3. ASSUME NEW t \in EndTables
      PROVE  db.rows[t] \in Seq(EndRows[t] \cup {None})
  <2>1. db.rows[t] = IF t \in DOMAIN Beginning[part] THEN Beginning[part][t] ELSE <<>>
    BY <1>1, Tabled
  <2>2. CASE t \in DOMAIN Beginning[part]
    <3>1. Beginning[part][t] \in Seq(EndRows[t])
      BY <2>2, StoryAssumption DEF EndTables
    <3>2. \A S, T : S \subseteq T => Seq(S) \subseteq Seq(T)
      OBVIOUS
    <3>3. EndRows[t] \subseteq EndRows[t] \cup {None}
      OBVIOUS
    <3> QED
      BY <2>1, <2>2, <3>1, <3>2, <3>3
  <2>3. CASE t \notin DOMAIN Beginning[part]
    <3>1. \A T : <<>> \in Seq(T)
      OBVIOUS
    <3> QED
      BY <2>1, <2>3, <3>1
  <2> QED
    BY <2>2, <2>3
<1>4. /\ Histories /\ op = [a \in Actors |-> op[a]] /\ \A a \in Actors : op[a] = None
  BY <1>1 DEF LogInit, Histories
<1> QED
  BY <1>2, <1>3, <1>4 DEF StoryInv, RowsTyped

\* The invariant holds, and no step breaks what the properties say of steps.
LEMMA StoryNext ==
  ASSUME StoryInv, [Next]_vars
  PROVE  StoryInv' /\ [EndsStep]_vars /\ [FinalsStep]_vars /\ [OneStep]_vars
<1>1. CASE Next
  <2>1. StoryStep
    BY <1>1, LogSteps, CharactersSteps, PlacesSteps, ThreadsSteps, ItemsSteps, LedgerSteps,
       NotesSteps DEF Next, InPart
  <2> QED
    BY <2>1 DEF StoryStep
<1>2. CASE UNCHANGED vars
  <2>1. UNCHANGED <<db, op>> /\ UNCHANGED hist
    BY <1>2 DEF vars
  <2>2. Histories'
    BY <2>1 DEF StoryInv, Histories
  <2>3. StoryStep
    BY <2>1, <2>2, Unwritten
  <2> QED
    BY <1>2, <2>3 DEF StoryStep
<1> QED
  BY <1>1, <1>2

\* Rows and operations are of their tables, and what an actor decided on is so until
\* another changes a row.
THEOREM StoryInvariant == Spec => []StoryInv
<1>1. Init => StoryInv
  BY StoryStart
<1>2. StoryInv /\ [Next]_vars => StoryInv'
  BY StoryNext
<1> QED
  BY <1>1, <1>2, PTL DEF Spec

\* A row comes to point at nothing only when the interface points it there, by a
\* write of what has changed since it was decided on, in the place of a relation that did so already, or by a rollback.
THEOREM EndsStandHolds == Spec => EndsStand
<1>1. StoryInv /\ [Next]_vars => [EndsStep]_vars
  BY StoryNext
<1> QED
  BY <1>1, StoryInvariant, PTL DEF Spec, EndsStand, EndsStep

\* No tool that read a row dead, destroyed or consumed brings it back.
THEOREM FinalsStandHolds == Spec => FinalsStand
<1>1. StoryInv /\ [Next]_vars => [FinalsStep]_vars
  BY StoryNext
<1> QED
  BY <1>1, StoryInvariant, PTL DEF Spec, FinalsStand, FinalsStep

\* A second relation of a direction comes to hold only by an edit of a retired one,
\* a write of what has changed since, or a rollback.
THEOREM OneHoldsHolds == Spec => OneHolds
<1>1. StoryInv /\ [Next]_vars => [OneStep]_vars
  BY StoryNext
<1> QED
  BY <1>1, StoryInvariant, PTL DEF Spec, OneHolds, OneStep

-----------------------------------------------------------------------------
(* The operation log: what its records say of the rows they are of.        *)
(* Row by row, those that a rollback would take back lead from what the    *)
(* row is to what it was when the turn began (LogInv); each statement      *)
(* keeps that, and the rollback follows them.                              *)

\* Rows that the properties speak of: the table and the id.
Places == Tables \X (1 .. MaxRows)

RowOf(r, e) == r.table = e[1] /\ r.id = e[2]

\* What a record tells of its row before the statement.
Before(r) == IF r.kind = "create" THEN None ELSE r.old

\* A record of turn tu or an earlier one, that can be taken back in d.
Recorded(r, d, tu) ==
  /\ r.by.turn \in Nat
  /\ r.by.sess \in Sessions => r.by.turn <= tu[r.by.sess]
  /\ r.kind \notin {"create", "update"} /\ r.table \in Tables => r.id \in DOMAIN d.rows[r.table]

Listed(d, tu) ==
  /\ Shape(d) /\ IsList(d.log)
  /\ \A t \in Tables : IsList(d.rows[t])
  /\ \A k \in DOMAIN d.log : Recorded(d.log[k], d, tu)

\* The places of the log whose records a rollback of session s to turn n takes back
\* and that are of row e.
Takes(d, s, n, e) == {k \in DOMAIN d.log : Undoes(d.log[k], s, n) /\ RowOf(d.log[k], e)}

\* Row e was v before the records from place k of the log on.
Was(d, s, n, e, k, v) ==
  \/ \E j \in Takes(d, s, n, e) :
       /\ k <= j /\ v = Before(d.log[j])
       /\ \A i \in Takes(d, s, n, e) : k <= i => j <= i
  \/ (\A i \in Takes(d, s, n, e) : i < k) /\ v = Row(d.rows, e)

\* The records lead from what row e is back to v, and none puts a row back that is
\* not there.
Leads(d, s, n, e, v) ==
  /\ Was(d, s, n, e, 1, v)
  /\ \A k \in Takes(d, s, n, e) : d.log[k].kind = "update" => ~Was(d, s, n, e, k + 1, None)

\* Nothing but logged statements of turns that are undone has touched the row.
Alone(h, s, n, e) ==
  \A x \in h.touches : x.row = e /\ x.at[s] >= n => x.logged /\ Undoes(x, s, n)

Leading(d, tu, h) ==
  \A s \in Sessions : \A n \in 1 .. tu[s] : \A e \in Places :
    Alone(h, s, n, e) => Leads(d, s, n, e, Row(h.marks[s][n], e))

Marked(tu, h) ==
  /\ tu \in [Sessions -> Nat]
  /\ h.marks = [s \in Sessions |-> h.marks[s]]
  /\ \A s \in Sessions : IsList(h.marks[s]) /\ Len(h.marks[s]) = tu[s]
  /\ \A x \in h.touches : x.row \in Places

LogInv ==
  /\ Marked(turn, hist)
  /\ hist.undone = None => Listed(db, turn) /\ Leading(db, turn, hist)
  /\ hist.undone # None => 
       /\ hist.undone.sess \in Sessions /\ hist.undone.turn \in 1 .. turn[hist.undone.sess]
       /\ LoggedTurnUndone

-----------------------------------------------------------------------------
(* Some numbers, lists.                                                    *)

LEMMA Least ==
  ASSUME NEW S \in SUBSET Nat, S # {}
  PROVE  \E x \in S : \A y \in S : x <= y
<1>1. PICK x \in S : \A y \in S : <<y, x>> \notin OpToRel(<, Nat)
  BY NatLessThanWellFounded, WFMin
<1>2. ASSUME NEW y \in Nat, <<y, x>> \notin OpToRel(<, Nat), x \in Nat
      PROVE  x <= y
  BY <1>2 DEF OpToRel
<1> QED
  BY <1>1, <1>2

LEMMA LastOf ==
  ASSUME NEW S \in SUBSET Nat, S # {}, NEW high \in Nat, \A x \in S : x <= high
  PROVE  Max(S) \in S
<1> DEFINE T == {n \in Nat : high - n \in S}
<1>1. \A x \in S : high - x \in T
  OBVIOUS
<1>2. T \in SUBSET Nat /\ T # {}
  BY <1>1
<1>3. PICK n \in T : \A m \in T : n <= m
  <2> HIDE DEF T
  <2> QED
    BY <1>2, Least
<1>4. high - n \in S /\ \A x \in S : x <= high - n
  BY <1>1, <1>3
<1>5. \E x \in S : \A y \in S : x >= y
  BY <1>4
<1> QED
  BY <1>5 DEF Max

LEMMA Lists ==
  ASSUME NEW f, IsList(f)
  PROVE  /\ Len(f) \in Nat /\ DOMAIN f = 1 .. Len(f) /\ f = [k \in 1 .. Len(f) |-> f[k]]
         /\ f \in Seq(Range(f))
BY DEF IsList

LEMMA ListOf ==
  ASSUME NEW f, NEW n \in Nat, f = [k \in 1 .. n |-> f[k]]
  PROVE  IsList(f) /\ Len(f) = n
BY DEF IsList, Range

\* A larger set has the lists of a smaller one.
LEMMA ListsGrow == \A A, B : A \subseteq B => Seq(A) \subseteq Seq(B)
OBVIOUS

LEMMA ListMore ==
  ASSUME NEW f, IsList(f), NEW x
  PROVE  /\ IsList(Append(f, x)) /\ Len(Append(f, x)) = Len(f) + 1
         /\ Append(f, x)[Len(f) + 1] = x
         /\ \A k \in 1 .. Len(f) : Append(f, x)[k] = f[k]
<1>1. f \in Seq(Range(f) \cup {x}) /\ x \in Range(f) \cup {x}
  <2>1. \A S, T : S \subseteq T => Seq(S) \subseteq Seq(T)
    OBVIOUS
  <2> QED
    BY <2>1 DEF IsList
<1> DEFINE S == Range(f) \cup {x}
<1> HIDE DEF S
<1>2. f \in Seq(S) /\ x \in S
  BY <1>1 DEF S
<1>3. PICK g : g = Append(f, x)
  OBVIOUS
<1>4. /\ Len(f) \in Nat
      /\ g = [k \in 1 .. Len(f) + 1 |-> g[k]]
      /\ g[Len(f) + 1] = x /\ \A k \in 1 .. Len(f) : g[k] = f[k]
  <2>1. g \in Seq(S) /\ Len(g) = Len(f) + 1 /\ Len(f) \in Nat
    BY <1>2, <1>3
  <2>2. g[Len(f) + 1] = x /\ \A k \in 1 .. Len(f) : g[k] = f[k]
    BY <1>2, <1>3
  <2>3. \A q \in Seq(S) : q = [k \in 1 .. Len(q) |-> q[k]]
    OBVIOUS
  <2> QED
    BY <2>1, <2>2, <2>3
<1>5. IsList(g) /\ Len(g) = Len(f) + 1
  BY <1>4, ListOf
<1> QED
  BY <1>3, <1>4, <1>5

LEMMA ListExcept ==
  ASSUME NEW f, IsList(f), NEW i, NEW x
  PROVE  /\ IsList([f EXCEPT ![i] = x]) /\ Len([f EXCEPT ![i] = x]) = Len(f)
         /\ \A k \in 1 .. Len(f) : [f EXCEPT ![i] = x][k] = IF k = i THEN x ELSE f[k]
<1>1. PICK g : g = [f EXCEPT ![i] = x]
  OBVIOUS
<1>2. /\ Len(f) \in Nat /\ DOMAIN f = 1 .. Len(f)
      /\ g = [k \in 1 .. Len(f) |-> g[k]]
      /\ \A k \in 1 .. Len(f) : g[k] = IF k = i THEN x ELSE f[k]
  BY <1>1, Lists
<1> QED
  BY <1>1, <1>2, ListOf

-----------------------------------------------------------------------------
(* What the records of a row say.                                          *)

\* The records of a row are the same, and so is the row.
LEMMA LeadsStill ==
  ASSUME NEW d, NEW c, NEW s, NEW n, NEW e, NEW v,
         Takes(d, s, n, e) = Takes(c, s, n, e),
         \A k \in Takes(c, s, n, e) : d.log[k] = c.log[k],
         Row(d.rows, e) = Row(c.rows, e),
         Leads(c, s, n, e, v)
  PROVE  Leads(d, s, n, e, v)
BY DEF Leads, Was

\* One more record.
LEMMA LeadsOn ==
  ASSUME NEW d, NEW c, NEW s, NEW n, NEW e, NEW v, NEW end \in Nat \ {0},
         Takes(c, s, n, e) \subseteq 1 .. end - 1,
         Takes(d, s, n, e) = Takes(c, s, n, e) \cup {end},
         \A k \in Takes(c, s, n, e) : d.log[k] = c.log[k],
         Before(d.log[end]) = Row(c.rows, e),
         d.log[end].kind = "update" => Row(d.rows, e) # None,
         Leads(c, s, n, e, v)
  PROVE  Leads(d, s, n, e, v)
<1> DEFINE C == Takes(c, s, n, e)
           D == Takes(d, s, n, e)
<1>0. /\ C \subseteq 1 .. end - 1 /\ D = C \cup {end}
      /\ \A k \in C : k \in Nat /\ k < end /\ Before(d.log[k]) = Before(c.log[k])
                      /\ d.log[k].kind = c.log[k].kind
  BY DEF Before
<1>1. ASSUME NEW p \in 1 .. end, NEW u
      PROVE  Was(d, s, n, e, p, u) <=> Was(c, s, n, e, p, u)
  <2>1. Was(d, s, n, e, p, u) <=>
           \/ \E j \in D : p <= j /\ u = Before(d.log[j]) /\ \A i \in D : p <= i => j <= i
           \/ (\A i \in D : i < p) /\ u = Row(d.rows, e)
    BY DEF Was
  <2>2. Was(c, s, n, e, p, u) <=>
           \/ \E j \in C : p <= j /\ u = Before(c.log[j]) /\ \A i \in C : p <= i => j <= i
           \/ (\A i \in C : i < p) /\ u = Row(c.rows, e)
    BY DEF Was
  <2> HIDE DEF C, D
  <2>3. ~ \A i \in D : i < p
    BY <1>0
  <2>4. CASE \A i \in C : i < p
    <3>1. ~ \E j \in C : p <= j
      BY <1>0, <2>4
    <3>2. (\E j \in D : p <= j /\ u = Before(d.log[j]) /\ \A i \in D : p <= i => j <= i)
            <=> u = Before(d.log[end])
      BY <1>0, <3>1
    <3> QED
      BY <2>1, <2>2, <2>3, <2>4, <3>1, <3>2
  <2>5. CASE ~ \A i \in C : i < p
    <3>1. PICK i \in C : p <= i
      BY <1>0, <2>5
    <3>2. \A j \in D : (p <= j /\ \A h \in D : p <= h => j <= h) =>
                         j \in C /\ \A h \in C : p <= h => j <= h
      BY <1>0, <3>1
    <3>3. \A j \in C : (p <= j /\ \A h \in C : p <= h => j <= h) =>
                         j \in D /\ \A h \in D : p <= h => j <= h
      BY <1>0, <3>1
    <3> QED
      BY <1>0, <2>1, <2>2, <2>3, <2>5, <3>2, <3>3
  <2> QED
    BY <2>4, <2>5
<1>2. \A u : Was(d, s, n, e, end + 1, u) <=> u = Row(d.rows, e)
  <2> SUFFICES ASSUME NEW u
               PROVE  Was(d, s, n, e, end + 1, u) <=> u = Row(d.rows, e)
    OBVIOUS
  <2>1. \A i \in D : i < end + 1 /\ ~(end + 1 <= i)
    <3> HIDE DEF C, D
    <3> QED
      BY <1>0
  <2> QED
    BY <2>1 DEF Was
<1>3. Was(d, s, n, e, 1, v)
  BY <1>1 DEF Leads
<1>4. ASSUME NEW k \in D, d.log[k].kind = "update" PROVE ~Was(d, s, n, e, k + 1, None)
  <2>1. CASE k \in C
    <3>1. k + 1 \in 1 .. end /\ c.log[k].kind = "update"
      BY <1>0, <1>4, <2>1
    <3> QED
      BY <1>1, <2>1, <3>1 DEF Leads
  <2>2. CASE k = end
    BY <1>2, <1>4, <2>2
  <2> QED
    BY <1>0, <2>1, <2>2
<1> QED
  BY <1>3, <1>4 DEF Leads

-----------------------------------------------------------------------------
(* What a statement leaves in the log.                                     *)

\* The records of row e that d has more.
News(d, e) == {k \in Len(db.log) + 1 .. Len(d.log) : RowOf(d.log[k], e)}

\* A record tells what row e was.
Tells(d, e, k) ==
  /\ Before(d.log[k]) = Row(db.rows, e)
  /\ d.log[k].kind = "update" => Row(d.rows, e) # None

\* d follows on db, with one record of a row at most.
Traced(d) ==
  /\ Listed(d, turn)
  /\ \A t \in Tables : DOMAIN db.rows[t] \subseteq DOMAIN d.rows[t]
  /\ Len(db.log) <= Len(d.log) /\ \A k \in DOMAIN db.log : d.log[k] = db.log[k]
  /\ \A e \in Places : \A k \in News(d, e) : Tells(d, e, k) /\ \A j \in News(d, e) : j = k

LEMMA TakesMore ==
  ASSUME Listed(db, turn), NEW d, Traced(d), NEW s, NEW n, NEW e
  PROVE  /\ Takes(db, s, n, e) \subseteq 1 .. Len(db.log)
         /\ Takes(d, s, n, e) = Takes(db, s, n, e) \cup {k \in News(d, e) : Undoes(d.log[k], s, n)}
         /\ \A k \in Takes(db, s, n, e) : d.log[k] = db.log[k]
<1>1. /\ Len(db.log) \in Nat /\ DOMAIN db.log = 1 .. Len(db.log)
      /\ Len(d.log) \in Nat /\ DOMAIN d.log = 1 .. Len(d.log) /\ Len(db.log) <= Len(d.log)
      /\ \A k \in DOMAIN db.log : d.log[k] = db.log[k]
  BY Lists DEF Traced, Listed
<1>2. 1 .. Len(d.log) = (1 .. Len(db.log)) \cup (Len(db.log) + 1 .. Len(d.log))
  BY <1>1
<1>3. Takes(d, s, n, e) = {k \in 1 .. Len(d.log) : Undoes(d.log[k], s, n) /\ RowOf(d.log[k], e)}
  BY <1>1 DEF Takes
<1>4. Takes(db, s, n, e) = {k \in 1 .. Len(db.log) : Undoes(d.log[k], s, n) /\ RowOf(d.log[k], e)}
  BY <1>1 DEF Takes
<1> QED
  BY <1>1, <1>2, <1>3, <1>4 DEF News

\* A row that differs has been touched.
LEMMA Touched ==
  ASSUME Listed(db, turn), NEW a, NEW d, Traced(d), NEW e \in Places,
         Row(d.rows, e) # Row(db.rows, e)
  PROVE  \E x \in Touches(a, d) :
           /\ x.row = e /\ x.at = turn
           /\ News(d, e) = {} => ~x.logged
           /\ \A k \in News(d, e) : x.by = d.log[k].by
<1>1. PICK t, i : e = <<t, i>> /\ t \in Tables /\ e[1] = t /\ e[2] = i
  BY DEF Places
<1>2. DOMAIN db.rows[t] \subseteq DOMAIN d.rows[t]
  BY <1>1 DEF Traced
<1>3. e \in Changed(d)
  BY <1>1, <1>2 DEF Changed, Row, Has, Ids, Places
<1> DEFINE k == NewRecord(d, e)
           x == [row |-> e, actor |-> a, logged |-> k # 0, at |-> turn,
                 by |-> IF k = 0 THEN Nobody ELSE d.log[k].by]
<1>4. x \in Touches(a, d)
  BY <1>3 DEF Touches
<1>5. k = IF News(d, e) # {} THEN Max(News(d, e)) ELSE 0
  BY DEF NewRecord, SelectLastInSubSeq, News, RowOf
<1>6. ASSUME NEW j \in News(d, e) PROVE k = j /\ j # 0
  <2>1. News(d, e) = {j}
    BY <1>6 DEF Traced
  <2>2. Len(db.log) \in Nat
    BY Lists DEF Listed
  <2>3. j \in Nat \ {0}
    BY <2>2 DEF News
  <2>4. Max({j}) = j
    BY <2>3 DEF Max
  <2> QED
    BY <1>5, <2>1, <2>3, <2>4
<1> QED
  BY <1>4, <1>5, <1>6

LEMMA LeadingOn ==
  ASSUME Listed(db, turn), NEW a, NEW d, Traced(d), NEW h, turn \in [Sessions -> Nat],
         h.touches = hist.touches \cup Touches(a, d), h.marks = hist.marks,
         Leading(db, turn, hist)
  PROVE  Leading(d, turn, h)
<1> SUFFICES ASSUME NEW s \in Sessions, NEW n \in 1 .. turn[s], NEW e \in Places,
                    Alone(h, s, n, e)
             PROVE  Leads(d, s, n, e, Row(h.marks[s][n], e))
  BY DEF Leading
<1> DEFINE v == Row(hist.marks[s][n], e)
<1>1. Alone(hist, s, n, e)
  BY DEF Alone
<1>2. Leads(db, s, n, e, v)
  BY <1>1 DEF Leading
<1>3. /\ Takes(db, s, n, e) \subseteq 1 .. Len(db.log)
      /\ Takes(d, s, n, e) = Takes(db, s, n, e) \cup {k \in News(d, e) : Undoes(d.log[k], s, n)}
      /\ \A k \in Takes(db, s, n, e) : d.log[k] = db.log[k]
  BY TakesMore
<1>4. \A x \in Touches(a, d) : x.row = e /\ x.at = turn => x.logged /\ Undoes(x, s, n)
  BY DEF Alone
<1>5. Leads(d, s, n, e, v)
  <2>1. CASE \E k \in News(d, e) : Undoes(d.log[k], s, n)
    <3>1. PICK k \in News(d, e) : Undoes(d.log[k], s, n)
      BY <2>1
    <3>2. Tells(d, e, k) /\ \A j \in News(d, e) : j = k
      BY <3>1 DEF Traced
    <3>3. Takes(d, s, n, e) = Takes(db, s, n, e) \cup {k}
      BY <1>3, <3>1, <3>2
    <3>4. Len(db.log) \in Nat /\ k \in Nat \ {0} /\ Len(db.log) <= k - 1
      <4>1. Len(db.log) \in Nat
        BY Lists DEF Listed
      <4> QED
        BY <3>1, <4>1 DEF News
    <3>5. Takes(db, s, n, e) \subseteq 1 .. k - 1
      BY <1>3, <3>4
    <3> QED
      BY <1>2, <1>3, <3>2, <3>3, <3>4, <3>5, LeadsOn DEF Tells
  <2>2. CASE ~ \E k \in News(d, e) : Undoes(d.log[k], s, n)
    <3>1. Takes(d, s, n, e) = Takes(db, s, n, e)
      BY <1>3, <2>2
    <3>2. Row(d.rows, e) = Row(db.rows, e)
      <4> SUFFICES ASSUME Row(d.rows, e) # Row(db.rows, e) PROVE FALSE
        OBVIOUS
      <4>1. PICK x \in Touches(a, d) :
              /\ x.row = e /\ x.at = turn
              /\ News(d, e) = {} => ~x.logged
              /\ \A k \in News(d, e) : x.by = d.log[k].by
        BY Touched
      <4>2. x.logged /\ Undoes(x, s, n)
        BY <1>4, <4>1
      <4> QED
        BY <2>2, <4>1, <4>2 DEF Undoes
    <3> QED
      BY <1>2, <1>3, <3>1, <3>2, LeadsStill
  <2> QED
    BY <2>1, <2>2
<1> QED
  BY <1>5

LEMMA CommitLogged ==
  ASSUME StoryInv, LogInv, hist.undone = None, NEW a, NEW d, Commits(a, d), Traced(d)
  PROVE  LogInv'
<1>1. /\ db' = d /\ UNCHANGED turn
      /\ hist' = [hist EXCEPT !.touches = @ \cup Touches(a, d),
                              !.stale = (@ \ {a}) \cup (Pending \ {a})]
  BY DEF Commits
<1>2. /\ hist'.touches = hist.touches \cup Touches(a, d) /\ hist'.marks = hist.marks
      /\ hist'.undone = None
  BY <1>1 DEF StoryInv, Histories
<1>3. \A x \in Touches(a, d) : x.row \in Places
  BY DEF Touches, Changed, Places
<1>4. Marked(turn, hist')
  BY <1>2, <1>3 DEF LogInv, Marked
<1>5. Leading(d, turn, hist')
  BY <1>2, LeadingOn DEF LogInv, Marked
<1> QED
  BY <1>1, <1>2, <1>4, <1>5 DEF LogInv, Traced

-----------------------------------------------------------------------------
(* The rollback.                                                           *)

\* f[i] is the database down to record i, for every i from p on.
Reverses(f, s, n, p) ==
  /\ f = [i \in p .. Len(db.log) + 1 |-> f[i]]
  /\ f[Len(db.log) + 1] = db
  /\ \A i \in p .. Len(db.log) :
       f[i] = IF Of(db.log[i], s, n) THEN TryReverse(f[i + 1], db.log[i]) ELSE f[i + 1]

CanReverseFrom(s, n, p) == \E f : Reverses(f, s, n, p)

LEMMA ReversalExists ==
  ASSUME IsList(db.log), NEW s, NEW n
  PROVE  CanReverseFrom(s, n, 1)
<1> DEFINE L == Len(db.log)
           Bad == {m \in 0 .. L : ~ CanReverseFrom(s, n, L + 1 - m)}
<1>0. L \in Nat /\ Bad \in SUBSET Nat
  BY Lists
<1> HIDE DEF L
<1>1. SUFFICES ASSUME Bad # {} PROVE FALSE
  <2>1. L \in 0 .. L /\ L + 1 - L = 1
    BY <1>0
  <2> QED
    BY <2>1
<1>2. PICK m \in Bad : \A k \in Bad : m <= k
  <2> HIDE DEF Bad
  <2> QED
    BY <1>0, <1>1, Least
<1>3. m \in 0 .. L /\ ~ CanReverseFrom(s, n, L + 1 - m)
  BY <1>2
<1>4. m # 0
  <2> SUFFICES ASSUME m = 0 PROVE FALSE
    OBVIOUS
  <2> DEFINE g == [i \in L + 1 .. L + 1 |-> db]
  <2>1. /\ g = [i \in L + 1 .. L + 1 |-> g[i]] /\ g[L + 1] = db
        /\ L + 1 .. L = {}
    BY <1>0
  <2> HIDE DEF g
  <2>2. Reverses(g, s, n, L + 1)
    BY <2>1 DEF Reverses, L
  <2>3. CanReverseFrom(s, n, L + 1)
    BY <2>2 DEF CanReverseFrom
  <2> QED
    BY <1>0, <1>3, <2>3
<1>5. m - 1 \in 0 .. L /\ m - 1 \notin Bad
  BY <1>0, <1>2, <1>3, <1>4
<1>6. PICK p : p = L + 1 - m
  OBVIOUS
<1>7. p \in 1 .. L /\ L + 1 - (m - 1) = p + 1
  BY <1>0, <1>3, <1>4, <1>6
<1>8. PICK f : Reverses(f, s, n, p + 1)
  BY <1>5, <1>7 DEF CanReverseFrom
<1> DEFINE here == IF Of(db.log[p], s, n) THEN TryReverse(f[p + 1], db.log[p]) ELSE f[p + 1]
           g == [i \in p .. L + 1 |-> IF i = p THEN here ELSE f[i]]
<1>9. /\ g = [i \in p .. L + 1 |-> g[i]]
      /\ g[p] = here /\ \A i \in p + 1 .. L + 1 : g[i] = f[i]
  <2> HIDE DEF here
  <2> QED
    BY <1>0, <1>7
<1> HIDE DEF g
<1>10. g[L + 1] = db
  <2>1. L + 1 \in p + 1 .. L + 1
    BY <1>0, <1>7
  <2>2. f[L + 1] = db
    BY <1>8 DEF Reverses, L
  <2> QED
    BY <1>9, <2>1, <2>2
<1>11. ASSUME NEW i \in p .. L
       PROVE  g[i] = IF Of(db.log[i], s, n) THEN TryReverse(g[i + 1], db.log[i]) ELSE g[i + 1]
  <2>1. g[i + 1] = f[i + 1]
    <3>1. i + 1 \in p + 1 .. L + 1
      BY <1>0, <1>7
    <3> QED
      BY <1>9, <3>1
  <2>2. CASE i = p
    BY <1>9, <2>1, <2>2
  <2>3. CASE i # p
    <3>1. i \in p + 1 .. L /\ i \in p + 1 .. L + 1
      BY <1>0, <1>7, <2>3
    <3> QED
      BY <1>8, <1>9, <2>1, <3>1 DEF Reverses, L
  <2> QED
    BY <2>2, <2>3
<1>12. Reverses(g, s, n, p)
  BY <1>9, <1>10, <1>11 DEF Reverses, L
<1> QED
  BY <1>3, <1>6, <1>12 DEF CanReverseFrom

LEMMA ReversalIs ==
  ASSUME IsList(db.log), NEW s, NEW n
  PROVE  \E f : Reverses(f, s, n, 1) /\ ReverseAll(s, n) = f[1]
<1> DEFINE L == Len(db.log)
           Step(f) == [i \in 1 .. L + 1 |->
                         IF i = L + 1 THEN db
                         ELSE IF Of(db.log[i], s, n) THEN TryReverse(f[i + 1], db.log[i])
                         ELSE f[i + 1]]
           g == CHOOSE f : f = Step(f)
<1>0. L \in Nat
  BY Lists
<1>1. ReverseAll(s, n) = g[1]
  BY DEF ReverseAll
<1> HIDE DEF L
<1>2. PICK f : Reverses(f, s, n, 1)
  BY ReversalExists DEF CanReverseFrom
<1>3. f = Step(f)
  <2>1. f = [i \in 1 .. L + 1 |-> f[i]] /\ f[L + 1] = db
    BY <1>2 DEF Reverses, L
  <2>2. \A i \in 1 .. L + 1 :
          f[i] = IF i = L + 1 THEN db
                 ELSE IF Of(db.log[i], s, n) THEN TryReverse(f[i + 1], db.log[i])
                 ELSE f[i + 1]
    <3> TAKE i \in 1 .. L + 1
    <3>1. CASE i = L + 1
      BY <2>1, <3>1
    <3>2. CASE i # L + 1
      <4>1. i \in 1 .. L
        BY <1>0, <3>2
      <4> QED
        BY <1>2, <3>2, <4>1 DEF Reverses, L
    <3> QED
      BY <3>1, <3>2
  <2> QED
    BY <2>1, <2>2
<1>4. g = Step(g)
  BY <1>3
<1> HIDE DEF g
<1>5. /\ g = [i \in 1 .. L + 1 |-> g[i]]
      /\ \A i \in 1 .. L + 1 :
           g[i] = IF i = L + 1 THEN db
                  ELSE IF Of(db.log[i], s, n) THEN TryReverse(g[i + 1], db.log[i])
                  ELSE g[i + 1]
  BY <1>4
<1>6. g[L + 1] = db
  <2>1. L + 1 \in 1 .. L + 1
    BY <1>0
  <2> QED
    BY <1>5, <2>1
<1>7. ASSUME NEW i \in 1 .. L
      PROVE  g[i] = IF Of(db.log[i], s, n) THEN TryReverse(g[i + 1], db.log[i]) ELSE g[i + 1]
  <2>1. i \in 1 .. L + 1 /\ i # L + 1
    BY <1>0
  <2> QED
    BY <1>5, <2>1
<1>8. Reverses(g, s, n, 1)
  BY <1>5, <1>6, <1>7 DEF Reverses, L
<1> QED
  BY <1>1, <1>8

\* When a rollback does not fail, no record of it did.
LEMMA NoneFails ==
  ASSUME IsList(db.log), NEW s, NEW n, NEW f, Reverses(f, s, n, 1), f[1] # None
  PROVE  \A i \in 1 .. Len(db.log) + 1 : f[i] # None
<1> DEFINE Bad == {i \in 1 .. Len(db.log) + 1 : f[i] = None}
<1>0. Len(db.log) \in Nat /\ Bad \in SUBSET Nat
  BY Lists
<1>1. SUFFICES ASSUME Bad # {} PROVE FALSE
  OBVIOUS
<1>2. PICK i \in Bad : \A k \in Bad : i <= k
  <2> HIDE DEF Bad
  <2> QED
    BY <1>0, <1>1, Least
<1>3. i \in 2 .. Len(db.log) + 1 /\ i - 1 \notin Bad /\ f[i] = None
  BY <1>0, <1>2
<1>4. PICK j : j = i - 1
  OBVIOUS
<1>5. j \in 1 .. Len(db.log) /\ j + 1 = i /\ f[j] # None
  BY <1>0, <1>3, <1>4
<1>6. f[j] = IF Of(db.log[j], s, n) THEN TryReverse(f[j + 1], db.log[j]) ELSE f[j + 1]
  BY <1>5 DEF Reverses
<1> QED
  BY <1>3, <1>5, <1>6 DEF TryReverse

\* Row i of table t becomes r, when it has a place.
LEMMA PutRow ==
  ASSUME NEW d, Shape(d), NEW t, NEW i, NEW r
  PROVE  /\ Shape(Put(d, t, i, r))
         /\ \A u \in Tables : DOMAIN Put(d, t, i, r).rows[u] = DOMAIN d.rows[u]
         /\ \A e \in Places :
              Row(Put(d, t, i, r).rows, e) = IF e[1] = t /\ e[2] = i /\ i \in DOMAIN d.rows[t]
                                             THEN r ELSE Row(d.rows, e)
<1>1. PICK c : c = Put(d, t, i, r)
  OBVIOUS
<1>2. Shape(c) /\ \A u \in Tables \ {t} : c.rows[u] = d.rows[u]
  BY <1>1 DEF Put, Shape
<1>3. t \in Tables => c.rows[t] = [d.rows[t] EXCEPT ![i] = r]
  BY <1>1 DEF Put, Shape
<1>4. \A u \in Tables : DOMAIN c.rows[u] = DOMAIN d.rows[u]
  BY <1>2, <1>3
<1>5. ASSUME NEW e \in Places
      PROVE  Row(c.rows, e) = IF e[1] = t /\ e[2] = i /\ i \in DOMAIN d.rows[t]
                              THEN r ELSE Row(d.rows, e)
  <2>1. PICK u, k : e = <<u, k>> /\ u \in Tables /\ e[1] = u /\ e[2] = k
    BY DEF Places
  <2>2. CASE u # t
    BY <1>2, <2>1, <2>2 DEF Row
  <2>3. CASE u = t
    BY <1>3, <2>1, <2>3 DEF Row
  <2> QED
    BY <2>2, <2>3
<1> QED
  BY <1>1, <1>2, <1>4, <1>5

\* Reversing a record of row e gives the row that it tells of.
LEMMA OneReversed ==
  ASSUME NEW d, Shape(d), NEW r, NEW e \in Places, d # None, TryReverse(d, r) # None
  PROVE  LET c == TryReverse(d, r)
         IN  /\ Shape(c) /\ \A u \in Tables : DOMAIN c.rows[u] = DOMAIN d.rows[u]
             /\ ~RowOf(r, e) => Row(c.rows, e) = Row(d.rows, e)
             /\ /\ RowOf(r, e)
                /\ r.kind = "update" => Row(d.rows, e) # None
                /\ r.kind \notin {"create", "update"} => r.id \in DOMAIN d.rows[r.table]
                => Row(c.rows, e) = Before(r)
<1>1. TryReverse(d, r) = reverseOne(d, r)
  BY DEF TryReverse
<1>2. PICK t, i : t = r.table /\ i = r.id
  OBVIOUS
<1>3. CASE r.kind = "create"
  <2>1. TryReverse(d, r) = Put(d, t, i, None)
    BY <1>1, <1>2, <1>3 DEF reverseOne
  <2>2. RowOf(r, e) => Row(Put(d, t, i, None).rows, e) = None
    BY <1>2, PutRow DEF RowOf, Row
  <2> QED
    BY <1>2, <1>3, <2>1, <2>2, PutRow DEF RowOf, Before
<1>4. CASE r.kind = "update"
  <2>1. TryReverse(d, r) = IF Has(d, t, i) THEN Put(d, t, i, r.old) ELSE d
    BY <1>1, <1>2, <1>4 DEF reverseOne
  <2>2. RowOf(r, e) /\ Row(d.rows, e) # None => Has(d, t, i) /\ i \in DOMAIN d.rows[t]
    BY <1>2 DEF RowOf, Row, Has, Ids
  <2>3. Before(r) = r.old
    BY <1>4 DEF Before
  <2>4. CASE Has(d, t, i)
    BY <1>2, <1>4, <2>1, <2>2, <2>3, <2>4, PutRow DEF RowOf
  <2>5. CASE ~Has(d, t, i)
    BY <1>4, <2>1, <2>2, <2>5
  <2> QED
    BY <2>4, <2>5
<1>5. CASE r.kind \notin {"create", "update"}
  <2>1. TryReverse(d, r) = Put(d, t, i, r.old) /\ Before(r) = r.old
    BY <1>1, <1>2, <1>5 DEF reverseOne, Before
  <2> QED
    BY <1>2, <1>5, <2>1, PutRow DEF RowOf
<1> QED
  BY <1>3, <1>4, <1>5

\* The row that Was tells of is one.
LEMMA WasOnce ==
  ASSUME Listed(db, turn), NEW s, NEW n, NEW e, NEW k \in Nat, NEW u, NEW v,
         Was(db, s, n, e, k, u), Was(db, s, n, e, k, v)
  PROVE  u = v
<1>1. Takes(db, s, n, e) \subseteq Nat
  BY Lists DEF Takes, Listed
<1> QED
  BY <1>1 DEF Was

LEMMA WasEarlier ==
  ASSUME Listed(db, turn), NEW s, NEW n, NEW e, NEW k \in Nat, NEW v,
         k \notin Takes(db, s, n, e), Was(db, s, n, e, k + 1, v)
  PROVE  Was(db, s, n, e, k, v)
<1>1. Takes(db, s, n, e) \subseteq Nat
  BY Lists DEF Takes, Listed
<1>2. \A i \in Takes(db, s, n, e) : k <= i <=> k + 1 <= i
  BY <1>1
<1>3. \A i \in Takes(db, s, n, e) : i < k <=> i < k + 1
  BY <1>1
<1> QED
  BY <1>2, <1>3 DEF Was

\* Down to any record, a row that its records lead back is what they say.
LEMMA ReversedTo ==
  ASSUME Listed(db, turn), NEW s \in Sessions, NEW n, NEW f, Reverses(f, s, n, 1), f[1] # None,
         NEW e \in Places, NEW v, Leads(db, s, n, e, v)
  PROVE  /\ Shape(f[1]) /\ Row(f[1].rows, e) = v
<1> DEFINE L == Len(db.log)
           OK(i) == /\ Shape(f[i]) /\ \A u \in Tables : DOMAIN f[i].rows[u] = DOMAIN db.rows[u]
                    /\ Was(db, s, n, e, i, Row(f[i].rows, e))
           Bad == {m \in 0 .. L : ~ OK(L + 1 - m)}
<1>0. L \in Nat /\ Bad \in SUBSET Nat /\ DOMAIN db.log = 1 .. L /\ IsList(db.log)
  BY Lists DEF Listed
<1>1. \A i \in 1 .. L + 1 : f[i] # None
  BY <1>0, NoneFails
<1> HIDE DEF L
<1>2. OK(L + 1)
  <2>1. f[L + 1] = db
    BY DEF Reverses, L
  <2>2. \A i \in Takes(db, s, n, e) : i < L + 1
    BY <1>0 DEF Takes
  <2>3. Was(db, s, n, e, L + 1, Row(db.rows, e))
    BY <2>2 DEF Was
  <2> QED
    BY <2>1, <2>3 DEF Listed
<1>3. ASSUME NEW i \in 1 .. L, OK(i + 1) PROVE OK(i)
  <2>0. PICK r, d : r = db.log[i] /\ d = f[i + 1]
    OBVIOUS
  <2>1. f[i] = IF Of(r, s, n) THEN TryReverse(d, r) ELSE d
    BY <2>0 DEF Reverses, L
  <2>2. Recorded(r, db, turn) /\ (Of(r, s, n) <=> Undoes(r, s, n))
    BY <1>0, <2>0 DEF Listed, Recorded, Of, Undoes
  <2>3. f[i] # None /\ d # None
    BY <1>0, <1>1, <2>0
  <2>4. /\ Shape(d) /\ \A u \in Tables : DOMAIN d.rows[u] = DOMAIN db.rows[u]
        /\ Was(db, s, n, e, i + 1, Row(d.rows, e))
    BY <1>3, <2>0
  <2>5. CASE ~Of(r, s, n)
    <3>1. i \notin Takes(db, s, n, e)
      BY <2>0, <2>2, <2>5 DEF Takes
    <3> QED
      BY <2>1, <2>4, <2>5, <3>1, WasEarlier
  <2>6. CASE Of(r, s, n)
    <3>1. f[i] = TryReverse(d, r)
      BY <2>1, <2>6
    <3>2. /\ Shape(f[i]) /\ \A u \in Tables : DOMAIN f[i].rows[u] = DOMAIN d.rows[u]
          /\ ~RowOf(r, e) => Row(f[i].rows, e) = Row(d.rows, e)
          /\ /\ RowOf(r, e)
             /\ r.kind = "update" => Row(d.rows, e) # None
             /\ r.kind \notin {"create", "update"} => r.id \in DOMAIN d.rows[r.table]
             => Row(f[i].rows, e) = Before(r)
      BY <2>3, <2>4, <3>1, OneReversed
    <3>3. CASE ~RowOf(r, e)
      <4>1. i \notin Takes(db, s, n, e)
        BY <2>0, <3>3 DEF Takes
      <4> QED
        BY <2>4, <3>2, <3>3, <4>1, WasEarlier
    <3>4. CASE RowOf(r, e)
      <4>1. i \in Takes(db, s, n, e)
        BY <1>0, <2>0, <2>2, <2>6, <3>4 DEF Takes
      <4>2. r.kind = "update" => Row(d.rows, e) # None
        BY <2>0, <2>4, <4>1 DEF Leads
      <4>3. r.table \in Tables
        BY <3>4 DEF RowOf, Places
      <4>4. r.kind \notin {"create", "update"} => r.id \in DOMAIN d.rows[r.table]
        BY <2>2, <2>4, <4>3 DEF Recorded
      <4>5. Row(f[i].rows, e) = Before(r)
        BY <3>2, <3>4, <4>2, <4>4
      <4>6. Was(db, s, n, e, i, Before(r))
        BY <2>0, <4>1 DEF Was
      <4> QED
        BY <2>4, <3>2, <4>5, <4>6
    <3> QED
      BY <3>3, <3>4
  <2> QED
    BY <2>5, <2>6
<1> HIDE DEF OK
<1>4. Bad = {}
  <2> SUFFICES ASSUME Bad # {} PROVE FALSE
    OBVIOUS
  <2>1. PICK m \in Bad : \A k \in Bad : m <= k
    <3> HIDE DEF Bad
    <3> QED
      BY <1>0, Least
  <2>2. m \in 0 .. L /\ ~OK(L + 1 - m)
    BY <2>1
  <2>3. m # 0
    BY <1>0, <1>2, <2>2
  <2>4. m - 1 \in 0 .. L /\ m - 1 \notin Bad
    BY <1>0, <2>1, <2>2, <2>3
  <2>5. PICK i : i = L + 1 - m
    OBVIOUS
  <2>6. i \in 1 .. L /\ L + 1 - (m - 1) = i + 1
    BY <1>0, <2>2, <2>3, <2>5
  <2>7. OK(i + 1)
    BY <2>4, <2>6
  <2> QED
    BY <1>3, <2>2, <2>5, <2>6, <2>7
<1>5. OK(1)
  <2>1. L \in 0 .. L /\ L + 1 - L = 1
    BY <1>0
  <2> QED
    BY <1>4, <2>1
<1>6. Was(db, s, n, e, 1, Row(f[1].rows, e)) /\ Was(db, s, n, e, 1, v) /\ Shape(f[1])
  BY <1>5 DEF OK, Leads
<1> QED
  BY <1>6, WasOnce

LEMMA RollbackLogged ==
  ASSUME StoryInv, LogInv, NEW s \in Sessions, NEW n, RollbackInTx(s, n)
  PROVE  LogInv'
<1>1. /\ n \in 1 .. turn[s] /\ hist.undone = None /\ UNCHANGED turn
      /\ ReverseAll(s, n) # None /\ db' = Forgotten(ReverseAll(s, n), s, n)
      /\ hist' = [hist EXCEPT !.undone = [sess |-> s, turn |-> n]]
  BY DEF RollbackInTx
<1>2. /\ Listed(db, turn) /\ Leading(db, turn, hist) /\ Marked(turn, hist)
      /\ turn \in [Sessions -> Nat] /\ n \in Nat
  BY <1>1 DEF LogInv, Marked
<1>3. [sess |-> s, turn |-> n] # None
  BY <1>2, StoryAssumption
<1>4. /\ hist'.undone = [sess |-> s, turn |-> n] /\ hist'.undone # None
      /\ hist'.touches = hist.touches /\ hist'.marks = hist.marks
  BY <1>1, <1>3 DEF StoryInv, Histories
<1>5. PICK f : Reverses(f, s, n, 1) /\ ReverseAll(s, n) = f[1]
  BY <1>2, ReversalIs DEF Listed
<1>6. ASSUME NEW e \in {x.row : x \in hist.touches}, Alone(hist, s, n, e)
      PROVE  Row(db'.rows, e) = Row(hist.marks[s][n], e)
  <2>1. e \in Places
    BY <1>2 DEF Marked
  <2>2. Leads(db, s, n, e, Row(hist.marks[s][n], e))
    BY <1>1, <1>2, <1>6, <2>1 DEF Leading
  <2>3. Shape(f[1]) /\ Row(f[1].rows, e) = Row(hist.marks[s][n], e)
    BY <1>1, <1>2, <1>5, <2>1, <2>2, ReversedTo
  <2>4. db'.rows = f[1].rows
    <3>1. PICK log : db' = [f[1] EXCEPT !.log = log]
      BY <1>1, <1>5 DEF Forgotten
    <3> QED
      BY <2>3, <3>1 DEF Shape
  <2> QED
    BY <2>3, <2>4
<1>7. LoggedTurnUndone'
  <2> SUFFICES ASSUME NEW e \in {x.row : x \in hist.touches},
                      \A x \in TouchesSince(s, n, e)' : x.logged /\ Undoes(x, s, n)
               PROVE  Row(db'.rows, e) = Row(hist'.marks[s][n], e)
    BY <1>4 DEF LoggedTurnUndone
  <2>1. Alone(hist, s, n, e)
    BY <1>4 DEF Alone, TouchesSince
  <2> QED
    BY <1>4, <1>6, <2>1
<1>8. Marked(turn', hist')
  BY <1>1, <1>2, <1>4 DEF Marked
<1> QED
  BY <1>1, <1>4, <1>7, <1>8 DEF LogInv

-----------------------------------------------------------------------------
(* The records of each statement.                                          *)

LEMMA ListJoin ==
  ASSUME NEW f, IsList(f), NEW g, IsList(g)
  PROVE  /\ IsList(f \o g) /\ Len(f \o g) = Len(f) + Len(g)
         /\ \A k \in 1 .. Len(f) : (f \o g)[k] = f[k]
         /\ \A k \in 1 .. Len(g) : (f \o g)[Len(f) + k] = g[k]
<1> DEFINE S == Range(f) \cup Range(g)
<1>1. f \in Seq(S) /\ g \in Seq(S)
  <2>1. \A A, B : A \subseteq B => Seq(A) \subseteq Seq(B)
    OBVIOUS
  <2> QED
    BY <2>1 DEF IsList
<1> HIDE DEF S
<1>2. PICK h : h = f \o g
  OBVIOUS
<1>3. /\ h \in Seq(S) /\ Len(f) \in Nat /\ Len(g) \in Nat /\ Len(h) = Len(f) + Len(g)
      /\ \A k \in 1 .. Len(f) : h[k] = f[k]
      /\ \A k \in 1 .. Len(g) : h[Len(f) + k] = g[k]
  BY <1>1, <1>2
<1>4. h = [k \in 1 .. Len(f) + Len(g) |-> h[k]]
  <2>1. \A q \in Seq(S) : q = [k \in 1 .. Len(q) |-> q[k]]
    OBVIOUS
  <2> QED
    BY <1>3, <2>1
<1>5. IsList(h)
  BY <1>3, <1>4, ListOf
<1> QED
  BY <1>2, <1>3, <1>5

\* The tables of c are lists that hold at least the places of db.
Follows(c) ==
  /\ Shape(c)
  /\ \A t \in Tables : IsList(c.rows[t]) /\ DOMAIN db.rows[t] \subseteq DOMAIN c.rows[t]

Credited(by) == by.turn \in Nat /\ (by.sess \in Sessions => by.turn <= turn[by.sess])

\* Record r of a statement that makes d.
Told(d, r) ==
  /\ Credited(r.by)
  /\ r.kind \notin {"create", "update"} /\ r.table \in Tables => r.id \in DOMAIN d.rows[r.table]
  /\ \A e \in Places : RowOf(r, e) =>
       /\ Before(r) = Row(db.rows, e)
       /\ r.kind = "update" => Row(d.rows, e) # None

Alike(r, q) == r.table = q.table /\ r.id = q.id

LEMMA RecordsTraced ==
  ASSUME Listed(db, turn), NEW d, Follows(d), NEW recs, IsList(recs),
         d.log = db.log \o recs,
         \A n \in 1 .. Len(recs) : Told(d, recs[n]),
         \A n, m \in 1 .. Len(recs) :
           recs[n].table \in Tables /\ Alike(recs[n], recs[m]) => n = m
  PROVE  Traced(d)
<1> DEFINE L == Len(db.log)
<1>1. /\ L \in Nat /\ DOMAIN db.log = 1 .. L /\ Len(recs) \in Nat
      /\ IsList(d.log) /\ Len(d.log) = L + Len(recs) /\ DOMAIN d.log = 1 .. L + Len(recs)
      /\ \A k \in 1 .. L : d.log[k] = db.log[k]
      /\ \A k \in 1 .. Len(recs) : d.log[L + k] = recs[k]
  <2>1. IsList(db.log)
    BY DEF Listed
  <2>2. /\ IsList(d.log) /\ Len(d.log) = L + Len(recs)
        /\ \A k \in 1 .. L : d.log[k] = db.log[k]
        /\ \A k \in 1 .. Len(recs) : d.log[L + k] = recs[k]
    BY <2>1, ListJoin
  <2>3. /\ L \in Nat /\ DOMAIN db.log = 1 .. L /\ Len(recs) \in Nat
        /\ DOMAIN d.log = 1 .. Len(d.log)
    BY <2>1, <2>2, Lists
  <2> QED
    BY <2>2, <2>3
<1>2. \A k \in L + 1 .. L + Len(recs) : k - L \in 1 .. Len(recs) /\ d.log[k] = recs[k - L]
  <2> SUFFICES ASSUME NEW k \in L + 1 .. L + Len(recs)
               PROVE  k - L \in 1 .. Len(recs) /\ d.log[k] = recs[k - L]
    OBVIOUS
  <2> HIDE DEF L
  <2>1. k - L \in 1 .. Len(recs) /\ L + (k - L) = k
    BY <1>1
  <2> QED
    BY <1>1, <2>1
<1> HIDE DEF L
<1>3. ASSUME NEW k \in DOMAIN d.log PROVE Recorded(d.log[k], d, turn)
  <2>1. CASE k \in 1 .. L
    <3>1. Recorded(db.log[k], db, turn)
      BY <1>1, <2>1 DEF Listed
    <3> QED
      BY <1>1, <2>1, <3>1 DEF Recorded, Follows
  <2>2. CASE k \in L + 1 .. L + Len(recs)
    BY <1>2, <2>2 DEF Told, Credited, Recorded
  <2> QED
    BY <1>1, <2>1, <2>2
<1>4. Listed(d, turn)
  BY <1>1, <1>3 DEF Listed, Follows
<1>5. ASSUME NEW e \in Places, NEW k \in News(d, e)
      PROVE  Tells(d, e, k) /\ \A j \in News(d, e) : j = k
  <2>1. k \in L + 1 .. L + Len(recs) /\ RowOf(d.log[k], e)
    BY <1>1, <1>5 DEF News, L
  <2>2. Tells(d, e, k)
    BY <1>2, <2>1 DEF Told, Tells
  <2>3. ASSUME NEW j \in News(d, e) PROVE j = k
    <3>1. j \in L + 1 .. L + Len(recs) /\ RowOf(d.log[j], e)
      BY <1>1, <2>3 DEF News, L
    <3>2. Alike(recs[j - L], recs[k - L]) /\ recs[j - L].table \in Tables
      BY <1>2, <2>1, <3>1 DEF RowOf, Alike, Places
    <3>3. j - L = k - L
      BY <1>2, <2>1, <3>1, <3>2
    <3> QED
      BY <1>1, <2>1, <3>1, <3>3
  <2> QED
    BY <2>2, <2>3
<1>6. L <= L + Len(recs)
  BY <1>1
<1> QED
  BY <1>1, <1>4, <1>5, <1>6 DEF Traced, Follows, L

LEMMA OneTraced ==
  ASSUME Listed(db, turn), NEW c, Follows(c), c.log = db.log, NEW r, Told(c, r),
         NEW d, d = [c EXCEPT !.log = Append(@, r)]
  PROVE  Traced(d)
<1>1. IsList(<<r>>) /\ Len(<<r>>) = 1 /\ <<r>>[1] = r
  <2>1. <<r>> \in Seq({r}) /\ Len(<<r>>) = 1 /\ <<r>>[1] = r
    OBVIOUS
  <2>2. <<r>> = [k \in 1 .. 1 |-> <<r>>[k]]
    OBVIOUS
  <2> QED
    BY <2>1, <2>2, ListOf
<1>2. Shape(d) /\ d.rows = c.rows /\ d.log = Append(db.log, r)
  BY DEF Follows, Shape
<1>3. d.log = db.log \o <<r>>
  <2>1. db.log \in Seq(Range(db.log) \cup {r})
    <3>1. \A A, B : A \subseteq B => Seq(A) \subseteq Seq(B)
      OBVIOUS
    <3> QED
      BY <3>1 DEF Listed, IsList
  <2>2. \A S : \A q \in Seq(S) : \A x \in S : Append(q, x) = q \o <<x>>
    OBVIOUS
  <2> QED
    BY <1>2, <2>1, <2>2
<1>4. Follows(d) /\ Told(d, r)
  BY <1>2 DEF Follows, Told
<1>5. \A n \in 1 .. Len(<<r>>) : <<r>>[n] = r /\ n = 1
  BY <1>1
<1> QED
  BY <1>1, <1>3, <1>4, <1>5, RecordsTraced

LEMMA SilentTraced ==
  ASSUME Listed(db, turn), NEW d, Follows(d), d.log = db.log
  PROVE  Traced(d)
<1>1. Len(db.log) \in Nat /\ DOMAIN db.log = 1 .. Len(db.log)
  BY Lists DEF Listed
<1>2. Len(db.log) <= Len(d.log) /\ Len(db.log) + 1 .. Len(d.log) = {}
  BY <1>1
<1>3. \A k \in DOMAIN d.log : Recorded(d.log[k], d, turn)
  BY DEF Listed, Recorded, Follows
<1> QED
  BY <1>2, <1>3 DEF Traced, Listed, Follows, News

LEMMA FollowsItself ==
  ASSUME Listed(db, turn)
  PROVE  Follows(db)
BY DEF Listed, Follows

LEMMA CreditIs ==
  ASSUME Listed(db, turn), turn \in [Sessions -> Nat], NEW c, c.log = db.log,
         NEW a \in Actors, NEW t, NEW i
  PROVE  Credited(Credit(c, a, t, i))
<1>1. CASE a # User
  <2>1. a \in Sessions /\ turn[a] \in Nat
    BY <1>1 DEF Actors
  <2> QED
    BY <1>1, <2>1 DEF Credit, Credited
<1>2. CASE a = User
  <2> DEFINE S == {k \in 1 .. Len(db.log) : db.log[k].table = t /\ db.log[k].id = i}
             last == IF S # {} THEN Max(S) ELSE 0
  <2>1. Credit(c, a, t, i) = IF last = 0 THEN Nobody ELSE db.log[last].by
    BY <1>2 DEF Credit, resolveTurnForEntity, SelectLastInSubSeq
  <2>2. CASE S = {}
    <3>1. Credit(c, a, t, i) = Nobody
      BY <2>1, <2>2
    <3>2. Credited(Nobody)
      BY OperationLogAssumption DEF Nobody, Credited
    <3> QED
      BY <3>1, <3>2
  <2>3. CASE S # {}
    <3>1. Len(db.log) \in Nat /\ DOMAIN db.log = 1 .. Len(db.log)
      BY Lists DEF Listed
    <3>2. S \in SUBSET Nat /\ \A x \in S : x <= Len(db.log)
      BY <3>1
    <3>3. Max(S) \in S
      <4> HIDE DEF S
      <4> QED
        BY <2>3, <3>1, <3>2, LastOf
    <3>4. last \in DOMAIN db.log /\ last # 0
      BY <2>3, <3>1, <3>3
    <3>5. Recorded(db.log[last], db, turn)
      BY <3>4 DEF Listed
    <3> QED
      BY <2>1, <3>4, <3>5 DEF Recorded, Credited
  <2> QED
    BY <2>2, <2>3
<1> QED
  BY <1>1, <1>2

\* Row i of table t becomes r.
LEMMA PutFollows ==
  ASSUME NEW c, Follows(c), NEW t, NEW i, NEW r
  PROVE  Follows(Put(c, t, i, r)) /\ Put(c, t, i, r).log = c.log
<1>1. PICK d : d = Put(c, t, i, r)
  OBVIOUS
<1>2. Shape(d) /\ d.log = c.log /\ \A u \in Tables \ {t} : d.rows[u] = c.rows[u]
  BY <1>1 DEF Put, Shape, Follows
<1>3. t \in Tables => d.rows[t] = [c.rows[t] EXCEPT ![i] = r]
  BY <1>1 DEF Put, Shape, Follows
<1>4. t \in Tables => IsList(d.rows[t]) /\ DOMAIN d.rows[t] = DOMAIN c.rows[t]
  BY <1>3, ListExcept DEF Follows
<1>5. Follows(d)
  BY <1>2, <1>4 DEF Follows
<1> QED
  BY <1>1, <1>2, <1>5

LEMMA SaveTraced ==
  ASSUME Listed(db, turn), turn \in [Sessions -> Nat], NEW a \in Actors, NEW t, NEW i, NEW r,
         r # None
  PROVE  Traced(Save(db, a, t, i, r))
<1>1. Follows(db) /\ Shape(db)
  BY FollowsItself DEF Follows
<1> DEFINE c == Put(db, t, i, r)
           by == Credit(c, a, t, i)
           New(kind, old) == [by |-> by, kind |-> kind, table |-> t, id |-> i, old |-> old]
<1>2. Follows(c) /\ c.log = db.log
  BY <1>1, PutFollows
<1>3. Credited(by)
  BY <1>2, CreditIs
<1>4. \A e \in Places :
        Row(c.rows, e) = IF e[1] = t /\ e[2] = i /\ i \in DOMAIN db.rows[t]
                         THEN r ELSE Row(db.rows, e)
  BY <1>1, PutRow
<1>5. \A e \in Places : e[1] = t /\ e[2] = i =>
        Row(db.rows, e) = IF Has(db, t, i) THEN db.rows[t][i] ELSE None
  BY DEF Row, Has, Ids
<1>6. CASE ~Has(db, t, i)
  <2>1. Save(db, a, t, i, r) = [c EXCEPT !.log = Append(@, New("create", None))]
    BY <1>6 DEF Save, buildRecord
  <2> HIDE DEF c, by
  <2>2. Told(c, New("create", None))
    BY <1>3, <1>5, <1>6 DEF Told, Before, RowOf
  <2> QED
    BY <1>2, <2>1, <2>2, OneTraced
<1>7. CASE Has(db, t, i) /\ db.rows[t][i] = r
  BY <1>1, <1>7, SilentTraced DEF Save
<1>8. CASE Has(db, t, i) /\ db.rows[t][i] # r
  <2> DEFINE old == db.rows[t][i]
  <2>1. Save(db, a, t, i, r) = [c EXCEPT !.log = Append(@, New("update", old))]
    BY <1>8 DEF Save, buildRecord
  <2>2. i \in DOMAIN db.rows[t]
    BY <1>8 DEF Has, Ids
  <2> HIDE DEF c, by
  <2>3. Told(c, New("update", old))
    BY <1>3, <1>4, <1>5, <1>8, <2>2 DEF Told, Before, RowOf
  <2> QED
    BY <1>2, <2>1, <2>3, OneTraced
<1> QED
  BY <1>6, <1>7, <1>8

LEMMA DeleteTraced ==
  ASSUME Listed(db, turn), turn \in [Sessions -> Nat], NEW a \in Actors, NEW t, NEW i
  PROVE  Traced(Delete(db, a, t, i))
<1>1. Follows(db) /\ Shape(db)
  BY FollowsItself DEF Follows
<1> DEFINE c == Put(db, t, i, None)
           by == Credit(c, a, t, i)
           r  == [by |-> by, kind |-> "delete", table |-> t, id |-> i, old |-> db.rows[t][i]]
<1>2. Follows(c) /\ c.log = db.log
  BY <1>1, PutFollows
<1>3. Credited(by)
  BY <1>2, CreditIs
<1>4. CASE ~Has(db, t, i)
  BY <1>1, <1>4, SilentTraced DEF Delete
<1>5. CASE Has(db, t, i)
  <2>1. Delete(db, a, t, i) = [c EXCEPT !.log = Append(@, r)]
    BY <1>5 DEF Delete, buildRecord
  <2>2. i \in DOMAIN db.rows[t] /\ (t \in Tables => DOMAIN db.rows[t] \subseteq DOMAIN c.rows[t])
    BY <1>2, <1>5 DEF Has, Ids, Follows
  <2>3. \A e \in Places : e[1] = t /\ e[2] = i => Row(db.rows, e) = db.rows[t][i]
    BY <2>2 DEF Row
  <2> HIDE DEF c, by
  <2>4. Told(c, r)
    BY <1>3, <2>2, <2>3 DEF Told, Before, RowOf
  <2> HIDE DEF r
  <2> QED
    BY <1>2, <2>1, <2>4, OneTraced
<1> QED
  BY <1>4, <1>5

\* The new row of a table.
LEMMA AppendFollows ==
  ASSUME NEW c, Follows(c), NEW t, NEW r, NEW d,
         d = [c EXCEPT !.rows[t] = Append(c.rows[t], r)]
  PROVE  /\ Follows(d) /\ d.log = c.log
         /\ t \in Tables => Len(c.rows[t]) + 1 \notin DOMAIN c.rows[t]
<1>1. Shape(d) /\ d.log = c.log /\ \A u \in Tables \ {t} : d.rows[u] = c.rows[u]
  BY DEF Shape, Follows
<1>2. t \in Tables => d.rows[t] = Append(c.rows[t], r)
  BY DEF Shape, Follows
<1>3. ASSUME t \in Tables
      PROVE  /\ IsList(d.rows[t]) /\ DOMAIN c.rows[t] \subseteq DOMAIN d.rows[t]
             /\ Len(c.rows[t]) + 1 \notin DOMAIN c.rows[t]
  <2>1. /\ IsList(c.rows[t]) /\ IsList(d.rows[t]) /\ Len(d.rows[t]) = Len(c.rows[t]) + 1
    BY <1>2, <1>3, ListMore DEF Follows
  <2>2. /\ Len(c.rows[t]) \in Nat /\ DOMAIN c.rows[t] = 1 .. Len(c.rows[t])
        /\ DOMAIN d.rows[t] = 1 .. Len(c.rows[t]) + 1
    BY <2>1, Lists
  <2> QED
    BY <2>1, <2>2
<1> QED
  BY <1>1, <1>3 DEF Follows

LEMMA CreateTraced ==
  ASSUME Listed(db, turn), turn \in [Sessions -> Nat], NEW a \in Actors, NEW t, NEW r,
         NEW c, Follows(c), c.log = db.log
  PROVE  Traced(Create(c, a, t, r))
<1> DEFINE i == Len(c.rows[t]) + 1
           b == [c EXCEPT !.rows[t] = Append(c.rows[t], r)]
           by == Credit(b, a, t, i)
           new == [by |-> by, kind |-> "create", table |-> t, id |-> i, old |-> None]
<1>1. Create(c, a, t, r) = [b EXCEPT !.log = Append(@, new)]
  BY DEF Create, buildRecord
<1>2. Follows(b) /\ b.log = db.log /\ (t \in Tables => i \notin DOMAIN c.rows[t])
  <2>1. PICK d : d = [c EXCEPT !.rows[t] = Append(c.rows[t], r)]
    OBVIOUS
  <2> HIDE DEF b, by, i, new
  <2>2. Follows(d)
    BY <2>1, AppendFollows
  <2>3. d.log = c.log
    BY <2>1, AppendFollows
  <2>4. t \in Tables => Len(c.rows[t]) + 1 \notin DOMAIN c.rows[t]
    BY <2>1, AppendFollows
  <2> QED
    BY <2>1, <2>2, <2>3, <2>4 DEF b, i
<1>3. Credited(by)
  BY <1>2, CreditIs
<1>4. \A e \in Places : e[1] = t /\ e[2] = i => Row(db.rows, e) = None
  BY <1>2 DEF Places, Row, Follows
<1> HIDE DEF b, by, i
<1>5. Told(b, new)
  BY <1>3, <1>4 DEF Told, Before, RowOf
<1> HIDE DEF new
<1> QED
  BY <1>1, <1>2, <1>5, OneTraced

\* Rows of a table are written or go, without a record.
LEMMA RefilledFollows ==
  ASSUME NEW c, Follows(c), NEW t, NEW g, NEW d,
         d = [c EXCEPT !.rows[t] = [i \in DOMAIN c.rows[t] |-> g[i]]]
  PROVE  Follows(d) /\ d.log = c.log
<1> DEFINE f == [i \in DOMAIN c.rows[t] |-> g[i]]
<1>0. DOMAIN f = DOMAIN c.rows[t] /\ f = [i \in DOMAIN c.rows[t] |-> f[i]]
  OBVIOUS
<1> HIDE DEF f
<1>1. Shape(d) /\ d.log = c.log /\ \A u \in Tables \ {t} : d.rows[u] = c.rows[u]
  BY DEF Shape, Follows, f
<1>2. t \in Tables => d.rows[t] = f
  BY DEF Shape, Follows, f
<1>3. t \in Tables => IsList(f)
  <2> SUFFICES ASSUME t \in Tables PROVE IsList(f)
    OBVIOUS
  <2>1. Len(c.rows[t]) \in Nat /\ DOMAIN c.rows[t] = 1 .. Len(c.rows[t])
    BY Lists DEF Follows
  <2> QED
    BY <1>0, <2>1, ListOf
<1> QED
  BY <1>0, <1>1, <1>2, <1>3 DEF Follows

LEMMA DeleteWhereFollows ==
  ASSUME NEW c, Follows(c), NEW t, NEW ids
  PROVE  Follows(DeleteWhere(c, t, ids)) /\ DeleteWhere(c, t, ids).log = c.log
<1> DEFINE g == [i \in DOMAIN c.rows[t] |->
                   IF i \in ids /\ c.rows[t][i] # None THEN None ELSE c.rows[t][i]]
<1>1. DeleteWhere(c, t, ids) = [c EXCEPT !.rows[t] = [i \in DOMAIN c.rows[t] |-> g[i]]]
  BY DEF DeleteWhere, Updates
<1> HIDE DEF g
<1> QED
  BY <1>1, RefilledFollows

LEMMA CreateAllTraced ==
  ASSUME Listed(db, turn), turn \in [Sessions -> Nat], NEW a \in Actors, NEW t,
         NEW rows, IsList(rows)
  PROVE  Traced(CreateAll(db, a, t, rows))
<1> DEFINE L == Len(db.rows[t])
           Logged(n) == [by |-> Credit(db, a, t, L + n), kind |-> "create",
                         table |-> t, id |-> L + n, old |-> None]
           recs == [n \in DOMAIN rows |-> Logged(n)]
           d == CreateAll(db, a, t, rows)
<1>1. d = [db EXCEPT !.rows[t] = @ \o rows, !.log = @ \o recs]
  BY DEF CreateAll
<1>2. Len(rows) \in Nat /\ DOMAIN rows = 1 .. Len(rows)
  BY Lists
<1>3. \A n \in 1 .. Len(rows) : recs[n] = Logged(n)
  BY <1>2
<1>4. recs = [n \in 1 .. Len(rows) |-> recs[n]]
  BY <1>2
<1> HIDE DEF recs, d
<1>5. IsList(recs) /\ Len(recs) = Len(rows)
  BY <1>2, <1>4, ListOf
<1>6. Follows(db) /\ Shape(db)
  BY FollowsItself DEF Follows
<1>7. /\ Shape(d) /\ d.log = db.log \o recs
      /\ \A u \in Tables \ {t} : d.rows[u] = db.rows[u]
  BY <1>1, <1>6 DEF Shape
<1>8. t \in Tables => d.rows[t] = db.rows[t] \o rows
  BY <1>1, <1>6 DEF Shape
<1>9. ASSUME t \in Tables
      PROVE  /\ L \in Nat /\ DOMAIN db.rows[t] = 1 .. L /\ IsList(d.rows[t])
             /\ DOMAIN db.rows[t] \subseteq DOMAIN d.rows[t]
  <2>1. IsList(db.rows[t])
    BY <1>6, <1>9 DEF Follows
  <2>2. IsList(d.rows[t]) /\ Len(d.rows[t]) = L + Len(rows)
    <3>1. PICK f : f = db.rows[t]
      OBVIOUS
    <3>2. IsList(f) /\ Len(f) = L /\ d.rows[t] = f \o rows
      BY <1>8, <1>9, <2>1, <3>1
    <3> HIDE DEF L
    <3>3. IsList(f \o rows) /\ Len(f \o rows) = Len(f) + Len(rows)
      BY <3>2, ListJoin
    <3> QED
      BY <3>2, <3>3
  <2>3. L \in Nat /\ DOMAIN db.rows[t] = 1 .. L /\ DOMAIN d.rows[t] = 1 .. L + Len(rows)
    BY <2>1, <2>2, Lists
  <2> QED
    BY <1>2, <2>2, <2>3
<1>10. Follows(d)
  BY <1>6, <1>7, <1>9 DEF Follows
<1>11. ASSUME NEW n \in 1 .. Len(recs) PROVE Told(d, recs[n])
  <2>1. PICK by : by = Credit(db, a, t, L + n)
    OBVIOUS
  <2>2. Credited(by)
    BY <2>1, CreditIs
  <2>3. recs[n] = [by |-> by, kind |-> "create", table |-> t, id |-> L + n, old |-> None]
    BY <1>3, <1>5, <2>1
  <2>4. \A e \in Places : e[1] = t /\ e[2] = L + n => Row(db.rows, e) = None
    <3> SUFFICES ASSUME NEW e \in Places, e[1] = t, e[2] = L + n PROVE Row(db.rows, e) = None
      OBVIOUS
    <3>1. t \in Tables
      BY DEF Places
    <3>2. L + n \notin DOMAIN db.rows[t]
      BY <1>2, <1>5, <1>9, <3>1
    <3> QED
      BY <3>2 DEF Row
  <2> QED
    BY <2>2, <2>3, <2>4 DEF Told, Before, RowOf
<1>12. ASSUME NEW n \in 1 .. Len(recs), NEW m \in 1 .. Len(recs),
              recs[n].table \in Tables, Alike(recs[n], recs[m])
       PROVE  n = m
  <2>1. ASSUME NEW k \in 1 .. Len(recs) PROVE recs[k].id = L + k /\ recs[k].table = t
    <3>1. PICK by : by = Credit(db, a, t, L + k)
      OBVIOUS
    <3>2. recs[k] = [by |-> by, kind |-> "create", table |-> t, id |-> L + k, old |-> None]
      BY <1>3, <1>5, <3>1
    <3> QED
      BY <3>2
  <2>2. recs[n].id = recs[m].id /\ L \in Nat
    BY <1>9, <1>12, <2>1 DEF Alike
  <2>3. L + n = L + m
    BY <2>1, <2>2
  <2> HIDE DEF L
  <2> QED
    BY <1>2, <1>5, <2>2, <2>3
<1> QED
  BY <1>5, <1>7, <1>10, <1>11, <1>12, RecordsTraced DEF d

LEMMA SetToSeqIs ==
  ASSUME NEW S, IsFiniteSet(S)
  PROVE  /\ IsList(SetToSeq(S))
         /\ \A n \in 1 .. Len(SetToSeq(S)) : SetToSeq(S)[n] \in S
         /\ \A n, m \in 1 .. Len(SetToSeq(S)) : SetToSeq(S)[n] = SetToSeq(S)[m] => n = m
<1>1. PICK f \in [1 .. Cardinality(S) -> S] : IsInjective(f)
  BY FS_CountingElements, FS_CardinalityType DEF ExistsBijection, Bijection, Injection
<1>2. SetToSeq(S) \in [1 .. Cardinality(S) -> S] /\ IsInjective(SetToSeq(S))
  BY <1>1 DEF SetToSeq
<1>3. PICK q : q = SetToSeq(S)
  OBVIOUS
<1>4. /\ q = [n \in 1 .. Cardinality(S) |-> q[n]] /\ Cardinality(S) \in Nat
      /\ DOMAIN q = 1 .. Cardinality(S)
      /\ \A n \in 1 .. Cardinality(S) : q[n] \in S
      /\ \A n, m \in 1 .. Cardinality(S) : q[n] = q[m] => n = m
  BY <1>2, <1>3, FS_CardinalityType DEF IsInjective
<1>5. IsList(q) /\ Len(q) = Cardinality(S)
  BY <1>4, ListOf
<1> QED
  BY <1>3, <1>4, <1>5

\* Several relations are retired, each with a record, and a row is put in.
LEMMA EvolveTraced ==
  ASSUME Listed(db, turn), turn \in [Sessions -> Nat], RowsTyped(db), NEW s \in Sessions,
         NEW i, NEW j, NEW r
  PROVE  Traced(Create(Retired(s, CurrentOf(db, i, j)), s, "character_relations", r))
<1> DEFINE t == "character_relations"
           ids == CurrentOf(db, i, j)
           order == SetToSeq(ids)
           by == [sess |-> s, turn |-> turn[s]]
           Logged(n) == [by |-> Credit(db, s, t, order[n]), kind |-> "update", table |-> t,
                         id |-> order[n], old |-> Relation(order[n])]
           recs == [n \in DOMAIN order |-> Logged(n)]
           b == Updates(db, t, ids, LAMBDA x : [x EXCEPT !.is_current = FALSE])
           c == Retired(s, ids)
           d == Create(c, s, t, r)
           new == [by |-> by, kind |-> "create", table |-> t, id |-> Len(c.rows[t]) + 1,
                   old |-> None]
<1>1. t \in EndTables /\ t \in Tables
  BY Tabled
<1>2. /\ IsFiniteSet(ids) /\ ids \subseteq DOMAIN db.rows[t]
      /\ \A k \in ids : db.rows[t][k] \in EndRows[t] /\ Has(db, t, k)
  <2>1. ids \subseteq Ids(db, t)
    BY DEF CurrentOf
  <2>2. /\ IsFiniteSet(Ids(db, t)) /\ \A k \in Ids(db, t) : db.rows[t][k] \in EndRows[t]
    BY <1>1, FewIds
  <2> QED
    BY <2>1, <2>2, FS_Subset DEF Has, Ids
<1>3. /\ IsList(order) /\ Len(order) \in Nat /\ DOMAIN order = 1 .. Len(order)
      /\ \A n \in 1 .. Len(order) : order[n] \in ids
      /\ \A n, m \in 1 .. Len(order) : order[n] = order[m] => n = m
  BY <1>2, SetToSeqIs, Lists
<1>4. s # User
  BY OperationLogAssumption
<1>5. \A n \in 1 .. Len(order) :
        recs[n] = [by |-> by, kind |-> "update", table |-> t, id |-> order[n],
                   old |-> db.rows[t][order[n]]]
  BY <1>3, <1>4 DEF Credit, Relation
<1>6. c = [b EXCEPT !.log = @ \o recs]
  BY DEF Retired
<1>7. b = [db EXCEPT !.rows[t] = [k \in DOMAIN db.rows[t] |->
             IF k \in ids /\ db.rows[t][k] # None
             THEN [db.rows[t][k] EXCEPT !.is_current = FALSE] ELSE db.rows[t][k]]]
  BY DEF Updates
<1>8. recs = [n \in 1 .. Len(order) |-> recs[n]]
  BY <1>3
<1> HIDE DEF recs, b, order, c, ids
<1>9. IsList(recs) /\ Len(recs) = Len(order)
  BY <1>3, <1>8, ListOf
<1>10. Follows(b) /\ b.log = db.log
  <2> DEFINE g == [k \in DOMAIN db.rows[t] |->
                     IF k \in ids /\ db.rows[t][k] # None
                     THEN [db.rows[t][k] EXCEPT !.is_current = FALSE] ELSE db.rows[t][k]]
  <2>1. b = [db EXCEPT !.rows[t] = [k \in DOMAIN db.rows[t] |-> g[k]]]
    BY <1>7
  <2> HIDE DEF g
  <2> QED
    BY <2>1, FollowsItself, RefilledFollows
<1>11. /\ Follows(c) /\ c.log = db.log \o recs /\ c.rows = b.rows
       /\ \A k \in ids : c.rows[t][k] = [db.rows[t][k] EXCEPT !.is_current = FALSE]
  <2>1. Shape(c) /\ c.log = db.log \o recs /\ c.rows = b.rows
    BY <1>6, <1>10 DEF Follows, Shape
  <2>2. Shape(db)
    BY DEF Listed
  <2>3. \A k \in ids : b.rows[t][k] = [db.rows[t][k] EXCEPT !.is_current = FALSE]
    BY <1>1, <1>2, <1>7, <2>2 DEF Shape, Has, Ids
  <2> QED
    BY <1>10, <2>1, <2>3 DEF Follows
<1> DEFINE e == [c EXCEPT !.rows[t] = Append(c.rows[t], r)]
<1>12. Credit(e, s, t, Len(c.rows[t]) + 1) = by
  BY <1>4 DEF Credit
<1>13. d = [e EXCEPT !.log = Append(@, new)]
  BY <1>12 DEF Create, buildRecord
<1> HIDE DEF by
<1>14. /\ Follows(e) /\ e.log = c.log /\ Len(c.rows[t]) + 1 \notin DOMAIN c.rows[t]
       /\ \A k \in ids : e.rows[t][k] = c.rows[t][k]
  <2>1. PICK x : x = e
    OBVIOUS
  <2>2. Follows(x)
    BY <1>11, <2>1, AppendFollows
  <2>3. x.log = c.log
    BY <1>11, <2>1, AppendFollows
  <2>4. Len(c.rows[t]) + 1 \notin DOMAIN c.rows[t]
    BY <1>1, <1>11, <2>1, AppendFollows
  <2>5. e.rows[t] = Append(c.rows[t], r)
    BY <1>1, <1>11 DEF Follows, Shape
  <2>6. \A k \in 1 .. Len(c.rows[t]) : e.rows[t][k] = c.rows[t][k]
    <3>1. PICK f : f = c.rows[t]
      OBVIOUS
    <3>2. IsList(f)
      BY <1>1, <1>11, <3>1 DEF Follows
    <3> QED
      BY <2>5, <3>1, <3>2, ListMore
  <2>7. ids \subseteq 1 .. Len(c.rows[t])
    <3>1. IsList(c.rows[t]) /\ DOMAIN db.rows[t] \subseteq DOMAIN c.rows[t]
      BY <1>1, <1>11 DEF Follows
    <3> QED
      BY <1>2, <3>1, Lists
  <2> QED
    BY <2>1, <2>2, <2>3, <2>4, <2>6, <2>7
<1> HIDE DEF new
<1>15. Shape(d) /\ d.rows = e.rows /\ d.log = Append(e.log, new)
  BY <1>13, <1>14 DEF Follows, Shape
<1>16. d.log = db.log \o Append(recs, new)
  <2> DEFINE S == Range(db.log) \cup Range(recs) \cup {new}
  <2>2. db.log \in Seq(S) /\ recs \in Seq(S) /\ new \in S
    BY <1>9, ListsGrow DEF Listed, IsList
  <2> HIDE DEF S
  <2>3. Append(db.log \o recs, new) = db.log \o Append(recs, new)
    <3>1. PICK T, p, q, x : T = S /\ p = db.log /\ q = recs /\ x = new
      OBVIOUS
    <3>2. p \in Seq(T) /\ q \in Seq(T) /\ x \in T
      BY <2>2, <3>1
    <3>3. Append(p \o q, x) = p \o Append(q, x)
      BY <3>2
    <3> QED
      BY <3>1, <3>3
  <2>4. d.log = Append(db.log \o recs, new)
    BY <1>11, <1>14, <1>15
  <2> HIDE DEF d
  <2> QED
    BY <2>3, <2>4
<1>17. /\ IsList(Append(recs, new)) /\ Len(Append(recs, new)) = Len(order) + 1
       /\ Append(recs, new)[Len(order) + 1] = new
       /\ \A n \in 1 .. Len(order) : Append(recs, new)[n] = recs[n]
  BY <1>9, ListMore
<1>18. Follows(d)
  BY <1>14, <1>15 DEF Follows
<1>19. Credited(by)
  BY DEF Credited, by
<1>20. Told(d, new)
  <2>1. \A p \in Places : p[1] = t /\ p[2] = Len(c.rows[t]) + 1 => Row(db.rows, p) = None
    <3>1. DOMAIN db.rows[t] \subseteq DOMAIN c.rows[t]
      BY <1>1, <1>11 DEF Follows
    <3> QED
      BY <1>14, <3>1 DEF Row
  <2> QED
    BY <1>19, <2>1 DEF Told, Before, RowOf, new
<1>21. ASSUME NEW n \in 1 .. Len(order) PROVE Told(d, recs[n])
  <2>1. PICK k : k = order[n] /\ k \in ids
    BY <1>3
  <2>2. recs[n] = [by |-> by, kind |-> "update", table |-> t, id |-> k, old |-> db.rows[t][k]]
    BY <1>5, <2>1
  <2>3. d.rows[t][k] # None /\ k \in DOMAIN db.rows[t]
    <3>1. d.rows[t][k] = [db.rows[t][k] EXCEPT !.is_current = FALSE]
      BY <1>11, <1>14, <1>15, <2>1
    <3>2. db.rows[t][k] \in EndRows[t] /\ k \in DOMAIN db.rows[t]
      BY <1>2, <2>1
    <3>3. d.rows[t][k] \in EndRows[t]
      BY <3>1, <3>2 DEF EndRows
    <3>4. None \notin EndRows[t]
      BY <1>1, StoryAssumption DEF EndTables
    <3> QED
      BY <3>2, <3>3, <3>4
  <2>4. k \in DOMAIN d.rows[t]
    BY <1>1, <1>18, <2>3 DEF Follows
  <2>5. \A p \in Places : p[1] = t /\ p[2] = k =>
          Row(db.rows, p) = db.rows[t][k] /\ Row(d.rows, p) # None
    BY <2>3, <2>4 DEF Row
  <2> QED
    BY <1>19, <2>2, <2>5 DEF Told, Before, RowOf
<1>22. ASSUME NEW n \in 1 .. Len(order)
       PROVE  recs[n].id \in DOMAIN db.rows[t] /\ recs[n].id = order[n]
  <2>1. PICK old : recs[n] = [by |-> by, kind |-> "update", table |-> t, id |-> order[n],
                              old |-> old]
    BY <1>5
  <2> QED
    BY <1>2, <1>3, <2>1
<1>23. new.id \notin DOMAIN db.rows[t]
  BY <1>1, <1>11, <1>14 DEF Follows, new
<1> DEFINE all == Append(recs, new)
<1>24. ASSUME NEW n \in 1 .. Len(all), NEW m \in 1 .. Len(all), all[n].id = all[m].id
       PROVE  n = m
  <2>1. n \in 1 .. Len(order) + 1 /\ m \in 1 .. Len(order) + 1 /\ Len(order) \in Nat
    BY <1>3, <1>17, <1>24
  <2> HIDE DEF all
  <2>2. \A k \in 1 .. Len(order) : all[k] = recs[k]
    BY <1>17 DEF all
  <2>3. all[Len(order) + 1] = new
    BY <1>17 DEF all
  <2>4. \A k \in 1 .. Len(order) + 1 : k \in 1 .. Len(order) \/ k = Len(order) + 1
    BY <2>1
  <2> QED
    BY <1>3, <1>22, <1>23, <1>24, <2>1, <2>2, <2>3, <2>4
<1>25. \A n \in 1 .. Len(all) : Told(d, all[n])
  <2>1. \A n \in 1 .. Len(order) + 1 : n \in 1 .. Len(order) \/ n = Len(order) + 1
    BY <1>3
  <2> QED
    BY <1>17, <1>20, <1>21, <2>1
<1>26. d.log = db.log \o all /\ IsList(all)
  BY <1>16, <1>17
<1> HIDE DEF all, d
<1>27. Traced(d)
  BY <1>18, <1>24, <1>25, <1>26, RecordsTraced DEF Alike
<1> QED
  BY <1>27 DEF d, c, ids

-----------------------------------------------------------------------------
(* Steps.                                                                  *)

\* A step that leaves the rows, the log and what is kept of them as they are.
Quiet ==
  /\ UNCHANGED <<db, turn>>
  /\ hist'.touches = hist.touches /\ hist'.marks = hist.marks /\ hist'.undone = hist.undone

LEMMA QuietLogged ==
  ASSUME LogInv, Quiet
  PROVE  LogInv'
<1>1. Marked(turn', hist') <=> Marked(turn, hist)
  BY DEF Quiet, Marked
<1>2. Leading(db', turn', hist') <=> Leading(db, turn, hist)
  BY DEF Quiet, Leading, Alone
<1>3. LoggedTurnUndone' <=> LoggedTurnUndone
  BY DEF Quiet, LoggedTurnUndone, TouchesSince
<1> QED
  BY <1>1, <1>2, <1>3 DEF LogInv, Quiet

LEMMA BeginTurnLogged ==
  ASSUME StoryInv, LogInv, NEW s \in Sessions, BeginTurn(s)
  PROVE  LogInv'
<1>1. /\ turn' = [turn EXCEPT ![s] = @ + 1] /\ db' = db
      /\ hist'.marks = [hist.marks EXCEPT ![s] = Append(@, db.rows)]
      /\ hist'.touches = hist.touches /\ hist'.undone = hist.undone
  BY DEF BeginTurn, StoryInv, Histories
<1>2. /\ turn \in [Sessions -> Nat] /\ hist.marks = [z \in Sessions |-> hist.marks[z]]
      /\ \A z \in Sessions : IsList(hist.marks[z]) /\ Len(hist.marks[z]) = turn[z]
  BY DEF LogInv, Marked
<1>3. /\ turn' \in [Sessions -> Nat] /\ turn'[s] = turn[s] + 1
      /\ \A z \in Sessions \ {s} : turn'[z] = turn[z]
      /\ \A z \in Sessions : turn[z] <= turn'[z]
  BY <1>1, <1>2
<1>4. /\ hist'.marks = [z \in Sessions |-> hist'.marks[z]]
      /\ hist'.marks[s] = Append(hist.marks[s], db.rows)
      /\ \A z \in Sessions \ {s} : hist'.marks[z] = hist.marks[z]
  BY <1>1, <1>2
<1>5. \A z \in Sessions :
        /\ IsList(hist'.marks[z]) /\ Len(hist'.marks[z]) = turn'[z]
        /\ \A n \in 1 .. turn[z] : hist'.marks[z][n] = hist.marks[z][n]
  <2>1. ASSUME NEW f, IsList(f)
        PROVE  /\ IsList(Append(f, db.rows)) /\ Len(Append(f, db.rows)) = Len(f) + 1
               /\ \A n \in 1 .. Len(f) : Append(f, db.rows)[n] = f[n]
    BY <2>1, ListMore
  <2>2. /\ IsList(hist'.marks[s]) /\ Len(hist'.marks[s]) = turn[s] + 1
        /\ \A n \in 1 .. turn[s] : hist'.marks[s][n] = hist.marks[s][n]
    BY <1>2, <1>4, <2>1
  <2>3. \A z \in Sessions \ {s} :
          IsList(hist'.marks[z]) /\ Len(hist'.marks[z]) = turn'[z]
            /\ hist'.marks[z] = hist.marks[z]
    BY <1>2, <1>3, <1>4
  <2> QED
    BY <1>3, <2>2, <2>3
<1>6. hist'.marks[s][turn[s] + 1] = db.rows
  <2>1. ASSUME NEW f, IsList(f) PROVE Append(f, db.rows)[Len(f) + 1] = db.rows
    BY <2>1, ListMore
  <2> QED
    BY <1>2, <1>4, <2>1
<1>7. Marked(turn', hist')
  BY <1>1, <1>3, <1>4, <1>5 DEF LogInv, Marked
<1>8. ASSUME hist.undone = None PROVE Listed(db', turn') /\ Leading(db', turn', hist')
  <2>1. Listed(db, turn) /\ Leading(db, turn, hist)
    BY <1>8 DEF LogInv
  <2>2. Listed(db', turn')
    <3>1. ASSUME NEW k \in DOMAIN db.log PROVE Recorded(db.log[k], db, turn')
      <4>1. Recorded(db.log[k], db, turn)
        BY <2>1 DEF Listed
      <4> QED
        BY <1>2, <1>3, <4>1 DEF Recorded
    <3> QED
      BY <1>1, <2>1, <3>1 DEF Listed
  <2>3. ASSUME NEW z \in Sessions, NEW n \in 1 .. turn'[z], NEW e \in Places, Alone(hist', z, n, e)
        PROVE  Leads(db, z, n, e, Row(hist'.marks[z][n], e))
    <3>1. CASE n \in 1 .. turn[z]
      <4>1. Alone(hist, z, n, e)
        BY <1>1, <2>3 DEF Alone
      <4> QED
        BY <1>5, <2>1, <3>1, <4>1 DEF Leading
    <3>2. CASE n \notin 1 .. turn[z]
      <4>1. z = s /\ n = turn[s] + 1
        BY <1>2, <1>3, <2>3, <3>2
      <4>2. Takes(db, z, n, e) = {}
        <5> SUFFICES ASSUME NEW k \in Takes(db, z, n, e) PROVE FALSE
          OBVIOUS
        <5>1. k \in DOMAIN db.log /\ db.log[k].by.sess = z /\ db.log[k].by.turn >= n
          BY DEF Takes, Undoes
        <5>2. Recorded(db.log[k], db, turn)
          BY <2>1, <5>1 DEF Listed
        <5> QED
          BY <1>2, <4>1, <5>1, <5>2 DEF Recorded
      <4>3. Row(hist'.marks[z][n], e) = Row(db.rows, e)
        BY <1>6, <4>1
      <4> QED
        BY <4>2, <4>3 DEF Leads, Was
    <3> QED
      BY <3>1, <3>2
  <2> QED
    BY <1>1, <2>2, <2>3 DEF Leading
<1>9. ASSUME hist.undone # None
      PROVE  /\ hist.undone.sess \in Sessions /\ hist.undone.turn \in 1 .. turn'[hist.undone.sess]
             /\ LoggedTurnUndone'
  <2>1. /\ hist.undone.sess \in Sessions /\ hist.undone.turn \in 1 .. turn[hist.undone.sess]
        /\ LoggedTurnUndone
    BY <1>9 DEF LogInv
  <2>2. hist.undone.turn \in 1 .. turn'[hist.undone.sess]
    BY <1>2, <1>3, <2>1
  <2>3. hist'.marks[hist.undone.sess][hist.undone.turn]
          = hist.marks[hist.undone.sess][hist.undone.turn]
    BY <1>5, <2>1
  <2>4. LoggedTurnUndone'
    BY <1>1, <1>9, <2>1, <2>3 DEF LoggedTurnUndone, TouchesSince
  <2> QED
    BY <2>1, <2>2, <2>4
<1> QED
  BY <1>1, <1>7, <1>8, <1>9 DEF LogInv

LEMMA Logging ==
  ASSUME LogInv, hist.undone = None
  PROVE  Listed(db, turn) /\ turn \in [Sessions -> Nat]
BY DEF LogInv, Marked

LEMMA UndoneNone ==
  ASSUME NEW a, (\E d : AtOnce(a, d)) \/ (\E do : About(a, do))
  PROVE  hist.undone = None
BY DEF AtOnce, About, Spare

LEMMA WillLogged ==
  ASSUME StoryInv, LogInv, NEW a, NEW do, NEW t, NEW i, NEW seen, NEW new,
         Will(a, do, t, i, seen, new)
  PROVE  LogInv'
<1>1. Quiet
  BY DEF Will, Quiet, StoryInv, Histories
<1> QED
  BY <1>1, QuietLogged

LEMMA StillLogged ==
  ASSUME LogInv, UNCHANGED <<db, turn, hist>>
  PROVE  LogInv'
BY QuietLogged DEF Quiet

LEMMA CreateLogged ==
  ASSUME StoryInv, LogInv, hist.undone = None, NEW a \in Actors, NEW t, NEW r,
         Commits(a, Create(db, a, t, r))
  PROVE  LogInv'
<1>1. PICK d : d = Create(db, a, t, r)
  OBVIOUS
<1>2. Traced(d)
  BY <1>1, Logging, FollowsItself, CreateTraced
<1> QED
  BY <1>1, <1>2, CommitLogged

\* A statement that the hooks cannot read.
LEMMA SilentLogged ==
  ASSUME StoryInv, LogInv, hist.undone = None, NEW a, NEW d, Commits(a, d),
         Follows(d), d.log = db.log
  PROVE  LogInv'
<1>1. Traced(d)
  BY Logging, SilentTraced
<1> QED
  BY <1>1, CommitLogged

LEMMA DeleteWhereLogged ==
  ASSUME StoryInv, LogInv, hist.undone = None, NEW a, NEW t, NEW ids,
         Commits(a, DeleteWhere(db, t, ids))
  PROVE  LogInv'
<1>1. PICK d : d = DeleteWhere(db, t, ids)
  OBVIOUS
<1>2. Follows(d) /\ d.log = db.log
  BY <1>1, Logging, FollowsItself, DeleteWhereFollows
<1> QED
  BY <1>1, <1>2, SilentLogged

\* The rows of one table that refer to some of another go, and then they.
LEMMA CascadeLogged ==
  ASSUME StoryInv, LogInv, hist.undone = None, NEW a, NEW c, Follows(c), c.log = db.log,
         NEW t, NEW ids, NEW u, NEW referred,
         Commits(a, DeleteWhere(DeleteWhere(c, t, ids), u, referred))
  PROVE  LogInv'
<1>1. PICK b : b = DeleteWhere(c, t, ids)
  OBVIOUS
<1>2. Follows(b) /\ b.log = db.log
  BY <1>1, DeleteWhereFollows
<1>3. PICK d : d = DeleteWhere(b, u, referred)
  OBVIOUS
<1>4. Follows(d) /\ d.log = db.log
  BY <1>2, <1>3, DeleteWhereFollows
<1> QED
  BY <1>1, <1>3, <1>4, SilentLogged

LEMMA WriteSaveLogged ==
  ASSUME StoryInv, LogInv, NEW a \in Actors, WriteSave(a)
  PROVE  LogInv'
<1>1. About(a, "save") /\ Commits(a, Save(db, a, op[a].table, op[a].id, op[a].new))
  BY DEF WriteSave
<1>2. hist.undone = None /\ op[a].new # None
  BY <1>1, AboutOp DEF About, OpTyped
<1>3. PICK d : d = Save(db, a, op[a].table, op[a].id, op[a].new)
  OBVIOUS
<1>4. Traced(d)
  BY <1>2, <1>3, Logging, SaveTraced
<1> QED
  BY <1>1, <1>2, <1>3, <1>4, CommitLogged

LEMMA WriteDeleteLogged ==
  ASSUME StoryInv, LogInv, NEW a \in Actors, WriteDelete(a)
  PROVE  LogInv'
<1>1. About(a, "delete") /\ Commits(a, Delete(db, a, op[a].table, op[a].id))
  BY DEF WriteDelete
<1>2. PICK d : d = Delete(db, a, op[a].table, op[a].id)
  OBVIOUS
<1>3. hist.undone = None
  BY <1>1 DEF About
<1>4. Traced(d)
  BY <1>2, <1>3, Logging, DeleteTraced
<1> QED
  BY <1>1, <1>2, <1>3, <1>4, CommitLogged

LEMMA LogLogged ==
  ASSUME StoryInv, LogInv, LogNext
  PROVE  LogInv'
<1>1. ASSUME NEW a \in Actors, WriteCreate(a) PROVE LogInv'
  <2>1. About(a, "create") /\ Commits(a, Create(db, a, op[a].table, op[a].new))
    BY <1>1 DEF WriteCreate
  <2> QED
    BY <2>1, CreateLogged DEF About
<1>2. ASSUME NEW s \in Sessions, Refuse(s) PROVE LogInv'
  BY <1>2, StillLogged DEF Refuse
<1> QED
  BY <1>1, <1>2, WriteSaveLogged, WriteDeleteLogged, BeginTurnLogged, RollbackLogged DEF LogNext

\* A step of a part: a decision, or one of the statements above.
LEMMA OnceLogged ==
  ASSUME StoryInv, LogInv, NEW a \in Actors,
         \/ \E t, r : AtOnce(a, Create(db, a, t, r))
         \/ \E t, ids : AtOnce(a, DeleteWhere(db, t, ids))
  PROVE  LogInv'
<1>1. hist.undone = None
  BY UndoneNone
<1> QED
  BY <1>1, CreateLogged, DeleteWhereLogged DEF AtOnce

LEMMA ActorsAre ==
  User \in Actors /\ \A s \in Sessions : s \in Actors
BY DEF Actors

LEMMA CharactersLogged ==
  ASSUME StoryInv, LogInv, CharactersNext
  PROVE  LogInv'
<1>1. ASSUME NEW s \in Sessions, create_character(s) PROVE LogInv'
  <2>1. PICK rows \in SeqOf([status : Statuses, text : {"old"}], 2) :
          AtOnce(s, CreateAll(db, s, "characters", rows))
    BY <1>1 DEF create_character
  <2>2. rows \in UNION {[1 .. n -> [status : Statuses, text : {"old"}]] : n \in 0 .. 2}
    BY <2>1 DEF SeqOf
  <2>3. PICK n \in 0 .. 2 : rows \in [1 .. n -> [status : Statuses, text : {"old"}]]
    BY <2>2
  <2>4. n \in Nat /\ rows = [k \in 1 .. n |-> rows[k]]
    BY <2>3
  <2>5. IsList(rows)
    BY <2>4, ListOf
  <2>6. hist.undone = None
    BY <2>1, UndoneNone
  <2>7. PICK d : d = CreateAll(db, s, "characters", rows)
    OBVIOUS
  <2>8. Traced(d)
    BY <2>5, <2>6, <2>7, ActorsAre, Logging, CreateAllTraced
  <2> QED
    BY <2>1, <2>6, <2>7, <2>8, CommitLogged DEF AtOnce
<1>2. ASSUME NEW s \in Sessions, WriteEdit(s) PROVE LogInv'
  <2> DEFINE t == "character_relations"
             c == Updates(db, t, {op[s].id}, LAMBDA r : [r EXCEPT !.is_current = FALSE])
             g == [k \in DOMAIN db.rows[t] |->
                     IF k \in {op[s].id} /\ db.rows[t][k] # None
                     THEN [db.rows[t][k] EXCEPT !.is_current = FALSE] ELSE db.rows[t][k]]
  <2>1. /\ About(s, "edit_relation") /\ hist.undone = None
        /\ Commits(s, Create(c, s, t, op[s].new))
    BY <1>2 DEF WriteEdit, About
  <2>2. c = [db EXCEPT !.rows[t] = [k \in DOMAIN db.rows[t] |-> g[k]]]
    BY DEF Updates
  <2> HIDE DEF c, g
  <2>3. Follows(c) /\ c.log = db.log
    <3>1. Follows(db)
      BY <2>1, Logging, FollowsItself
    <3>2. PICK f : f = g
      OBVIOUS
    <3> QED
      BY <2>2, <3>1, <3>2, RefilledFollows
  <2>4. PICK d : d = Create(c, s, t, op[s].new)
    OBVIOUS
  <2>5. Traced(d)
    BY <2>1, <2>3, <2>4, ActorsAre, Logging, CreateTraced
  <2> QED
    BY <2>1, <2>4, <2>5, CommitLogged
<1>3. ASSUME NEW s \in Sessions, WriteEvolve(s) PROVE LogInv'
  <2>1. PICK new : new = op[s].new
    OBVIOUS
  <2>2. /\ About(s, "evolve_relation") /\ hist.undone = None
        /\ Commits(s, Create(Retired(s, CurrentOf(db, new.source, new.target)), s,
                             "character_relations", new))
    BY <1>3, <2>1 DEF WriteEvolve, About
  <2>3. PICK d : d = Create(Retired(s, CurrentOf(db, new.source, new.target)), s,
                            "character_relations", new)
    OBVIOUS
  <2>4. RowsTyped(db)
    BY <2>2, ActorsAre, AboutOp
  <2>5. Traced(d)
    BY <2>2, <2>3, <2>4, Logging, EvolveTraced
  <2> QED
    BY <2>2, <2>3, <2>5, CommitLogged
<1>4. ASSUME NEW s \in Sessions, NEW i,
             update_character(s, i) \/ deleteCharacter(s, i) \/ deleteCharacterRelation(s, i)
      PROVE  LogInv'
  BY <1>4, WillLogged
     DEF update_character, Edit, deleteCharacter, deleteCharacterRelation, delete_record
<1>5. ASSUME NEW s \in Sessions, NEW i, editRelation(s, i) PROVE LogInv'
  BY <1>5, WillLogged DEF editRelation
<1>6. ASSUME NEW s \in Sessions, NEW i, NEW j, evolveRelation(s, i, j) PROVE LogInv'
  BY <1>6, WillLogged DEF evolveRelation
<1>7. ASSUME CreateCharacter PROVE LogInv'
  BY <1>7, ActorsAre, OnceLogged DEF CreateCharacter
<1>8. ASSUME NEW i, UpdateCharacter(i) PROVE LogInv'
  BY <1>8, WillLogged DEF UpdateCharacter, PatchAndSave, Edit
<1>9. ASSUME NEW i, DeleteCharacter(i) PROVE LogInv'
  <2>1. PICK ids : AtOnce(User, DeleteWhere(DeleteWhere(db, "character_relations", ids),
                                            "characters", {i}))
    BY <1>9 DEF DeleteCharacter
  <2>2. hist.undone = None
    BY <2>1, UndoneNone
  <2> QED
    BY <2>1, <2>2, Logging, FollowsItself, CascadeLogged DEF AtOnce
<1> QED
  BY <1>1, <1>2, <1>3, <1>4, <1>5, <1>6, <1>7, <1>8, <1>9 DEF CharactersNext

LEMMA PlacesLogged ==
  ASSUME StoryInv, LogInv, PlacesNext
  PROVE  LogInv'
<1>1. ASSUME NEW s \in Sessions, create_location(s) PROVE LogInv'
  BY <1>1, WillLogged DEF create_location
<1>2. ASSUME NEW s \in Sessions, WriteLink(s) PROVE LogInv'
  <2>1. CASE UNCHANGED <<db, turn, hist>>
    BY <2>1, StillLogged
  <2>2. CASE Commits(s, Create(db, s, "location_relations", op[s].new))
    BY <1>2, <2>2, ActorsAre, CreateLogged DEF WriteLink, About
  <2> QED
    BY <1>2, <2>1, <2>2 DEF WriteLink
<1>3. ASSUME NEW s \in Sessions, NEW i,
             \/ update_location(s, i) \/ deleteLocation(s, i)
             \/ update_location_relation(s, i) \/ deleteLocationRelation(s, i)
      PROVE  LogInv'
  BY <1>3, WillLogged DEF update_location, Edit, deleteLocation, update_location_relation,
     deleteLocationRelation, delete_record
<1>4. ASSUME NEW s \in Sessions, NEW i, NEW j, create_location_relation(s, i, j)
      PROVE  LogInv'
  <2>1. PICK new : Will(s, "link", "location_relations", 0, None, new)
    BY <1>4 DEF create_location_relation
  <2> QED
    BY <2>1, WillLogged
<1>5. ASSUME CreateLocation PROVE LogInv'
  BY <1>5, ActorsAre, OnceLogged DEF CreateLocation
<1>6. ASSUME NEW i, UpdateLocation(i) PROVE LogInv'
  BY <1>6, WillLogged DEF UpdateLocation, PatchAndSave, Edit
<1>7. ASSUME NEW i, DeleteLocation(i) PROVE LogInv'
  <2> DEFINE t == "locations"
             c == Updates(db, t, Children(i), LAMBDA r : [r EXCEPT !.parent = NoParent])
             g == [k \in DOMAIN db.rows[t] |->
                     IF k \in Children(i) /\ db.rows[t][k] # None
                     THEN [db.rows[t][k] EXCEPT !.parent = NoParent] ELSE db.rows[t][k]]
  <2>1. AtOnce(User, DeleteWhere(DeleteWhere(c, "location_relations", LinksOf(i)), t, {i}))
    BY <1>7 DEF DeleteLocation
  <2>2. c = [db EXCEPT !.rows[t] = [k \in DOMAIN db.rows[t] |-> g[k]]]
    BY DEF Updates
  <2> HIDE DEF c, g
  <2>3. hist.undone = None
    BY <2>1, UndoneNone
  <2>4. Follows(c) /\ c.log = db.log
    BY <2>2, <2>3, Logging, FollowsItself, RefilledFollows
  <2> QED
    BY <2>1, <2>3, <2>4, CascadeLogged DEF AtOnce
<1> QED
  BY <1>1, <1>2, <1>3, <1>4, <1>5, <1>6, <1>7 DEF PlacesNext

LEMMA ThreadsLogged ==
  ASSUME StoryInv, LogInv, ThreadsNext
  PROVE  LogInv'
<1>1. ASSUME NEW s \in Sessions, create_story_arc(s) \/ create_volume(s) PROVE LogInv'
  BY <1>1, ActorsAre, OnceLogged, WillLogged DEF create_story_arc, Creates, create_volume
<1>2. ASSUME NEW s \in Sessions, WriteDeleteVolume(s) PROVE LogInv'
  BY <1>2, DeleteWhereLogged DEF WriteDeleteVolume, About
<1>3. ASSUME NEW s \in Sessions, NEW i,
             \/ update_story_arc(s, i) \/ deleteStoryArc(s, i)
             \/ create_arc_node(s, i) \/ update_arc_node(s, i) \/ deleteArcNode(s, i)
             \/ delete_volume(s, i)
      PROVE  LogInv'
  BY <1>3, WillLogged DEF update_story_arc, Edit, deleteStoryArc, create_arc_node,
     update_arc_node, deleteArcNode, delete_record, delete_volume
<1>4. ASSUME NEW a, NEW i, update_volume(a, i) PROVE LogInv'
  BY <1>4, WillLogged DEF update_volume, Edit
<1>5. ASSUME CreateStoryArc \/ SaveVolume PROVE LogInv'
  BY <1>5, ActorsAre, OnceLogged DEF CreateStoryArc, SaveVolume, Creates
<1>6. ASSUME NEW i, UpdateStoryArc(i) \/ UpdateArcNode(i) PROVE LogInv'
  BY <1>6, WillLogged DEF UpdateStoryArc, UpdateArcNode, Edit
<1>7. ASSUME NEW i, DeleteStoryArc(i) PROVE LogInv'
  <2>1. PICK ids : AtOnce(User, DeleteWhere(DeleteWhere(db, "arc_nodes", ids),
                                            "story_arcs", {i}))
    BY <1>7 DEF DeleteStoryArc
  <2>2. hist.undone = None
    BY <2>1, UndoneNone
  <2> QED
    BY <2>1, <2>2, Logging, FollowsItself, CascadeLogged DEF AtOnce
<1>8. ASSUME NEW i, CreateArcNode(i) \/ DeleteArcNode(i) \/ DeleteVolume(i) PROVE LogInv'
  BY <1>8, ActorsAre, OnceLogged DEF CreateArcNode, Creates, DeleteArcNode, DeleteVolume
<1> QED
  BY <1>1, <1>2, <1>3, <1>4, <1>5, <1>6, <1>7, <1>8 DEF ThreadsNext

LEMMA ItemsLogged ==
  ASSUME StoryInv, LogInv, ItemsNext
  PROVE  LogInv'
<1>1. ASSUME NEW a \in Actors, CreateItem(a) PROVE LogInv'
  BY <1>1, OnceLogged DEF CreateItem
<1>2. ASSUME NEW a \in Actors, WriteItem(a) PROVE LogInv'
  <2> DEFINE d == Updates(db, "items", {op[a].id}, LAMBDA r : op[a].new)
             g == [k \in DOMAIN db.rows["items"] |->
                     IF k \in {op[a].id} /\ db.rows["items"][k] # None
                     THEN op[a].new ELSE db.rows["items"][k]]
  <2>1. hist.undone = None /\ Commits(a, d)
    BY <1>2 DEF WriteItem, About
  <2>2. d = [db EXCEPT !.rows["items"] = [k \in DOMAIN db.rows["items"] |-> g[k]]]
    BY DEF Updates
  <2> HIDE DEF d, g
  <2>3. Follows(d) /\ d.log = db.log
    <3>1. Follows(db)
      BY <2>1, Logging, FollowsItself
    <3>2. PICK f : f = g
      OBVIOUS
    <3> QED
      BY <2>2, <3>1, <3>2, RefilledFollows
  <2> QED
    BY <2>1, <2>3, SilentLogged
<1>3. ASSUME NEW a \in Actors, NEW i, DeleteItem(a, i) PROVE LogInv'
  BY <1>3, OnceLogged DEF DeleteItem
<1>4. ASSUME NEW s \in Sessions, RecordLost(s) \/ RecordAcquired(s) PROVE LogInv'
  <2>1. PICK action : Commits(s, Create(db, s, "item_occurrences",
                                        Occurrence(op[s].id, action)))
    BY <1>4 DEF RecordLost, RecordAcquired, RecordOccurrence
  <2>2. hist.undone = None
    BY <1>4 DEF RecordLost, RecordAcquired, About
  <2> QED
    BY <2>1, <2>2, ActorsAre, CreateLogged
<1>5. ASSUME NEW s \in Sessions, CancelRecords(s) PROVE LogInv'
  BY <1>5, StillLogged DEF CancelRecords
<1>6. ASSUME NEW s \in Sessions, create_item_occurrence(s) PROVE LogInv'
  BY <1>6, ActorsAre, OnceLogged DEF create_item_occurrence
<1>7. ASSUME NEW s \in Sessions, NEW i,
             update_item(s, i) \/ deleteItem(s, i) \/ deleteItemOccurrence(s, i)
      PROVE  LogInv'
  BY <1>7, WillLogged
     DEF update_item, EditItem, deleteItem, deleteItemOccurrence, delete_record
<1>8. ASSUME NEW i, UpdateItem(i) PROVE LogInv'
  BY <1>8, WillLogged DEF UpdateItem, EditItem
<1> QED
  BY <1>1, <1>2, <1>3, <1>4, <1>5, <1>6, <1>7, <1>8 DEF ItemsNext

LEMMA LedgerLogged ==
  ASSUME StoryInv, LogInv, LedgerNext
  PROVE  LogInv'
<1>1. ASSUME NEW a \in Actors, create_timeline_entry(a) PROVE LogInv'
  <2>1. PICK r : AtOnce(a, Create(db, a, "timeline_entries", r))
    BY <1>1 DEF create_timeline_entry
  <2> QED
    BY <2>1, OnceLogged
<1>2. ASSUME NEW a \in Actors, WriteChapter(a) PROVE LogInv'
  <2>1. CASE UNCHANGED <<db, turn, hist>>
    BY <2>1, StillLogged
  <2>2. CASE Commits(a, Create(db, a, "chapters", op[a].new))
    BY <1>2, <2>2, CreateLogged DEF WriteChapter, About
  <2> QED
    BY <1>2, <2>1, <2>2 DEF WriteChapter
<1>3. ASSUME NEW s \in Sessions, create_reader_perspective_entry(s) PROVE LogInv'
  BY <1>3, ActorsAre, OnceLogged DEF create_reader_perspective_entry
<1>4. ASSUME NEW s \in Sessions, FirstOrCreate(s) PROVE LogInv'
  BY <1>4, WillLogged DEF FirstOrCreate
<1>5. ASSUME NEW s \in Sessions, NEW k, update_timeline_entry(s, k) PROVE LogInv'
  <2>1. PICK seen, new : Will(s, "save", "timeline_entries", k, seen, new)
    BY <1>5 DEF update_timeline_entry
  <2> QED
    BY <2>1, WillLogged
<1>6. ASSUME NEW s \in Sessions, NEW k,
             deleteTimelineEntry(s, k) \/ deleteReaderPerspectiveEntry(s, k)
      PROVE  LogInv'
  BY <1>6, WillLogged DEF deleteTimelineEntry, deleteReaderPerspectiveEntry, delete_record
<1>7. ASSUME NEW a, NEW k, update_reader_perspective_entry(a, k) PROVE LogInv'
  BY <1>7, WillLogged DEF update_reader_perspective_entry, Edit
<1>8. ASSUME NEW a, NEW i, update_chapter_meta(a, i) PROVE LogInv'
  <2> DEFINE d == Updates(db, "chapters", {i}, LAMBDA r : [r EXCEPT !.meta = "new"])
             g == [k \in DOMAIN db.rows["chapters"] |->
                     IF k \in {i} /\ db.rows["chapters"][k] # None
                     THEN [db.rows["chapters"][k] EXCEPT !.meta = "new"]
                     ELSE db.rows["chapters"][k]]
  <2>1. AtOnce(a, d)
    BY <1>8 DEF update_chapter_meta
  <2>2. d = [db EXCEPT !.rows["chapters"] = [k \in DOMAIN db.rows["chapters"] |-> g[k]]]
    BY DEF Updates
  <2> HIDE DEF d, g
  <2>3. hist.undone = None
    BY <2>1, UndoneNone
  <2>4. Follows(d) /\ d.log = db.log
    BY <2>2, <2>3, Logging, FollowsItself, RefilledFollows
  <2> QED
    BY <2>1, <2>3, <2>4, SilentLogged DEF AtOnce
<1>9. ASSUME CreateReaderPerspective PROVE LogInv'
  BY <1>9, ActorsAre, OnceLogged DEF CreateReaderPerspective
<1>10. ASSUME CreateChapter PROVE LogInv'
  <2>1. PICK new : Will(User, "create_chapter", "chapters", 0, None, new)
    BY <1>10 DEF CreateChapter
  <2> QED
    BY <2>1, WillLogged
<1>11. ASSUME NEW k, UpdateTimelineEntry(k) PROVE LogInv'
  BY <1>11, WillLogged DEF UpdateTimelineEntry, PatchAndSave, Edit
<1>12. ASSUME NEW k, DeleteTimelineEntry(k) \/ DeleteReaderPerspective(k) \/ DeleteChapter(k)
       PROVE  LogInv'
  BY <1>12, ActorsAre, OnceLogged DEF DeleteTimelineEntry, DeleteReaderPerspective, DeleteChapter
<1> QED
  BY <1>1, <1>2, <1>3, <1>4, <1>5, <1>6, <1>7, <1>8, <1>9, <1>10, <1>11, <1>12 DEF LedgerNext

LEMMA NotesLogged ==
  ASSUME StoryInv, LogInv, NotesNext
  PROVE  LogInv'
<1>1. ASSUME NEW a \in Actors, NEW t, NEW r, Insert(a, t, r) PROVE LogInv'
  BY <1>1, OnceLogged DEF Insert
<1>2. ASSUME NEW a, NEW t, NEW i, NEW new, EditColumns(a, t, i, new) PROVE LogInv'
  BY <1>2, WillLogged DEF EditColumns
<1>3. ASSUME NEW a \in Actors, NEW t, NEW i, DeleteRows(a, t, i) PROVE LogInv'
  BY <1>3, OnceLogged DEF DeleteRows
<1>4. ASSUME NEW a \in Actors, WriteColumns(a) PROVE LogInv'
  <2>1. PICK t, id, new : t = op[a].table /\ id = op[a].id /\ new = op[a].new
    OBVIOUS
  <2> DEFINE d == Updates(db, t, {id}, LAMBDA r : Stored(t, r, new))
             g == [k \in DOMAIN db.rows[t] |->
                     IF k \in {id} /\ db.rows[t][k] # None
                     THEN Stored(t, db.rows[t][k], new) ELSE db.rows[t][k]]
  <2>2. hist.undone = None /\ Commits(a, d)
    BY <1>4, <2>1 DEF WriteColumns, About
  <2>3. d = [db EXCEPT !.rows[t] = [k \in DOMAIN db.rows[t] |-> g[k]]]
    BY DEF Updates
  <2> HIDE DEF d, g
  <2>4. Follows(d) /\ d.log = db.log
    BY <2>2, <2>3, Logging, FollowsItself, RefilledFollows
  <2> QED
    BY <2>2, <2>4, SilentLogged
<1>5. ASSUME NEW a \in Actors, Upsert(a) PROVE LogInv'
  BY <1>5, WillLogged DEF Upsert
<1>6. ASSUME NEW a \in Actors, InsertOutline(a) PROVE LogInv'
  <2>1. CASE UNCHANGED <<db, turn, hist>>
    BY <2>1, StillLogged
  <2>2. CASE Commits(a, Create(db, a, "outlines", op[a].new))
    BY <1>6, <2>2, CreateLogged DEF InsertOutline, About
  <2> QED
    BY <1>6, <2>1, <2>2 DEF InsertOutline
<1>7. ASSUME NEW a \in Actors,
             create_lore(a) \/ create_scene(a) \/ create_preference(a) \/ create_outline_beat(a)
      PROVE  LogInv'
  BY <1>1, <1>7 DEF create_lore, create_scene, create_preference, create_outline_beat
<1>8. ASSUME NEW a, NEW i, update_lore(a, i) \/ update_scene(a, i) PROVE LogInv'
  BY <1>2, <1>8 DEF update_lore, update_scene
<1>9. ASSUME NEW a \in Actors, NEW i,
             delete_lore(a, i) \/ delete_scene(a, i) \/ delete_outline_beat(a, i)
      PROVE  LogInv'
  BY <1>3, <1>9 DEF delete_lore, delete_scene, delete_outline_beat
<1>10. ASSUME NEW a, NEW i, update_preference(a, i) \/ update_outline_beat(a, i)
       PROVE  LogInv'
  BY <1>10, WillLogged DEF update_preference, update_outline_beat, Edit
<1>11. ASSUME NEW s \in Sessions, NEW i,
              deleteLoreRecord(s, i) \/ deleteSceneRecord(s, i) \/ deletePreference(s, i)
       PROVE  LogInv'
  BY <1>11, WillLogged DEF deleteLoreRecord, deleteSceneRecord, deletePreference, delete_record
<1>12. ASSUME NEW i, DeletePreference(i) PROVE LogInv'
  BY <1>3, <1>12, ActorsAre DEF DeletePreference
<1>13. ASSUME NEW i, UpdateOutlineBeat(i) PROVE LogInv'
  <2>1. PICK text : AtOnce(User, Save(db, User, "outline_beats", i, [text |-> text]))
                    /\ text \in {"old", "new"}
    BY <1>13 DEF UpdateOutlineBeat
  <2>2. [text |-> text] # None
    BY <2>1, StoryAssumption DEF SavedRows, Note, NoteTexts
  <2>3. PICK d, new : d = Save(db, User, "outline_beats", i, new) /\ new = [text |-> text]
    OBVIOUS
  <2>4. Traced(d)
    BY <2>1, <2>2, <2>3, ActorsAre, UndoneNone, Logging, SaveTraced
  <2> QED
    BY <2>1, <2>3, <2>4, UndoneNone, CommitLogged DEF AtOnce
<1> QED
  BY <1>4, <1>5, <1>6, <1>7, <1>8, <1>9, <1>10, <1>11, <1>12, <1>13 DEF NotesNext

LEMMA LogStart ==
  ASSUME Init
  PROVE  LogInv
<1>1. PICK part \in Parts :
        /\ LogInit(part)
        /\ db = [rows |-> [t \in Tables |-> IF t \in DOMAIN Beginning[part]
                                            THEN Beginning[part][t] ELSE <<>>],
                 log |-> <<>>]
  BY DEF Init
<1>2. IsList(<<>>) /\ Len(<<>>) = 0 /\ DOMAIN <<>> = {}
  BY DEF IsList
<1>3. /\ turn = [s \in Sessions |-> 0] /\ hist.marks = [s \in Sessions |-> <<>>]
      /\ hist.touches = {} /\ hist.undone = None
  BY <1>1 DEF LogInit
<1>4. Marked(turn, hist)
  BY <1>2, <1>3 DEF Marked
<1>5. Shape(db) /\ db.log = <<>>
  BY <1>1 DEF Shape
<1>6. \A t \in Tables : IsList(db.rows[t])
  BY <1>1, <1>2, StoryAssumption
<1>7. Listed(db, turn)
  BY <1>2, <1>5, <1>6 DEF Listed
<1>8. Leading(db, turn, hist)
  BY <1>3 DEF Leading
<1> QED
  BY <1>3, <1>4, <1>7, <1>8 DEF LogInv

\* A rollback leaves a row that only logged statements of the undone turns have
\* touched since as it was when the turn began.
THEOREM LoggedTurnUndoneHolds == Spec => []LoggedTurnUndone
<1>1. Init => LogInv
  BY LogStart
<1>2. ASSUME StoryInv, LogInv, [Next]_vars PROVE LogInv'
  <2>1. CASE Next
    BY <1>2, <2>1, LogLogged, CharactersLogged, PlacesLogged, ThreadsLogged, ItemsLogged,
       LedgerLogged, NotesLogged DEF Next, InPart
  <2>2. CASE UNCHANGED vars
    BY <1>2, <2>2, StillLogged DEF vars
  <2> QED
    BY <1>2, <2>1, <2>2
<1>3. LogInv => LoggedTurnUndone
  BY DEF LogInv, LoggedTurnUndone
<1> QED
  BY <1>1, <1>2, <1>3, StoryInvariant, PTL DEF Spec
=============================================================================
