------------------------------- MODULE MCStory -------------------------------
EXTENDS Story

CONSTANTS s1, s2

MCTables ==
  {"characters", "character_relations", "locations", "location_relations",
   "story_arcs", "arc_nodes", "volumes", "items", "item_occurrences",
   "chapters", "timeline_entries", "reader_perspectives",
   "lore", "scenes", "preferences", "outlines", "outline_beats"}

MCUnreadable == {"location_relations"}

Relates(source, target, current) ==
  [source |-> source, target |-> target, is_current |-> current, text |-> "old"]

\* A few rows of each part: a dead character, a relation, a child, an arc
\* with a node, a destroyed item, a pending entry.
MCBeginning ==
  [characters |->
     [characters |-> <<[status |-> "alive", text |-> "old"], [status |-> "dead", text |-> "old"]>>,
      character_relations |-> <<Relates(1, 2, TRUE)>>],
   places |->
     [locations |-> <<[parent |-> 0, text |-> "old"], [parent |-> 1, text |-> "old"]>>,
      location_relations |-> <<>>],
   threads |->
     [story_arcs |-> <<[arc_type |-> "main", ordered |-> FALSE]>>,
      arc_nodes  |-> <<[arc |-> 1, status |-> "pending"]>>,
      volumes    |-> <<[sort_order |-> 1]>>],
   items |->
     [items |-> <<[status |-> "active", owner |-> 1], [status |-> "destroyed", owner |-> 0]>>],
   ledger |->
     [chapters |-> <<[number |-> 1, meta |-> "old"]>>,
      timeline_entries |-> <<[status |-> "pending", resolved_chapter_id |-> 0]>>,
      reader_perspectives |-> <<[type |-> "known", truth |-> FALSE]>>],
   notes |->
     [lore |-> <<[text |-> "old", version |-> 1]>>,
      scenes |-> <<[text |-> "old", chapter_id |-> 0]>>,
      preferences |-> <<[text |-> "old"]>>,
      outline_beats |-> <<[text |-> "old"]>>]]

\* Relations take the place of relations: one step more.
MCMaxSteps ==
  [part \in {"characters", "places", "threads", "items", "ledger", "notes"} |->
     IF part = "characters" THEN 3 ELSE 2]

\* No definition tells one session from another.
Symmetry == Permutations(Sessions)
=============================================================================
