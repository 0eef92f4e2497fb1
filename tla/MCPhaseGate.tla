---------------------------- MODULE MCPhaseGate ----------------------------
(***************************************************************************)
(* A gate of the shape of app/default_phase_gate_config.go for TLC, one    *)
(* tool for each role a tool plays in the gate.  prepare stands for        *)
(* prepare and outline, review for review and maintain; write is the batch *)
(* loop, done the end.  review has a skill to read, named in batch mode    *)
(* and matched by a wildcard in single mode, where the model reads it.     *)
(***************************************************************************)
EXTENDS PhaseGate

MCPhaseOrder == <<"prepare", "write", "review", "done">>
MCTools == {"edit", "get_chapter_list", "check_story_consistency",
            "run_subagent", "create_scene", "auto_skill_injection"}
MCMutating == {"edit", "run_subagent", "create_scene"}
MCTypeOf == [e \in Errors |->
               IF e = "overdue" THEN "foreshadow_overdue" ELSE "dup_paragraph"]

Block(tools, require, skills, globs, next, loop, paths) ==
  [tools |-> tools, require |-> require, skills |-> skills, globs |-> globs,
   next |-> next, loop |-> loop, paths |-> paths]

Prepare == Block({"edit"}, {"edit"}, {}, {}, "write", FALSE,
                 {"outline"})
Write(todo) == Block(todo, todo, {}, {}, "review", TRUE, {"chapter"})
Review(tools, skills, globs) ==
  Block({"run_subagent"} \cup tools, {"run_subagent"}, skills, globs, "done",
        FALSE, {})
Done == Block({}, {}, {}, {}, "", FALSE, {})

MCConfig ==
  [single |-> [prepare |-> Prepare,
               write   |-> Write({"get_chapter_list"}),
               review  |-> Review({"auto_skill_injection"}, {}, {{"hook"}}),
               done    |-> Done],
   batch  |-> [prepare |-> Prepare,
               write   |-> Write({"get_chapter_list", "check_story_consistency",
                                  "create_scene"}),
               review  |-> Review({}, {"hook"}, {}),
               done    |-> Done]]
=============================================================================
