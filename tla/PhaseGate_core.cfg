SPECIFICATION Spec
CONSTANTS
  PhaseOrder <- MCPhaseOrder
  Tools <- MCTools
  Skills = {"hook"}
  Files = {"outline", "chapter"}
  Errors = {"overdue"}
  CheckTypes = {"foreshadow_overdue", "dup_paragraph"}
  FullTypes = {"foreshadow_overdue"}
  TypeOf <- MCTypeOf
  Mutating <- MCMutating
  MiniMaintain = {"create_scene"}
  Config <- MCConfig
PROPERTIES
  RequireDischarged
  ErrorsBlockExit
  CountedBeforeLeavingWrite
  JumpsStayInRound
CHECK_DEADLOCK FALSE
