SPECIFICATION Spec
CONSTANTS
  Calls = {c1, c2}
  Reviewed = {t1, t2}
  Subjects = {owner, external}
  Owner = owner
  DemoDevice = demo
  Devices = {demo, other}
  NoApproval = NoApproval
  Kinds = {"review", "unlock", "replay", "unregistered"}
  MaxResets = 1
SYMMETRY Symmetry
CHECK_DEADLOCK FALSE
INVARIANTS
  IInv
  EffectBacked
  OneEffectPerApproval
  ToldAndRecorded
  ResetEvidence
  ReplayEvidence
