SPECIFICATION Spec
CONSTANTS
  Cells = 2
  Templates <- TwoTemplates
  Blank = 1
  Gap = 5
  Commands = {"S", "T", "R", "B", "F", "U", "P"}
INVARIANTS TypeOK TemplateReplies FreezeHolds FieldsKeepHalves BoundsOfOneMoment
