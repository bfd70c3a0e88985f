SPECIFICATION FairSpec
CONSTANTS
  Models = {m1}
  Stored <- VisualTexts
  Typed <- TypedTexts
  Presets <- SomePresets
  Conditions = {"blank", "plain"}
  MaxTiers = 2
  MaxGroups = 1
  MaxEdits = 7
  Reopens = FALSE
 
 
PROPERTY Settles
\* A user may have nothing more to change.
CHECK_DEADLOCK FALSE
