CONSTANTS
  TagCap = 2
  CommandCap = 3
  StuckLimit = 8
  StripTags = TRUE
SPECIFICATION Spec
INVARIANT TypeOK
INVARIANT Recovers
PROPERTY InjectionHasNoHole
PROPERTY InjectionIsEarned
