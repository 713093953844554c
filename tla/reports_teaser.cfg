SPECIFICATION Spec
CONSTANTS
  Exports <- MCExports
  Days = {1, 2}
CHECK_DEADLOCK FALSE
INVARIANT TeaserIsAFact
