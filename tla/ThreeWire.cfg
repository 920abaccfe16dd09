SPECIFICATION Spec
CONSTANTS
  NarrowSizes <- MCNarrowSizes
  WideSizes <- MCWideSizes
  Commands <- MCCommands
  Contents <- MCContents
  Fill <- MCFill
INVARIANTS
  TypeOK
  StaysInTask
PROPERTIES
  TaskFramed
