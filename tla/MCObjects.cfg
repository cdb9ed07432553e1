CONSTANT Clients <- AllClients
SPECIFICATION Spec
CONSTRAINT StackIsLow
INVARIANTS
  OtherCallsCommute
  UniqueCourseNames
