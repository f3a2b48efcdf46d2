SPECIFICATION TablesSpec
CONSTANTS
  Files = {f1, f2}
  Contents <- SomeContents
  InvalidJson = InvalidJson
  NotJson = NotJson
INVARIANTS
  ActivePointerResolves
