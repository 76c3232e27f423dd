CONSTANTS
  Url = {"a", "b", "c"}
  DataSize <- DataOfSizes
  MaxBytes = 4
  Node = {n1, n2, n3, n4}
SPECIFICATION Spec
INVARIANTS ContainersAgree SizeCounted SizeBounded
PROPERTIES KeepsPromise
