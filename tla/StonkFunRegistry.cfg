SPECIFICATION Spec
CONSTANTS
  Pools = {"p1", "p2"}
  Provenances = {"a", "b"}
  MaxBatch = 2
INVARIANTS RaisesExactlyOnConflict AllOrNothing SavedAndRestored
