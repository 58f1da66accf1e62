CONSTANTS
  Objs = {o1, o2, o3}
  Threads = {t1, t2}
  Refs = {r1, r2, r3, r4, r5}
  Program = Program
  Nil = Nil
SPECIFICATION Spec
SYMMETRY MCSymmetry
INVARIANTS RefCountExact NoDangling SuspectsCover
PROPERTIES CollectionComplete
CHECK_DEADLOCK FALSE
