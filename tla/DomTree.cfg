SPECIFICATION Spec
\* The client may free every document and stop.
CHECK_DEADLOCK FALSE
CONSTANTS
  d1 = d1  d2 = d2  e1 = e1  e2 = e2  t1 = t1  t2 = t2
  h1 = h1  h2 = h2  r1 = r1  n1 = n1  s1 = s1
  Nil = Nil
  Worlds <- EditWorlds
CONSTRAINT InOrder
INVARIANTS WellLinked Acyclic SlabSafe
PROPERTIES RejectedUntouched TextIsAppended ImplementsRows
