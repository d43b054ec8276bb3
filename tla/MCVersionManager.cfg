CONSTANTS
  o1 = o1
  o2 = o2
  n1 = n1
  Proc = {g1, g2}
  Sorter = {g1, g2}
  Name = {n1}
  Object = {o1, o2}
  NameOf <- MCNameOf
  Length = 3
  Declared <- MCDeclared
  None = None
SPECIFICATION Spec
INVARIANTS
  TypeOK
  RegistrySound
  SortSound
PROPERTIES
  NeverReplaced
\* A goroutine that has panicked takes no further step.
CHECK_DEADLOCK FALSE
