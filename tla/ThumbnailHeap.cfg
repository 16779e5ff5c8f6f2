CONSTANTS
  Priorities = {1, 2, 3}
  MaxGeneration = 6
  NoItem = NoItem
SPECIFICATION Spec
INVARIANTS
  HeapSound
PROPERTIES
  PopsFirst
