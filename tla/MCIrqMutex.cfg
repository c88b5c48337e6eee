SPECIFICATION Spec
CONSTANTS
  Mutexes = {PAGE_ALLOC, OTHER}
  MaxGuards = 2
INVARIANTS
  MutualExclusion
  MaskRestored
  SavedMasks
PROPERTIES
  IrqTaken
