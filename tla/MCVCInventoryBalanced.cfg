\* A good server: one VC is deleted and another one created between two pages.
SPECIFICATION InventorySpec
CONSTANTS
  VCs = {1, 2, 3, 4, 5}
  PageLimit = 2
  Created = 1
  Deleted = 1
  Faulty = FALSE
CHECK_DEADLOCK FALSE
INVARIANTS
  CompleteMeansComplete
