\* Four objects of two bytes, on two lists.
SPECIFICATION ObjectsSpec
CONSTANTS
  NULL = NULL
  num_items = 4
  item_size = 2
  Lists <- MCLists
  Items <- MCItems
  Offsets <- MCOffsets
INVARIANTS
  FreeListComplete
  ListsWellFormed
  InsertAccepted
PROPERTIES
  NoBlockShared
  ImplementsLists
