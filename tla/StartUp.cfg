SPECIFICATION Spec
CONSTANTS
  ITEM_COUNT = 3
  CORE_COUNT = 2
  DEFAULT_END = 60
  LIST_END = 40
  PAGE_SIZE = 3
  Argvs <- MCArgvs
  RegionLists <- MCRegionLists
INVARIANTS
  ItemsAsAsked
  WindowRight
  ZeroIsEarned
