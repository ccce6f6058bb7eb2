SPECIFICATION Spec
CONSTANTS
  a1 = a1
  a2 = a2
  a3 = a3
  b1 = b1
  b2 = b2
  c1 = c1
  c2 = c2
  NULL = NULL
  Entry <- MCEntry
  HashValue <- MCHashValue
  HASH_INITIAL_NUM_BUCKETS_LOG2 = 0
  HASH_BKT_CAPACITY_THRESH = 2
INVARIANTS
  TypeOK
  PassesFsck
  LookupExact
  ChainsBounded
  NoUseAfterFree
PROPERTIES
  ImplementsTable
