\* A load factor of 1 starts the rehash at the fourth node, and one node moved
\* per call leaves it unfinished while the next operations come.
CONSTANTS
  n1 = n1
  n2 = n2
  n3 = n3
  n4 = n4
  n5 = n5
  Node = {n1, n2, n3, n4, n5}
  Hcode <- HcodeValue
  k_rehashing_work = 1
  k_max_load_factor = 1
  Nil = Nil
SPECIFICATION FairSpec
INVARIANTS IInv MigrateInBounds MembersFound ForeachVisitsOnce
PROPERTIES ImplementsNodeSet CallsEnd
