CONSTANTS
  n1 = n1
  n2 = n2
  n3 = n3
  n4 = n4
  n5 = n5
  Node = {n1, n2, n3, n4, n5}
  Hcode <- HcodeValue
  k_rehashing_work = 1
  k_max_load_factor = 1
  Nil = Nil
SPECIFICATION Spec
INVARIANT LoadBounded
