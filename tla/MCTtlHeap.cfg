\* Six entries are the fewest for which erase can send the item it moves up:
\* position 3 is replaced by the last item, a child of position 2.
CONSTANTS
  Entry = {e1, e2, e3, e4, e5, e6}
  Ttl = {0, 1, 2}
  MaxTime = 2
  Nil = Nil
SYMMETRY Symmetry
SPECIFICATION Spec
INVARIANTS TypeOK IndexInverse RootIsEarliest IInv
PROPERTIES ImplementsTtlTable LoopsAdvance
