CONSTANTS
  Writers = {w1, w2}
  Capacity = 3
  MaxLines = 5
  Starts <- FewStarts
  Counts <- FewCounts
SYMMETRY Symmetry
SPECIFICATION Spec
INVARIANTS TypeOK RingInOrder SettledSlotHoldsItsLine ReadsWhatWasAsked ReadIsComplete
