CONSTANTS
  Handle = {h1, h2, h3}
  MaxSlots = 3
  Content = {a, b}
  Blank = Blank
  NoVec = NoVec
SYMMETRY HandleSymmetry
SPECIFICATION Spec
INVARIANTS
  TypeOK
  OneOwner
  RefCountExact
  FreeSlotsHaveBytes
  SliceStable
  SlotsAccounted
PROPERTY ImplementsValues
CHECK_DEADLOCK FALSE
