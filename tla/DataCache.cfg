CONSTANTS
  Addr = {a1, a2}
  Ty = {t}
  Val = {0, 1}
  Cell = {c1, c2, c3, c4, c5}
  Flag = {f1, f2}
  Absent = Absent
  Corrupt = Corrupt
  Nil = Nil
  NoChange = NoChange
  MaxRefs = 2
  MaxLocals = 1
SPECIFICATION Spec
SYMMETRY Sym
CONSTRAINT Narrow
INVARIANTS SlotMatchesStorage NoLostUpdate SingleOwner WriteGasCoversChanges
PROPERTY Refines
