\* Six addresses: room for two ranges with a gap that a third one fills.
SPECIFICATION Spec
CONSTANT MaxOffset = 5
INVARIANTS
  TypeOK
  TreeCovers
  BytesAgree
