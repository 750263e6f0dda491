CONSTANTS
  f1 = f1
  f2 = f2
  Files = {f1, f2}
  Writers = {f1, f2}
  OAppend = {f2}
  InEncrypt = TRUE
  Key = 1
  D = 3
  Texts <- MCTextsWithKey
  ReadLens = {1, 3}
  Serial = FALSE
  CatReads = FALSE
  OneWrite = FALSE
SPECIFICATION Spec
CONSTRAINT FileBound
VIEW InodeView
INVARIANTS
  InodeIntact
