CONSTANTS
  f1 = f1
  f2 = f2
  Files = {f1, f2}
  Writers = {f1, f2}
  OAppend = {}
  InEncrypt = TRUE
  Key = 1
  D = 4
  Texts <- MCTexts
  ReadLens = {1, 3, 6}
  Serial = TRUE
  CatReads = FALSE
  OneWrite = TRUE
SPECIFICATION Spec
CONSTRAINT FileBound
INVARIANTS
  FileSemantics
