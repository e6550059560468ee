SPECIFICATION Spec
CONSTANTS
  p1 = p1
  p2 = p2
  Zero = Zero
  Garbage = Garbage
  None = None
  FileSize <- MCFileSize
  Type <- MCType
  DataSize <- MCDataSize
  Procs = {p1, p2}
  LastVersion = 3
  Tensors = {"t", "s"}
  Decodable = {"t"}
SYMMETRY Processes
INVARIANTS TypeOK MetaSealsData ServedRight NothingForeign
PROPERTIES ServedOnce
