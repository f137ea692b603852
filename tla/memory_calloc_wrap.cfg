SPECIFICATION Spec
CONSTANTS
  t1 = t1
  t2 = t2
  p1 = p1
  p2 = p2
  p3 = p3
  NoPtr = NoPtr
  Thread = {t1}
  Ptr = {p1, p2}
  Size = {1}
  CallocArg <- MCCallocArg
  Allocator <- MCAllocator
  SizeMod = 32
  Workload <- Wrapping
SYMMETRY Symmetric
INVARIANT RequestHonoured
