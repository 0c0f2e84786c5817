SPECIFICATION Spec
CONSTANTS
  t1 = t1
  t2 = t2
  Tid = {t1, t2}
  child = t1
  Forked = {}
  Uses = {"mmap", "munmap", "mprotect", "mremap", "brk", "exec"}
  Growing = FALSE
  Seccomp = FALSE
  MaxPage = 4
  HeapStart = 2
  MaxCalls = 3
INVARIANTS
  Disjoint
  Agrees
PROPERTIES
  ImplementsPageMap
