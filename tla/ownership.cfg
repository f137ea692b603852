SPECIFICATION Spec
CONSTANT Proc <- MCProc
CONSTANT Known <- MCKnown
VIEW view
INVARIANT NoLeak
INVARIANT FreedOnce
INVARIANT SameAllocator
INVARIANT NothingWild
