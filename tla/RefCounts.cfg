CONSTANTS
  Half = 4
  Threads = {t1, t2}
  Refs = {r1, r2, r3, r4}
  StaleCalls = {"ref", "ref_weak"}
SPECIFICATION Spec
INVARIANTS TypeOK WordCountsReferences LastReferenceToldOnce
PROPERTIES NoSpuriousAbort DoomedAborts ImplementsLifetime
CHECK_DEADLOCK FALSE
