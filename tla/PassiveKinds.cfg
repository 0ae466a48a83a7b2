CONSTANTS
  Faults = {"error", "crash", "race"}
SPECIFICATION LiveSpec
INVARIANTS TypeOK CopyInv
PROPERTIES FinalizerGuards SettlesReady ReadyIsReal DeletionFollows
