CONSTANTS
  Procs = {"server", "signer"}
  Signers = {"signer"}
  Script <- MCScript
  HTTP = TRUE
  MaxStarts = 2
  MaxServerFaults = 2
SPECIFICATION ServerSpec
INVARIANTS ImportedIsComplete ReturnedIsNotAnnounced
PROPERTY StopsOnSignal
