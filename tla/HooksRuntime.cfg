\* The runtime crate's runner: one command is enough.
SPECIFICATION Spec
CONSTANTS
  Commands = 1
  Children <- Orderly
  BrokenPipeTolerated = FALSE
INVARIANT DenialHonoured
