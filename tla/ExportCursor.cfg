SPECIFICATION Spec
CONSTANTS
  Attempts = {x1, x2, x3}
  None = None
INVARIANTS SparesAreLabelled OneKeyring
PROPERTY CurrentIsSetOnce
CHECK_DEADLOCK FALSE
