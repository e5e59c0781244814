\* README.md explains the bounds.
CONSTANTS
  Texts = {"plain", "break"}
  MaxAppends = 2
SPECIFICATION Spec
INVARIANT AcknowledgedAreRead
CHECK_DEADLOCK FALSE
