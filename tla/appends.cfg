\* README.md explains the bounds.
CONSTANTS
  Texts = {"plain", "wide", "break"}
  MaxAppends = 4
SPECIFICATION Spec
INVARIANTS TypeOK NeverGlued NoBlankLine ProperAreRead
CHECK_DEADLOCK FALSE
