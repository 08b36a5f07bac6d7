\* Two objects, every combination of arguments, __init__ called again.
CONSTANTS
  Objects = {o, p}
  Handles = {g, h, i}
  NULL = NULL
SPECIFICATION Spec
INVARIANT OneOwner
SYMMETRY Symmetry
\* Every object may have been created and freed, or the process crashed.
CHECK_DEADLOCK FALSE
