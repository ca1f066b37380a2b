SPECIFICATION Spec
CONSTANTS
  Arch = "riscv64"
  Waiters = 4
  MaxWaitRetries = 3
  MaxSubmit = 3
  MaxSpurious = 3
  MaxOther = 0
PROPERTIES RequestAnswered
CHECK_DEADLOCK FALSE
