SPECIFICATION Spec
CONSTANT MaxArguments = 4
CHECK_DEADLOCK FALSE
INVARIANT ExecuteExits
