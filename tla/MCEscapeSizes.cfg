CONSTANTS
    Values = {0, 9, 10, 15, 99, 255}
    MaxLength = 2
SPECIFICATION Spec
INVARIANT SizeIsExact
CHECK_DEADLOCK FALSE
