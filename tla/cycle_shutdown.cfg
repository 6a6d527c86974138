SPECIFICATION Spec
CONSTANT StartValues <- AnyHeap
CHECK_DEADLOCK FALSE
PROPERTY ShutdownCompletes
