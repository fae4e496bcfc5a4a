SPECIFICATION Spec
CONSTANT MaxEvents = 3
PROPERTY StartReturns

CHECK_DEADLOCK FALSE
