CONSTANT None = None
SPECIFICATION Spec
   
PROPERTY EveryoneReturns
CHECK_DEADLOCK FALSE
