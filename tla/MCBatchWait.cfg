CONSTANT NumStates = 6
SPECIFICATION Spec
PROPERTY WaitFinalReturns
