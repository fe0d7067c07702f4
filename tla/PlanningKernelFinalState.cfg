SPECIFICATION Spec
CONSTANT Inputs <- ShortBudgetInputs
INVARIANT FinalStateOfFinalLog
