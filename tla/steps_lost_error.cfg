SPECIFICATION Spec
CONSTANT Program <- RetryProgram
INVARIANT StepErrorIsReturned
CHECK_DEADLOCK FALSE
