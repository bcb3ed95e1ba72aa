\* The three captcha flows against a portal that may answer anything.
CONSTANT MaxCalls = 3
SPECIFICATION FairSessionSpec
INVARIANT EstablishedIsEarned
PROPERTY EndsUnlessAskedForever
\* The caller stops after its last try.
CHECK_DEADLOCK FALSE
