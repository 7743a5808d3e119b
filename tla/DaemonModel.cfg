\* The language model does not answer.
SPECIFICATION FairSpec
CONSTANT MaxAttempts = 5
PROPERTY ModelCallsEnd
