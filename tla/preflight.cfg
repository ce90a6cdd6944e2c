SPECIFICATION Spec
CONSTANTS
  Worlds <- Pairs
  Slow = {"AWS credentials", "DynamoDB"}
  Lifetimes = {0, 1, 2, 9}
  Margin = 2
  MaxAge = 3
\* main returns: nothing is left to do.
CHECK_DEADLOCK FALSE
INVARIANT GoIsSafe
INVARIANT ExpiryWasForetold
PROPERTY EveryRowIsPrinted
