SPECIFICATION Spec
CONSTANTS
  r1 = r1  r2 = r2  arm64 = arm64  arm = arm  ios = ios
  a = a  b = b  i = i  host = host
  Runs = {p, q}
  Versions = {r1, r2}
  First = r1
  Targets = {arm64, arm, ios}
  IOS = {ios}
  Parts = {a, b, i, host}
  Zip <- ZipOf
  Own <- OwnOf
  Android <- AndroidOf
  Starts <- StartsOf
  Bad = Bad  Torn = Torn  None = None
INVARIANT OthersUndisturbed
CHECK_DEADLOCK FALSE
