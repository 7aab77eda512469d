SPECIFICATION Spec
CONSTANTS
  a = a
  b = b
  c = c
  mx = mx
  None = None
  Thread = {a, b, c}
  Mutex = {mx}
  Mortal = {a}
INVARIANT MutualExclusion
