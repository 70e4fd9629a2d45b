SPECIFICATION Spec
CONSTANTS
  a = a  b = b  c = c  v1 = v1  v2 = v2
  Keys = {a, b, c}
  Vals = {v1, v2}
  None = None
  NoName = NoName
  Texts <- MCTexts
  Lists <- MCLists
  Denied <- MCDenied
  Nels = {4}
  Hashes <- MCHashes
  MaxOom = 1
INVARIANTS Findable ImportIsExact RoundTrip ExactChanges
