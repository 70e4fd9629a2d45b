SPECIFICATION Spec
CONSTANTS
  a = a  b = b  c = c  v1 = v1  v2 = v2
  Keys = {a, b}
  Vals = {v1}
  None = None
  NoName = NoName
  Texts = {}
  Lists <- MCLists
  Denied <- MCDenied
  Nels = {4}
  Hashes <- MCHashes
  MaxOom = 0
PROPERTY ImplementsMap
