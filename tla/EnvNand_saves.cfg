SPECIFICATION Spec
CONSTANTS
  Setups <- MCSetups
  SerialMod = 4
  MaxEnv = 2
INVARIANT SavedIsLoaded
PROPERTY NeverOlder AtomicSave
