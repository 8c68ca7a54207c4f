SPECIFICATION Spec
CONSTANTS
  Hooks = {h1, h2, h3}
  NoHook = NoHook
  Calls = {c1, c2}
  NoCall = NoCall
  MaxPrompts = 2
  MaxMisreads = 1
INVARIANTS LedgerInv CountedOnce CountsExact
PROPERTY Linearizable
