SPECIFICATION Spec
CONSTANTS
  NULL = NULL
  Name = {bob, anna, carl}
  Main = main
  GameThread = {g1, g2}
  Uninit = Uninit
  Freed = Freed
INVARIANTS NoWildRead
PROPERTIES CallsAreAtomic CallsReturn
