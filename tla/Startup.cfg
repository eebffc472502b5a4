SPECIFICATION Spec
CONSTANTS
  i1 = i1  i2 = i2  g1 = g1  g2 = g2  e1 = e1  e2 = e2
  Interactions = {i1, i2}
  NoInteraction = NoInteraction
  MaxCards = 2
  Sessions = {1, 2}
  GeminiKeys = {g1, g2}
  EncryptionKeys = {e1, e2}
  Unset = Unset
  NoUser = NoUser
  Environments <- MCEnvironments
  FirstBoards <- MCFirstBoards
  FirstUsers <- MCFirstUsers
  MaxEvents = 3
INVARIANTS Consistent PromotionsKeepTheirCard
PROPERTIES AccountIsKept ImplementsRollout EveryStartServes
