SPECIFICATION FairSpec
CONSTANTS
  Interactions = {i1, i2}
  Requests = {r1, r2, r3}
  NoInteraction = NoInteraction
  NoCard = NoCard
INVARIANTS
  Consistent
  OneCardPerInteraction
  AnswerIsTheCard
PROPERTIES
  ImplementsPromoteOnce
  PromotionEnds
