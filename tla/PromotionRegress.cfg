SPECIFICATION Spec
CONSTANTS
  Interactions = {i1}
  Requests = {r1, r2}
  NoInteraction = NoInteraction
  NoCard = NoCard
PROPERTY PromotionNeverRegresses
