SPECIFICATION Spec
CONSTANTS
  Kthread = FALSE
  Duties <- EdgeDuties
  Crits <- EdgeCrits
INVARIANTS
  TypeOK
PROPERTIES
  NoFlapping
  PromotionEarned
