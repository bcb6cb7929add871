SPECIFICATION Spec
CONSTANTS
  Workers = {w1, w2}
  NPkgs = 2
  NFiles = 3
  Texts = {0, 1, 2}
  Asm <- MCAsm
  Mutation <- MCMutation
  Place <- MCPlace
  Given <- MCGiven
  Editable <- MCOthers
INVARIANTS
  TceInv
PROPERTIES
  NoWriteDuringReport
  ImplementsSurvivorPass
