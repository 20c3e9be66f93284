SPECIFICATION Spec
CONSTANTS
  ra = ra
  rb = rb
  Refill <- MC_Refill
  N = 4
PROPERTY ImplementsQueue
