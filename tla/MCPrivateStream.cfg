\* Two connections of four events, lost, repeated and reordered.
SPECIFICATION Spec
CONSTANTS
  Connections <- MCConnections
  Events <- MCEvents
INVARIANTS
  OnlyUncheckedHidesLoss
