SPECIFICATION Spec
CONSTANTS
  Extent = 4
  Emit = "field"
  Quirks = {}
INVARIANTS
  TypeOK
  CitedOrNamed
  WhatLiesBetween
  NothingFromADroppedGuess
\* The stage stops when the stream's output is complete.
CHECK_DEADLOCK FALSE
