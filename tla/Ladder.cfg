CONSTANT InitialRating = 1200
SPECIFICATION Spec
INVARIANTS GapSaturates
