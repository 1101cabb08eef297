SPECIFICATION Spec
CONSTANTS
  Names = {"x", "y"}
  MaxSegments = 3
INVARIANT DisjointIsSound
