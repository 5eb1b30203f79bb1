CONSTANTS
  fl = fl
  fr = fr
  Wheels = {fl, fr}
  Orientations <- MCOrientations
  Angles <- MCAngles
  Straight = "straight"
  MaxMoves = 2
SPECIFICATION Spec
CHECK_DEADLOCK FALSE
INVARIANT InPosition
