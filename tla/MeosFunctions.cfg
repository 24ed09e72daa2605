CONSTANTS
  w1 = w1
  w2 = w2
  NoOne = NoOne
  Workers <- MCWorkers
  Polygons <- MCPolygons
  Boxes <- MCBoxes
  Points <- MCPoints
  MaxCalls = 1
SPECIFICATION Spec
INVARIANT TypeOK
 
INVARIANT ParseSerialised
INVARIANT PureResultsMatchReference
