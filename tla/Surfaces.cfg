SPECIFICATION Spec
CONSTANTS
  Null = Null
  Parts <- MCParts
  Mesh <- MCMesh
  Textured <- MCTextured
  InitMesh <- MCInitMesh
  InitDrop <- MCInitDrop
  Coord <- MCCoord
  Drag <- MCDrag
  Factor <- MCFactor
  MaxFailures = 1
  Height <- MCHeight
  Offset <- MCOffset
  Share <- MCShare
INVARIANTS
  TypeOK
  DrawsWithinBuffers
  ViewOfTexture
  TrianglesLand
  EdgesLand
  PiecesCover
PROPERTIES
  TurnsOnTheSpot
