SPECIFICATION FairCameraSpec
CONSTANTS
  Cameras = {front, rear}
  First = front
  None = None
  Canvas = Canvas
  Undefined = Undefined
  MaxClicks = 3
  MaxFaults = 2
INVARIANTS
  CameraTypeOK
  StreamIsSelected
PROPERTIES
  ChoicesSettle
CHECK_DEADLOCK FALSE
