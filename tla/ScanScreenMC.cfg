\* Two codes handed up over two openings of the screen.
CONSTANTS
  Runs = {r1, r2}
  MaxOpenings = 2
  None = None
SPECIFICATION ScreenSpec
PROPERTIES
  CameraStops
  BusyEnds
