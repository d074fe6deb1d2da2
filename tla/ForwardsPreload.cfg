SPECIFICATION Spec
CONSTANTS
  Forward <- MCForward
  Policy <- MCPolicy
  Model = {"anima"}
  MaxCalls = 2
  MaxFaults = 1
PROPERTY
  PreloadHolds
