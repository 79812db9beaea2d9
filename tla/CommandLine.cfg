CONSTANTS
  FrameUnits = 32
  SizeMax = 1073741824
  MaxArgs = 4
  Arguments <- MCArguments
  Number <- MCNumber
SPECIFICATION Spec
INVARIANTS ParsesAsDocumented LimitsAgree
