CONSTANTS
  Bytes <- BytesInUse
  MaxArgs = 2
  MaxOSC = 2
  IntMax = 127
  MaxParams = 5
  MaxSent = 3
SPECIFICATION Spec
INVARIANTS TypeOK ArgsAreTheFields StringIsWhatWasSent DamageIsBounded
