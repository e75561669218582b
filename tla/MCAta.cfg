SPECIFICATION AtaSpec
CONSTANTS
  near = near
  far = far
  a = a
  b = b
  c = c
  d = d
  Lbas <- TwoSectors
  Kept = {near}
  Callers = {shell, program}
  Values <- FourValues
  Garbage = Garbage
  Image <- AnImage
  Writes <- SomeWrites
INVARIANTS ReadsLatest
PROPERTIES ReadsGiveUpSlow CallsEnd
VIEW AtaView
