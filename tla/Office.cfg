SPECIFICATION Spec

CONSTANTS
  s1 = s1
  s2 = s2
  Operators = {o1, o2}
  Devices   = {o1}
  Machines  = {m1, m2}
  Sectors   = {s1, s2}
  Streets   = {r1}
  SectorOf <- FirstSector
  Desks     = {d1}
  Home      = s1
  MaxEdits  = 2
  MaxFaults = 1

INVARIANT TypeOK
INVARIANT OneMachineEach
INVARIANT StreetInSector
PROPERTY MyMachineCatchesUp
