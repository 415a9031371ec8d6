SPECIFICATION Spec
CONSTANTS
  q1 = q1
  q2 = q2
  a1 = a1
  a2 = a2
  r1 = r1
  r2 = r2
  Requests = {q1, q2}
  Aircraft = {a1}
  Routes = {r1, r2}
  Nobody = Nobody
  NoAircraft = NoAircraft
  Freqs = {0, 1, 2, 3}
  MaxFreq = 2
  Capacity <- MCCapacity
SYMMETRY Sym
INVARIANTS TypeOK OneRoutePerAircraft
PROPERTIES KeepsAssignments AssignedAirworthy
