SPECIFICATION Spec
CONSTANTS
  Node = {self, p1, p2}
  Self = self
  Membership = {{self, p1, p2}, {p1, p2}}
  Row = {{self, p1, p2}, {self, p1}, {self, p2}}
  Run = {1}
  RoundLength = 3
  RoundsPerSecond = 3
  MaxSecond = 1
  Jumps = {4}
  MaxFault = 1
  HalfRange = 2
  MaxWrite = 1
SYMMETRY Peers
PROPERTY CommitsNameTheirRound
