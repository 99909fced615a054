SPECIFICATION Spec
CONSTANTS
  Node = {n1, n2}
  Zone = {z1}
  Client = {c1}
  Coordinator = n1
  Pack <- MCPack
  DefaultPack <- MCDefault
  None = None
  MaxEpoch = 3
  MaxRestarts = 1
INVARIANTS OnePackPerEpoch PacksSound
PROPERTIES ZonesFollow Refines
