\* Four keys, so that one write can drop three entries.
CONSTANTS
  Keys = {k1, k2, k3, k4}
  Data <- MCData
  SizeOf <- MCSizeOf
  MaxSize = 3
  Nodes = {n1, n2, n3, n4}
  Null = Null
  HeadNode = HeadNode
  TailNode = TailNode
SYMMETRY MCSymmetry
SPECIFICATION Spec
INVARIANTS TypeOK ListShape MapAgrees SizeAgrees
PROPERTIES ImplementsPolicy
