SPECIFICATION Spec
CONSTANTS
  MaxName = 1
  kInvalidStringId = 7
  Targets = {node1, node2}
  kInvalidNodeId = noNode
  kInt32Max = 2147483647
  MaxSymbols = 4
  MaxScopes = 3
INVARIANTS
  TypeOK
  ShadowChainIntact
  TopIsNewest
  ResolveIsInnermost
  MarkersNested
PROPERTY
  ImplementsScopedEnv
