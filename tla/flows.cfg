SPECIFICATION Spec
CONSTANTS
  Nodes = {n1, n2}
  NoNode = NoNode
  NoHandler = NoHandler
  MaxRows = 2
  Table <- AllHandlers
INVARIANTS TypeOK SuccessIsTrue LeavesQuietly RightNode ControlFollows CreatesOnce
PROPERTY ButtonsFreed
