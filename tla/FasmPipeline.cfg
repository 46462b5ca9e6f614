CONSTANTS
  Bits <- McBits
  TNames <- McTNames
  Input <- McInput
  Sources <- McSources
  EntryArgs <- McEntryArgs
  TmpSlots = 2
  MaxDepth = 4
SPECIFICATION Spec
INVARIANTS
  
  GuardCoversItsBlock
  TmpFramesMatchBlocks
CHECK_DEADLOCK FALSE
