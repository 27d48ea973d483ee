SPECIFICATION DispFairSpec
CONSTANTS
  Columns = {0, 1}
  Widths = {1, 2}
  Moves = {1}
  Colours = {"red"}
  DefaultWidth = 1
  Far = 9
  MaxQueue = 3
  MaxDraws = 2
  MaxChanges = 4
 
PROPERTIES DrawsInOrder FlushEnds
CHECK_DEADLOCK FALSE
