CONSTANTS
  UnsignedSize = 128
  Spaces = {" ", "CR", "LF"}
  Blank = " "
  MonthLength = 3
  ByteBits = 1
  BlowfishN = 16
  InitialP <- MCInitialP
  InitialS <- MCInitialS
  Block = 8
  LengthSize = 2
  LoLimit = 16
INIT FunctionsInit
NEXT PureNext
INVARIANTS SortsCorrectly TextsCorrect FormatsCorrect CodecsInvert DigestsStandard
