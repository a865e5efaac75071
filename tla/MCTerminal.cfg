SPECIFICATION TerminalSpec
CONSTANTS
  Rows = 3
  Columns = 4
  LineMax = 6
  HistorySize = 2
  Chars = {"a"}
  Outputs <- MCOutputs
INVARIANTS
  PromptThenLine
  EchoComplete
