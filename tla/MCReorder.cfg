SPECIFICATION ReorderSpec
CONSTANTS
  TermIds <- MCTerms
  Proxy <- MCProxy
  Inputs <- MCInputs
  MaxId = 15
  DrawBits = 4
INVARIANT DegreesExact
INVARIANT MapIsExact
PROPERTY ExchangesPay
CHECK_DEADLOCK FALSE
