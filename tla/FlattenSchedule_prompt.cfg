SPECIFICATION Spec
CONSTANTS
  Days = 3
  Horizon = 34
  Sessions <- FirstTwo
  DayLen = 16
  Open = 3
  Close = 13
  Early = 10
  Notice = 6
  Buffer = 2
  Grace = 1
  InWindow = 1
  TickNear = 2
  TickFar = 4
  Near = 4
  MaxErrors = 1
  MaxTorn = 1
INVARIANTS
  NextOpenIsPrompt
