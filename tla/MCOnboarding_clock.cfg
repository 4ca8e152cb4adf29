SPECIFICATION MCSpec
CONSTANTS
  w1 = w1
  w2 = w2
  r1 = r1
  r2 = r2
  ccd = ccd
  gam = gam
  Worker = {w1, w2}
  Request = {r1, r2}
  Source = {ccd, gam}
  LastHour = 3
  Calendar <- MCCalendar
  DayTicks = 6
  Opening = 2
  Closing = 4
  MaxDaysWalked = 6
  Budget = 3
  LastTick = 26
  LatestStart = 4
  LastEvent = 3
SYMMETRY Symmetry
INVARIANTS
  ClockIsHonest VerificationIsInHand AnswerableWhileWaiting
  ElapsedIsWorked DeadlineIsKept
CHECK_DEADLOCK FALSE
