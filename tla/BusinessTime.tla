----------------------------- MODULE BusinessTime -----------------------------
(***************************************************************************)
(* Business time (common/time/business-time.ts): what of an interval falls *)
(* within working hours, and when a budget of working time runs out.       *)
(*                                                                         *)
(* An instant counts ticks; a wall clock reads the instant plus the zone's *)
(* offset.  A calendar is a record: the days off, the instant at which the *)
(* offset changes, and the offsets before and after it.  The floor to      *)
(* whole seconds and the refusal of invalid dates are left out.            *)
(***************************************************************************)
EXTENDS Integers, FiniteSetsExt

CONSTANTS
  DayTicks,       \* ticks of a day
  Opening,        \* BUSINESS_DAY_START_HOUR
  Closing,        \* BUSINESS_DAY_END_HOUR
  MaxDaysWalked   \* MAX_DAYS_WALKED

ASSUME DayAssumption ==
  /\ {DayTicks, Opening, Closing, MaxDaysWalked} \subseteq Nat
  /\ Opening < Closing /\ Closing < DayTicks

(* ammanOffsetMs, ammanWallClock, instantFromAmman                         *)
Offset(cal, t) == IF t < cal.change THEN cal.before ELSE cal.after
Wall(cal, t) == t + Offset(cal, t)
LocalDay(cal, t) == Wall(cal, t) \div DayTicks

(* Mutant of Instant: one pass.                                            *)
InstantOnePass(cal, wall) == wall - Offset(cal, wall)

Instant(cal, wall) == wall - Offset(cal, wall - Offset(cal, wall))

(* businessWindow                                                          *)
IsBusinessDay(cal, day) == day \notin cal.off
Start(cal, day) == Instant(cal, day * DayTicks + Opening)
End(cal, day) == Instant(cal, day * DayTicks + Closing)

(* Whichever of the two is later, and earlier.                             *)
Later(a, b) == IF a < b THEN b ELSE a
Earlier(a, b) == IF a < b THEN a ELSE b

(* What the walks below rely on: no change of the zone's offset skips or   *)
(* repeats an opening or a closing hour, or sets the clock back to an      *)
(* earlier day.  Amman changed after midnight on a Friday, and stopped.    *)
Regular(cal) ==
  LET old == cal.change + cal.before
      new == cal.change + cal.after
  IN  /\ {cal.change, cal.before, cal.after} \subseteq Int
      /\ \A wall \in Earlier(old, new) .. Later(old, new) - 1 :
            wall % DayTicks \notin {Opening, Closing}
      /\ LocalDay(cal, cal.change - 1) <= LocalDay(cal, cal.change)

(* The total of a walk day by day, the first of which is day 0.            *)
Walked(gives) ==
  LET total[n \in DOMAIN gives] == gives[n] + (IF n = 0 THEN 0 ELSE total[n - 1])
  IN  total

(* The part of [from, to) inside the working window of one day.            *)
Overlap(cal, from, to, day) ==
  IF IsBusinessDay(cal, day)
    THEN Later(0, Earlier(to, End(cal, day)) - Later(from, Start(cal, day)))
    ELSE 0

(* businessSecondsBetween                                                  *)
Between(cal, from, to) ==
  LET first == LocalDay(cal, from)
      days == LocalDay(cal, to) - first
  IN  IF to <= from THEN 0
      ELSE Walked([n \in 0..days |-> Overlap(cal, from, to, first + n)])[days]

(* What is left of a day's window after an instant, and of all the days up *)
(* to one.                                                                 *)
Room(cal, from, day) ==
  IF IsBusinessDay(cal, day) THEN Later(0, End(cal, day) - Later(from, Start(cal, day))) ELSE 0
Capacity(cal, from, day) ==
  LET first == LocalDay(cal, from)
      days == day - first
  IN  IF day < first THEN 0 ELSE Walked([n \in 0..days |-> Room(cal, from, first + n)])[days]

(* Mutant of Covers: a budget that ends with a day runs into the next.     *)
CoversStrictly(cal, from, budget, day) ==
  Room(cal, from, day) > 0 /\ budget < Capacity(cal, from, day)

(* The walk ends on the first day with room for what remains.              *)
Covers(cal, from, budget, day) ==
  Room(cal, from, day) > 0 /\ budget <= Capacity(cal, from, day)

(* addBusinessSeconds                                                      *)
RunsOut(cal, from, budget) ==
  LET walked == LocalDay(cal, from) .. LocalDay(cal, from) + MaxDaysWalked
      last == Min({day \in walked : Covers(cal, from, budget, day)})
  IN  Later(from, Start(cal, last)) + budget - Capacity(cal, from, last - 1)
=============================================================================
