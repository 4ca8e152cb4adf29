----------------------------- MODULE MCOnboarding -----------------------------
(***************************************************************************)
(* The application's handlers, and the SLA clock read over calendars: two  *)
(* specifications checked in one run.  A behaviour is of one of them, and  *)
(* the other stays as it begins.                                           *)
(***************************************************************************)
EXTENDS Onboarding, BusinessTime, TLC

CONSTANTS w1, w2, r1, r2, ccd, gam
CONSTANTS Calendar, Budget, LastTick, LatestStart, LastEvent

VARIABLES
  part,                                       \* whose behaviour it is
  cal, instant, events, column, holder, worked

(* Day 0 is a Thursday, days 1 and 2 the weekend, and day 3 a Sunday that  *)
(* may be a holiday.  The offset falls or rises at a local midnight, or    *)
(* stays as it is.                                                         *)
Zone(off, midnight, after) ==
  [off |-> off, change |-> midnight * DayTicks - 2, before |-> 2, after |-> after]

MCCalendar ==
  {Zone({1, 2}, 1, 2), Zone({1, 2, 3}, 1, 1), Zone({1, 2, 3}, 3, 3), Zone({1, 2}, 3, 1)}

Clock == INSTANCE SlaClock WITH now <- instant

(* The calendar is regular, and whenever the whole budget starts to run it *)
(* ends within the days the code is willing to walk (it throws otherwise). *)
ASSUME CalendarAssumption ==
  /\ Budget \in Nat /\ LastTick \in Nat
  /\ \A c \in Calendar :
       /\ Regular(c)
       /\ \A t \in 0..LastTick :
            \E days \in 0..MaxDaysWalked : Covers(c, t, Budget, LocalDay(c, t) + days)

clockVars == <<cal, instant, events, column, holder, worked>>

MCInit ==
  /\ Init /\ Clock!Init
  /\ \/ part = "APPLICATION" /\ cal = CHOOSE c \in Calendar : TRUE
     \/ part = "CLOCK" /\ adverse = {}

OfApplication == part = "APPLICATION" /\ Next /\ UNCHANGED clockVars
OfClock == part = "CLOCK" /\ Clock!Next /\ UNCHANGED vars

MCNext == (OfApplication \/ OfClock) /\ UNCHANGED part

MCSpec == MCInit /\ [][MCNext]_<<part, vars, clockVars>>

Symmetry == Permutations(Worker) \cup Permutations(Request)

(* ZM-SON-008: the time reconstructed from the log is the working time the *)
(* platform held the case.                                                 *)
ElapsedIsWorked == Clock!ElapsedIsWorked

(* The deadline stored beside an event is the instant of the breach.       *)
DeadlineIsKept == Clock!DeadlineIsKept
=============================================================================
