------------------------------- MODULE SlaClock -------------------------------
(***************************************************************************)
(* The onboarding SLA (sla-clock.service.ts): an append-only log of events *)
(* from which every read reconstructs the business time spent, and the     *)
(* columns that are written beside each event and never refreshed.         *)
(*                                                                         *)
(* Onboarding shows which events the handlers write and in what order;     *)
(* here they fall at any hour of a week with a weekend, a holiday and a    *)
(* change of the zone's offset, and are at times written twice.            *)
(***************************************************************************)
EXTENDS BusinessTime, SequencesExt

CONSTANTS
  Calendar,    \* the calendars there may be
  Budget,      \* ONBOARDING_SLA_BUSINESS_SECONDS
  LastTick,    \* bound: the clock
  LatestStart, \* bound: when an application is submitted
  LastEvent    \* bound: the log

None == -1

VARIABLES
  cal,      \* the zone and business_calendar_holidays
  now,      \* TimeProvider.now
  events,   \* sla_clock_events, by occurred_at
  column,   \* sla_elapsed_business_secs and sla_deadline_at
  holder,   \* who the application waits for
  worked    \* history: working ticks the platform held the case

vars == <<cal, now, events, column, holder, worked>>

NotStarted == [started |-> FALSE, running |-> FALSE, stopped |-> FALSE, since |-> 0, elapsed |-> 0]

(* One event of the log: nothing counts after STOP, a second START is not  *)
(* a restart, and a redundant PAUSE or RESUME contributes nothing.         *)
Applied(calendar, c, e) ==
  IF c.stopped THEN c
  ELSE IF (e.event = "START" /\ ~c.started) \/ (e.event = "RESUME" /\ c.started /\ ~c.running)
    THEN [c EXCEPT !.started = TRUE, !.running = TRUE, !.since = e.at]
  ELSE IF e.event \in {"PAUSE", "STOP"}
    THEN [c EXCEPT !.running = FALSE, !.stopped = e.event = "STOP",
                   !.elapsed = @ + (IF c.running THEN Between(calendar, c.since, e.at) ELSE 0)]
  ELSE c

(* reconstructSlaClock: the log event by event, the business time spent as *)
(* it is read at an instant, and the whole state.                          *)
Reconstructed(calendar, log) ==
  LET after[n \in 0..Len(log)] ==
        IF n = 0 THEN NotStarted ELSE Applied(calendar, after[n - 1], log[n])
  IN  after[Len(log)]

Spent(calendar, c, t) == c.elapsed + (IF c.running THEN Between(calendar, c.since, t) ELSE 0)

StateOf(calendar, log, t) ==
  LET c == Reconstructed(calendar, log)
      elapsed == Spent(calendar, c, t)
      remaining == Later(0, Budget - elapsed)
  IN  [elapsed |-> elapsed,
       running |-> c.running,
       breached |-> c.running /\ remaining = 0,
       deadlineAt |-> IF c.running THEN RunsOut(calendar, t, remaining) ELSE None]

Init ==
  /\ cal \in Calendar
  /\ now = 0
  /\ events = <<>>
  /\ column = [elapsed |-> 0, deadlineAt |-> None]
  /\ holder = "SUPPLIER"
  /\ worked = 0

(* record, and syncApplicationColumns in the same transaction.  Two events *)
(* fall on different milliseconds, and the log keeps their order.          *)
Record(event) ==
  /\ Len(events) < LastEvent
  /\ events # <<>> => Last(events).at < now
  /\ events' = Append(events, [event |-> event, at |-> now])
  /\ column' = LET state == StateOf(cal, events', now)
               IN  [elapsed |-> state.elapsed, deadlineAt |-> state.deadlineAt]
  /\ UNCHANGED <<cal, now, worked>>

Submit ==
  /\ holder = "SUPPLIER" /\ events = <<>> /\ now <= LatestStart
  /\ Record("START")
  /\ holder' = "PLATFORM"

Ask ==
  /\ holder = "PLATFORM"
  /\ Record("PAUSE")
  /\ holder' = "SUPPLIER"

Answer ==
  /\ holder = "SUPPLIER" /\ events # <<>>
  /\ Record("RESUME")
  /\ holder' = "PLATFORM"

Decide ==
  /\ holder \in {"PLATFORM", "SUPPLIER"} /\ events # <<>>
  /\ Record("STOP")
  /\ holder' = "NOBODY"

(* A handler that decided on a stale status, or a retry, writes an event   *)
(* that changes nothing.                                                   *)
Repeat ==
  /\ events # <<>>
  /\ \/ Record("START")
     \/ holder \in {"SUPPLIER", "NOBODY"} /\ Record("PAUSE")
     \/ holder \in {"PLATFORM", "NOBODY"} /\ Record("RESUME")
  /\ UNCHANGED holder

(* Working hours by the wall clock alone.                                  *)
Working(t) ==
  /\ LocalDay(cal, t) \notin cal.off
  /\ Wall(cal, t) % DayTicks \in Opening .. Closing - 1

Pass(ticks) ==
  /\ now + ticks <= LastTick
  /\ now' = now + ticks
  /\ worked' = IF holder = "PLATFORM"
                 THEN worked + Cardinality({t \in now .. now' - 1 : Working(t)})
                 ELSE worked
  /\ UNCHANGED <<cal, events, column, holder>>

Tick == Pass(1)

(* The demo clock jumps forward by a day; its way back is left out.        *)
Travel == events # <<>> /\ Pass(DayTicks)

Next == Submit \/ Ask \/ Answer \/ Decide \/ Repeat \/ Tick \/ Travel

Spec == Init /\ [][Next]_vars
-----------------------------------------------------------------------------
(* ZM-SON-008: what a read reconstructs from the log is the working time   *)
(* the platform held the case, tick for tick, whatever nights, days off    *)
(* and changes of the zone's offset lie between, and whatever is repeated. *)
ElapsedIsWorked == Spent(cal, Reconstructed(cal, events), now) = worked

(* The deadline written beside an event, and shown ever since, neither     *)
(* moves nor lies: the clock is in breach from that instant on and not a   *)
(* tick before.  (A budget already spent has no deadline to keep.)         *)
DeadlineIsKept ==
  LET state == StateOf(cal, events, now)
  IN  state.running /\ column.elapsed < Budget =>
        IF now < column.deadlineAt
          THEN ~state.breached /\ state.deadlineAt = column.deadlineAt
          ELSE state.breached
=============================================================================
