---------------------------- MODULE DeadlineEngine ----------------------------
(* The deterministic deadline engine of packages/contract-rules: from an      *)
(* executable rule, a calendar revision and a trigger instant to a            *)
(* contractual deadline, its trace and the internal warnings before it.       *)
(*                                                                            *)
(* An instant is three times the day's number plus the part of the day: 0 its *)
(* start, 1 its middle, 2 its end. Day 0 is the first day of the first month  *)
(* and falls on weekday FirstWeekday (1 is Monday). Zones, wording and the    *)
(* payloads of trace steps are left out.                                      *)
EXTENDS Integers, Sequences, SequencesExt

CONSTANTS MonthLengths,  \* the lengths of the months, in order
          FirstWeekday,  \* the weekday of day 0
          MaxWalk,       \* the loop guard of addBusinessDays, 5000 in the code
          MaxShift,      \* the loop guard of adjustNonWorking, 370 in the code
          NoValue        \* a duration without a value

Units == {"CALENDAR_DAY", "BUSINESS_DAY", "WEEK", "MONTH", "IMMEDIATE", "PROMPT",
          "REASONABLE_TIME", "CUSTOM"}
NonNumeric == {"IMMEDIATE", "PROMPT", "REASONABLE_TIME"}

DayOf(instant) == instant \div 3
PlusDays(instant, n) == instant + 3 * n
StartOfDay(instant) == 3 * DayOf(instant)
EndOfDay(instant)   == 3 * DayOf(instant) + 2
Weekday(day) == ((day + FirstWeekday - 1) % 7) + 1

(* Month arithmetic keeps the day of the month, or takes the month's last.    *)
Smaller(a, b) == IF a < b THEN a ELSE b
FirstDays ==
  LET upTo[m \in 0..Len(MonthLengths)] == IF m = 0 THEN 0 ELSE upTo[m - 1] + MonthLengths[m]
  IN [m \in DOMAIN MonthLengths |-> upTo[m - 1]]
MonthOf(day) == CHOOSE m \in DOMAIN MonthLengths :
                  FirstDays[m] <= day /\ day < FirstDays[m] + MonthLengths[m]
PlusMonths(instant, n) ==
  LET m    == MonthOf(DayOf(instant))
      date == DayOf(instant) - FirstDays[m]
  IN PlusDays(instant, FirstDays[m + n] + Smaller(date, MonthLengths[m + n] - 1) - DayOf(instant))

(* Special working days override weekends and holidays.                       *)
IsBusinessDay(day, calendar) ==
  \/ day \in calendar.specialWorkingDays
  \/ Weekday(day) \notin calendar.weekendDays /\ day \notin calendar.holidays

(* The loops give up after their guard and keep the day they stand on.        *)
AdjustNonWorking(instant, calendar, adjustment) ==
  LET step == IF adjustment = "FORWARD" THEN 1 ELSE -1
      cursor[guard \in 0..MaxShift] ==
        IF guard = 0 THEN instant
        ELSE LET at == cursor[guard - 1]
             IN IF IsBusinessDay(DayOf(at), calendar) THEN at ELSE PlusDays(at, step)
  IN IF adjustment = "NONE" THEN instant ELSE cursor[MaxShift]

AddBusinessDays(start, days, calendar) ==
  LET walk[guard \in 0..MaxWalk] ==
        IF guard = 0 THEN [at |-> start, remaining |-> days]
        ELSE LET was  == walk[guard - 1]
                 next == PlusDays(was.at, 1)
             IN IF was.remaining <= 0 THEN was
                ELSE [at |-> next,
                      remaining |-> was.remaining -
                                    (IF IsBusinessDay(DayOf(next), calendar) THEN 1 ELSE 0)]
  IN walk[MaxWalk].at

(* Why a rule may not be executed.                                            *)
RuleReasons(rule) ==
  {reason \in {"not_approved", "ambiguous", "uncertain", "recipients", "not_definitive",
               "custom", "counting", "no_value", "negative", "numeric_immediate"} :
     \/ reason = "not_approved" /\ ~rule.humanApproved
     \/ reason = "ambiguous" /\ rule.ambiguous
     \/ reason = "uncertain" /\ rule.timeBarClassification = "UNCERTAIN"
     \/ reason = "recipients" /\ ~rule.requiredRecipientsApproved
     \/ reason = "not_definitive" /\ rule.durationUnit \in {"PROMPT", "REASONABLE_TIME"}
     \/ reason = "custom" /\ rule.durationUnit = "CUSTOM"
     \/ reason = "counting" /\ rule.counting = "UNSPECIFIED"
     \/ /\ rule.durationUnit \notin NonNumeric
        /\ \/ reason = "no_value" /\ rule.durationValue = NoValue
           \/ reason = "negative" /\ rule.durationValue # NoValue /\ rule.durationValue < 0
     \/ /\ reason = "numeric_immediate"
        /\ rule.durationUnit = "IMMEDIATE" /\ rule.durationValue # NoValue}

CalendarReasons(calendar) == IF calendar.zoneKnown THEN {} ELSE {"zone"}
TriggerReasons(trigger)   == IF trigger.valid THEN {} ELSE {"trigger"}

Blocked(reasons, trace) ==
  [status |-> "BLOCKED", reasons |-> reasons, at |-> NoValue, trace |-> trace,
   warnings |-> {}, immediate |-> FALSE]
Calculated(at, trace, warnings, immediate) ==
  [status |-> "CALCULATED", reasons |-> {}, at |-> at, trace |-> trace,
   warnings |-> warnings, immediate |-> immediate]

(* Mutant: both conventions take a day off. *)
DaysToAddTwice(rule) ==
  rule.durationValue - (IF rule.startDateConvention = "INCLUDE_TRIGGER_DAY" THEN 1 ELSE 0)
                     - (IF rule.counting = "INCLUSIVE" THEN 1 ELSE 0)

(* Counting the trigger day takes one day off the duration, once.             *)
DaysToAdd(rule) ==
  IF /\ rule.durationValue >= 1
     /\ \/ rule.startDateConvention = "INCLUDE_TRIGGER_DAY"
        \/ rule.counting = "INCLUSIVE" /\ rule.startDateConvention = "EXCLUDE_TRIGGER_DAY"
  THEN rule.durationValue - 1 ELSE rule.durationValue

Arithmetic(rule, calendar, at) ==
  CASE rule.durationUnit = "CALENDAR_DAY" -> PlusDays(at, DaysToAdd(rule))
    [] rule.durationUnit = "BUSINESS_DAY" -> AddBusinessDays(at, DaysToAdd(rule), calendar)
    [] rule.durationUnit = "WEEK"         -> PlusDays(at, 7 * rule.durationValue)
    [] rule.durationUnit = "MONTH"        -> PlusMonths(at, rule.durationValue)
ArithmeticStep(rule) ==
  CASE rule.durationUnit = "CALENDAR_DAY" -> "ADD_CALENDAR_DAYS"
    [] rule.durationUnit = "BUSINESS_DAY" -> "ADD_BUSINESS_DAYS"
    [] rule.durationUnit = "WEEK"         -> "ADD_WEEKS"
    [] rule.durationUnit = "MONTH"        -> "ADD_MONTHS"

Adjusted(rule, calendar, at) ==
  IF rule.durationUnit \in {"CALENDAR_DAY", "WEEK", "MONTH"}
  THEN AdjustNonWorking(at, calendar, rule.nonWorkingAdjustment) ELSE at
EndDayRule(rule, at) ==
  CASE rule.endDateConvention = "END_OF_DAY"      -> EndOfDay(at)
    [] rule.endDateConvention = "START_OF_DAY"    -> StartOfDay(at)
    [] rule.endDateConvention = "EXACT_TIMESTAMP" -> at

(* A warning that would not fall after the trigger is dropped.                *)
WarningOffsets(offsets, trigger, deadline) ==
  {i \in DOMAIN offsets : PlusDays(deadline, -offsets[i]) > trigger}

Numeric(rule, calendar, trigger, offsets) ==
  LET reached  == Arithmetic(rule, calendar, trigger)
      adjusted == Adjusted(rule, calendar, reached)
      deadline == EndDayRule(rule, adjusted)
      kept     == WarningOffsets(offsets, trigger, deadline)
      trace    == <<"SELECT_TRIGGER_DATE", "NORMALIZE_TIMEZONE", "APPLY_START_DAY_RULE",
                    ArithmeticStep(rule)>>
                  \o (IF adjusted = reached THEN <<>> ELSE <<"APPLY_WEEKEND_ADJUSTMENT">>)
                  \o <<"APPLY_END_DAY_RULE">>
                  \o [i \in 1..Cardinality(kept) |-> "APPLY_INTERNAL_BUFFER"]
  IN Calculated(deadline, trace, {PlusDays(deadline, -offsets[i]) : i \in kept}, FALSE)

CalculateDeadline(rule, calendar, trigger, offsets) ==
  LET refused  == RuleReasons(rule) \cup CalendarReasons(calendar)
      selected == <<"SELECT_TRIGGER_DATE", "NORMALIZE_TIMEZONE">>
      block    == <<"BLOCK_AMBIGUOUS_RULE">>
  IN IF refused # {} THEN Blocked(refused, block)
     ELSE IF TriggerReasons(trigger) # {} THEN Blocked(TriggerReasons(trigger), block)
     ELSE IF rule.durationUnit = "IMMEDIATE"
     THEN Calculated(trigger.at, selected \o <<"HANDLE_IMMEDIATE">>, {}, TRUE)
     ELSE IF rule.durationUnit = "MONTH" /\ rule.monthRollBehavior # "SAME_DAY_OR_LAST"
     THEN Blocked({"month_end"}, selected \o <<"APPLY_START_DAY_RULE">> \o block)
     ELSE Numeric(rule, calendar, trigger.at, offsets)

(* Two results agree when their status, deadline and trace length do.         *)
SameResult(a, b) == a.status = b.status /\ a.at = b.at /\ Len(a.trace) = Len(b.trace)

------------------------------------------------------------------------------
(* What the conventions mean, said without loops.                             *)

BusinessDaysIn(from, to, calendar) == {d \in from..to : IsBusinessDay(d, calendar)}

(* The numbers of days a contract's conventions count, the trigger day        *)
(* included or not, end on the day itself: for business days the last counted *)
(* day is worked and is the n-th after the trigger; an adjusted day is the    *)
(* nearest worked day in the adjustment's direction; and no day is skipped    *)
(* when nothing has to be adjusted.                                           *)
IsNthBusinessDay(day, n, from, calendar) ==
  IF n = 0 THEN day = from
  ELSE /\ day \in BusinessDaysIn(from + 1, day, calendar)
       /\ Cardinality(BusinessDaysIn(from + 1, day, calendar)) = n
IsNearestWorkingDay(day, from, calendar, adjustment) ==
  CASE adjustment = "NONE" -> day = from
    [] adjustment = "FORWARD" ->
         day >= from /\ BusinessDaysIn(from, day, calendar) = {day}
    [] adjustment = "BACKWARD" ->
         day <= from /\ BusinessDaysIn(day, from, calendar) = {day}
LastDayOfMonth(day) == DayOf(PlusMonths(3 * day, 0)) = FirstDays[MonthOf(day)] + MonthLengths[MonthOf(day)] - 1
==============================================================================
