-------------------------------- MODULE Calendar --------------------------------
(***************************************************************************)
(* timeAdd(), with which six of the integrations compute the end of the    *)
(* overall time interval of a product, statement by statement, against the *)
(* Gregorian calendar; and the cycle from which an ensemble has 31 members,*)
(* which the C program, the driver and the linking of the input each       *)
(* decide for themselves.                                                  *)
(***************************************************************************)
EXTENDS Integers

CONSTANTS
  InitialTimes,  \* the cycles: records as struct dt
  Offsets        \* forecast hours

Time == [yr : Nat, mo : Nat, dy : Nat, hr : Nat, mn : Nat]

-------------------------------------------------------------------------------
(* The calendar as a definition: leap years, the length of a month, and    *)
(* the minutes from the start of the year 1 to a date.                     *)
LeapYear(y) == (y % 4 = 0 /\ y % 100 # 0) \/ y % 400 = 0

DaysInMonth(y, m) ==
  IF m = 2 THEN (IF LeapYear(y) THEN 29 ELSE 28)
  ELSE IF m \in {4, 6, 9, 11} THEN 30 ELSE 31

DaysBeforeYear(y) ==
  365 * (y - 1) + (y - 1) \div 4 - (y - 1) \div 100 + (y - 1) \div 400

DaysBeforeMonth(y, m) ==
  30 * (m - 1) + (IF m < 9 THEN m \div 2 ELSE (m + 1) \div 2)
    - (IF m > 2 THEN (IF LeapYear(y) THEN 1 ELSE 2) ELSE 0)

MinutesOf(d) ==
  60 * (24 * (DaysBeforeYear(d.yr) + DaysBeforeMonth(d.yr, d.mo) + d.dy - 1) + d.hr)
    + d.mn

ValidTime(d) ==
  /\ d.yr >= 1 /\ d.mo \in 1..12
  /\ d.dy \in 1..DaysInMonth(d.yr, d.mo)
  /\ d.hr \in 0..23 /\ d.mn \in 0..59

ASSUME InitialTimesAssumption ==
  InitialTimes \subseteq Time /\ \A d \in InitialTimes : ValidTime(d)
ASSUME OffsetsAssumption == Offsets \subseteq Nat

-------------------------------------------------------------------------------
VARIABLES
  timeAt,   \* months, rest, days, return
  dtim,    \* the initial time
  offset,  \* the forecast hour the caller put into dto.hr
  dto,     \* offset on entry, the result on return
  cont     \* the flag that ends the loop on a 29 February

timeVars == <<timeAt, dtim, offset, dto, cont>>

TimeStart ==
  /\ timeAt = "months"
  /\ dto = [yr |-> dtim.yr, mo |-> dtim.mo, dy |-> 0, hr |-> offset, mn |-> 0]
  /\ cont = TRUE

TimeInit == dtim \in InitialTimes /\ offset \in Offsets /\ TimeStart

(* The tests of qleap(), in its order.                                     *)
qleap(y) ==
  /\ (y \div 4) * 4 = y
  /\ (y \div 100) * 100 # y \/ (y \div 400) * 400 = y

mosiz(m) == <<31, 28, 31, 30, 31, 30, 31, 31, 30, 31, 30, 31>>[m]

(* A month is never above 13, so the loops over mo > 12 run once.          *)
CarryMonth(d) == IF d.mo > 12 THEN [d EXCEPT !.mo = @ - 12, !.yr = @ + 1] ELSE d

NormalizeMonths ==
  /\ timeAt = "months"
  /\ dto' = CarryMonth(dto)
  /\ timeAt' = "rest"
  /\ UNCHANGED <<dtim, offset, cont>>

(* Minutes carry into hours and hours into days.                           *)
AddRest ==
  /\ timeAt = "rest"
  /\ LET mn == dto.mn + dtim.mn
         hr == dto.hr + dtim.hr + mn \div 60
     IN  dto' = [dto EXCEPT !.mn = mn % 60, !.hr = hr % 24,
                            !.dy = @ + dtim.dy + hr \div 24]
  /\ timeAt' = "days"
  /\ UNCHANGED <<dtim, offset, cont>>

LeapFebruary == dto.mo = 2 /\ qleap(dto.yr)
DaysLeft == timeAt = "days" /\ dto.dy > mosiz(dto.mo) /\ cont

(* One round of the loop over the days: 29 February stays, or a month of   *)
(* days is taken off.                                                      *)
StayOnLeapDay_Again ==
  /\ DaysLeft /\ LeapFebruary /\ dto.dy = 29
  /\ cont' = TRUE
  /\ UNCHANGED <<timeAt, dtim, offset, dto>>

StayOnLeapDay ==
  /\ DaysLeft /\ LeapFebruary /\ dto.dy = 29
  /\ cont' = FALSE
  /\ UNCHANGED <<timeAt, dtim, offset, dto>>

CarryDays_Length28 ==
  /\ DaysLeft /\ ~(LeapFebruary /\ dto.dy = 29)
  /\ dto' = CarryMonth([dto EXCEPT !.dy = @ - mosiz(dto.mo), !.mo = @ + 1])
  /\ UNCHANGED <<timeAt, dtim, offset, cont>>

CarryDays ==
  /\ DaysLeft /\ ~(LeapFebruary /\ dto.dy = 29)
  /\ dto' = CarryMonth([dto EXCEPT !.dy = @ - (IF LeapFebruary THEN 29 ELSE mosiz(dto.mo)),
                                   !.mo = @ + 1])
  /\ UNCHANGED <<timeAt, dtim, offset, cont>>

ReturnTime ==
  /\ timeAt = "days" /\ ~DaysLeft
  /\ timeAt' = "return"
  /\ UNCHANGED <<dtim, offset, dto, cont>>

TimeNext == NormalizeMonths \/ AddRest \/ StayOnLeapDay \/ CarryDays \/ ReturnTime

TimeSpec == TimeInit /\ [][TimeNext]_timeVars /\ WF_timeVars(TimeNext)

-------------------------------------------------------------------------------
(* Three ways to tell a cycle of 31 members from one of 21.                *)

(* util.c: strcmp() of ten digits, which is the order of the numbers read  *)
(* one after the other.                                                    *)
get_n_members(d) ==
  IF \/ d.yr < 2020
     \/ d.yr = 2020 /\ d.mo < 9
     \/ d.yr = 2020 /\ d.mo = 9 /\ d.dy < 23
     \/ d.yr = 2020 /\ d.mo = 9 /\ d.dy = 23 /\ d.hr < 12
  THEN 21 ELSE 31

(* ncdcTigge.pm: the cycle as one number.                                  *)
Cycle(d) == 1000000 * d.yr + 10000 * d.mo + 100 * d.dy + d.hr

get_n_members_perl_After(d) == IF Cycle(d) > 2020092312 THEN 31 ELSE 21
get_n_members_perl(d)       == IF Cycle(d) >= 2020092312 THEN 31 ELSE 21

(* link_input.py: a point in time.                                         *)
get_members(d) ==
  IF MinutesOf(d) < MinutesOf([yr |-> 2020, mo |-> 9, dy |-> 23, hr |-> 12, mn |-> 0])
  THEN 21 ELSE 31

-------------------------------------------------------------------------------
TimeTypeOK ==
  /\ timeAt \in {"months", "rest", "days", "return"}
  /\ dtim \in InitialTimes /\ offset \in Offsets
  /\ dto \in Time /\ cont \in BOOLEAN
  /\ dto.mo \in 1..12

(* The loop over the days loses no time: whatever month it is in, dto is   *)
(* the initial time plus the offset; and what is returned is a date of the *)
(* calendar, over the ends of months, years and leap years.                *)
TimeKept ==
  /\ timeAt \in {"days", "return"} => MinutesOf(dto) = MinutesOf(dtim) + 60 * offset
  /\ timeAt = "return" => ValidTime(dto)

(* Once called, timeAdd() returns; without the flag cont it would stay on  *)
(* 29 February.                                                            *)
TimeAddReturns == timeAt = "rest" ~> timeAt = "return"

(* The three programs expect the same number of members of every cycle.    *)
SameEnsemble ==
  /\ get_n_members(dtim) = get_n_members_perl(dtim)
  /\ get_n_members(dtim) = get_members(dtim)
===============================================================================
