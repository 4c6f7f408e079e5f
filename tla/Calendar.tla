------------------------------ MODULE Calendar ------------------------------
(***************************************************************************)
(* expiry_instant of fxp_core/src/engine/session.rs: the instant at which  *)
(* a GTD order expires, computed from the digits of its date by a formula  *)
(* over 400-year eras of years that begin in March.  The behaviours walk   *)
(* through the calendar day by day, which the formula never does.          *)
(***************************************************************************)
EXTENDS Integers

CONSTANTS
  Years,  \* bound: the years walked through
  Walk    \* bound: days walked from each first day of a month

ASSUME CalendarAssumption == Years \subseteq Nat /\ Walk \in Nat

VARIABLES date, walked

vars == <<date, walked>>

Leap(year) == year % 4 = 0 /\ (year % 100 # 0 \/ year % 400 = 0)

Days(year, month) ==
  CASE month = 2                                -> IF Leap(year) THEN 29 ELSE 28
    [] month \in {4, 6, 9, 11}                  -> 30
    [] month \in {1, 3, 5, 7, 8, 10, 12}        -> 31
    [] OTHER                                    -> 0

Valid(d) == d.year # 0 /\ d.day >= 1 /\ d.day <= Days(d.year, d.month)

\* Mutant of ExpiryDay: years begin in January.
ExpiryFromJanuary(d) ==
  LET era == d.year \div 400
      yoe == d.year - era * 400
      doy == (153 * (d.month - 1) + 2) \div 5 + d.day - 1
      doe == yoe * 365 + yoe \div 4 - yoe \div 100 + doy
  IN  era * 146097 + doe - 719468 + 1

\* The midnight after the date, in days since 1970; the code multiplies it by
\* the 86400 seconds of a day, in 64 bits.
ExpiryDay(d) ==
  LET y   == IF d.month <= 2 THEN d.year - 1 ELSE d.year
      era == y \div 400
      yoe == y - era * 400
      m   == IF d.month > 2 THEN d.month - 3 ELSE d.month + 9
      doy == (153 * m + 2) \div 5 + d.day - 1
      doe == yoe * 365 + yoe \div 4 - yoe \div 100 + doy
  IN  era * 146097 + doe - 719468 + 1

-----------------------------------------------------------------------------
(* The walk, by the rules of the calendar alone.                           *)

Tomorrow(d) ==
  CASE d.day < Days(d.year, d.month) -> [d EXCEPT !.day = @ + 1]
    [] d.day = Days(d.year, d.month) /\ d.month < 12 ->
         [d EXCEPT !.day = 1, !.month = @ + 1]
    [] OTHER -> [year |-> d.year + 1, month |-> 1, day |-> 1]

Init ==
  /\ date \in {d \in [year : Years, month : 1 .. 12, day : {1}] : Valid(d)}
  /\ walked = 0

NextDay ==
  /\ walked < Walk
  /\ date' = Tomorrow(date)
  /\ walked' = walked + 1

Spec == Init /\ [][NextDay]_vars

-----------------------------------------------------------------------------

\* An order for a date expires exactly one day after an order for the day
\* before, across months, leap days, centuries and eras, and 1970-01-01 ends
\* one day after the epoch: this determines the instant of every date.
DayAfterDay ==
  /\ ExpiryDay(Tomorrow(date)) = ExpiryDay(date) + 1
  /\ date = [year |-> 1970, month |-> 1, day |-> 1] => ExpiryDay(date) = 1
=============================================================================
