---------------------------- MODULE UtilDates -----------------------------
(***************************************************************************)
(* The date helpers of Util.swift, on instants counted in ticks since      *)
(* 1970-01-01 GMT.  A second has TicksPerSecond ticks; the text form of a  *)
(* date keeps whole seconds only.  A date text is represented by the       *)
(* number of seconds it denotes.                                           *)
(***************************************************************************)
EXTENDS Integers

CONSTANTS
    TicksPerSecond,   \* resolution of Date(), finer than the text form
    SecondsPerDay

ASSUME DatesAssumption ==
    /\ TicksPerSecond \in Nat \ {0}
    /\ SecondsPerDay \in Nat \ {0}

TicksPerDay == TicksPerSecond * SecondsPerDay

\* Util.DateToString, format yyyy-MM-dd HH:mm:ss in GMT: the fraction of the
\* second is dropped.
DateToStringRoundedUp(t) == (t \div TicksPerSecond) + 1

DateToString(t) == t \div TicksPerSecond

\* Util.StringToDate, same format and zone; a text it cannot read is taken
\* for 1970-01-01 00:00:00.
StringToDate(s) == IF s \in Nat THEN s * TicksPerSecond ELSE 0

\* The calendar day, in a zone offset ticks east of GMT, whose start
\* Calendar.startOfDay returns.
LocalDay(t, offset) == (t + offset) \div TicksPerDay

\* Util.dayBetweenDates: days from the first date to the second, negative
\* when the second one is earlier.
dayBetweenDates(firstDate, secondDate, offset) ==
    LocalDay(secondDate, offset) - LocalDay(firstDate, offset)

===========================================================================
