------------------------------ MODULE Calendar ------------------------------
(***************************************************************************)
(* Dates and times: math/time.rs and the civil calendar of math/fx.rs.     *)
(*                                                                         *)
(* An instant is a number of seconds since 1970, a local time the same     *)
(* number read off a wall clock.  A zone is a fixed offset, or a city that *)
(* is one hour ahead between Spring and Fall.  A text is given by what     *)
(* each strptime format reads in it; the library (jiff) that parses and    *)
(* that knows zones and calendars is external.                             *)
(***************************************************************************)
EXTENDS RustNumbers

CONSTANTS
    Texts,         \* string -> what it says (see Text)
    Zones,         \* name -> zone
    Spring, Fall,  \* when the city's clock is put forward and back
    MaxInstant,    \* the last instant a Timestamp holds
    MaxSpan        \* the largest number of units a Span holds

ASSUME ClockAssumption ==
    /\ Spring \in Int /\ Fall \in Int /\ Spring < Fall
    /\ MaxInstant \in Nat /\ MaxSpan \in Nat

Hour == 3600
Day  == 86400

\* reads: format -> local time; offset: of a text that has one
Text(reads, offset, zone) == [reads |-> reads, offset |-> offset, zone |-> zone, ambiguous |-> FALSE, chinese |-> FALSE]
Fixed(offset) == [city |-> FALSE, offset |-> offset]
City          == [city |-> TRUE, offset |-> -5 * Hour]
UTC           == Fixed(0)
-----------------------------------------------------------------------------
IsLeapYear(y) == (Rem(y, 4) = 0 /\ Rem(y, 100) # 0) \/ Rem(y, 400) = 0

\* years counted from March, in eras of 400
EraDays == 146097
DateInEra(era, doe) ==
    LET yoe   == (doe - doe \div 1460 + doe \div 36524 - doe \div 146096) \div 365
        doy   == doe - (365 * yoe + yoe \div 4 - yoe \div 100)
        mp    == (5 * doy + 2) \div 153
        month == IF mp < 10 THEN mp + 3 ELSE mp - 9
    IN  <<yoe + era * 400 + (IF month <= 2 THEN 1 ELSE 0), month, doy - (153 * mp + 2) \div 5 + 1>>
\* Mutant: the era of a negative day is taken as that of a positive one.
CivilFromDaysTruncated(days) ==
    LET z == days + 719468  era == Quo(z, EraDays) IN DateInEra(era, z - era * EraDays)
CivilFromDays(days) ==
    LET z   == days + 719468
        era == Quo(IF z >= 0 THEN z ELSE z - (EraDays - 1), EraDays)
    IN  DateInEra(era, z - era * EraDays)
-----------------------------------------------------------------------------
(***************************************************************************)
(* The library's calendar and zones.                                       *)
(***************************************************************************)
Leap(y)         == y % 4 = 0 /\ (y % 100 # 0 \/ y % 400 = 0)
MonthDays(y, m) == IF m = 2 THEN (IF Leap(y) THEN 29 ELSE 28) ELSE IF m \in {4, 6, 9, 11} THEN 30 ELSE 31
YearStart(y)    == 365 * (y - 1970) + (y - 1) \div 4 - (y - 1) \div 100 + (y - 1) \div 400 - 477
DaysBefore(y, m) == <<0, 31, 59, 90, 120, 151, 181, 212, 243, 273, 304, 334>>[m] + (IF m > 2 /\ Leap(y) THEN 1 ELSE 0)
DaysOf(y, m, d) == YearStart(y) + DaysBefore(y, m) + d - 1
IsDate(y, m, d) == m \in 1 .. 12 /\ d \in 1 .. MonthDays(y, m)
\* Day `days` has exactly one year, month and day of the month.
CivilRight(days, r) == IsDate(r[1], r[2], r[3]) /\ DaysOf(r[1], r[2], r[3]) = days
YearOf(days)    == LET near == 1970 + (400 * days) \div EraDays
                   IN  CHOOSE y \in near - 1 .. near + 1 : YearStart(y) <= days /\ days < YearStart(y + 1)
MonthOf(days)   == LET y == YearOf(days)
                   IN  CHOOSE m \in 1 .. 12 : DaysOf(y, m, 1) <= days /\ days < DaysOf(y, m, 1) + MonthDays(y, m)

OffsetAt(zone, at) == IF zone.city /\ Spring <= at /\ at < Fall THEN zone.offset + Hour ELSE zone.offset
Zoned(at, zone)    == [at |-> at, zone |-> zone]
Local(z)           == z.at + OffsetAt(z.zone, z.at)
\* of two readings the earlier one; a time the clock skips is moved forward
ToZoned(local, zone) ==
    LET readings == {at \in {local - zone.offset, local - zone.offset - Hour} : at + OffsetAt(zone, at) = local}
    IN  Zoned(IF readings = {} THEN local - zone.offset ELSE Min(readings), zone)

AddMonths(local, n) ==
    LET days  == local \div Day
        count == 12 * YearOf(days) + MonthOf(days) - 1 + n
        y     == count \div 12
        m     == (count % 12) + 1
        d     == days - DaysOf(YearOf(days), MonthOf(days), 1) + 1
    IN  Day * DaysOf(y, m, Min({d, MonthDays(y, m)})) + (local % Day)

Seconds(unit) == CASE unit = "s" -> 1 [] unit = "min" -> 60 [] unit = "h" -> Hour [] unit = "day" -> Day [] unit = "week" -> 7 * Day
\* checked_add: hours and less move the instant, the rest the wall clock
Moved(z, n, unit) ==
    CASE unit \in {"s", "min", "h"}   -> Zoned(z.at + n * Seconds(unit), z.zone)
      [] unit \in {"day", "week"}     -> ToZoned(Local(z) + n * Seconds(unit), z.zone)
      [] unit \in {"month", "year"}   -> ToZoned(AddMonths(Local(z), IF unit = "year" THEN 12 * n ELSE n), z.zone)

\* total: whole units from a on, and the part of the next one
Total(span, unit, a) ==
    IF unit \in {"s", "min", "h"} THEN Ratio(span, Seconds(unit))
    ELSE LET end    == a.at + span
             way    == Sign(span)
             guess  == Magnitude(span) \div (IF unit = "year" THEN 365 * Day ELSE IF unit = "month" THEN 28 * Day ELSE Seconds(unit))
             whole  == Max({n \in (IF unit \in {"month", "year"} THEN 0 ELSE guess - 1) .. guess + 1 : way * (end - Moved(a, way * n, unit).at) >= 0})
             from   == Moved(a, way * whole, unit).at
             to     == Moved(a, way * (whole + 1), unit).at
         IN  Times(Whole(way), Plus(Whole(whole), Ratio(end - from, to - from)))

OffsetFormat  == "%Y-%m-%dT%H:%M:%S%:z"
ZuluFormat    == "%Y-%m-%dT%H:%M:%SZ"
ZoneFormat    == "%Y-%m-%dT%H:%M:%S%:z[%Q]"
OffsetFormats == {OffsetFormat, ZuluFormat, "%Y-%m-%d %H:%M:%S%:z"}
\* what the civil types' own parsers read: they pass over an offset, not over a Z
IsoDates      == {"%Y-%m-%d", "%Y%m%d"}
IsoFormats    == {"%Y-%m-%dT%H:%M:%S", "%Y-%m-%dT%H:%M", "%Y-%m-%d %H:%M:%S", "%Y-%m-%d %H:%M", OffsetFormat, ZoneFormat}
Strptime(t, formats) == {t.reads[f] : f \in formats \cap DOMAIN t.reads}
Midnight(local)      == local - (local % Day)
-----------------------------------------------------------------------------
(***************************************************************************)
(* Parsing.  A parse yields a local time, or fails; of the formats that    *)
(* match a text all read the same in it, unless it is ambiguous.           *)
(***************************************************************************)
DATE_FORMATS == {"%Y-%m-%d", "%Y/%m/%d", "%Y.%m.%d", "%Y%m%d", "%d %b %Y", "%b %d, %Y", "%B %d, %Y"}
DATETIME_FORMATS ==
    {"%Y-%m-%dT%H:%M:%S", "%Y-%m-%dT%H:%M", "%Y-%m-%d %H:%M:%S", "%Y-%m-%d %H:%M", "%Y/%m/%d %H:%M:%S", "%Y/%m/%d %H:%M",
     "%Y%m%dT%H%M%S", "%Y.%m.%d %H:%M:%S", "%d %b %Y %H:%M:%S", "%b %d, %Y %H:%M:%S", "%B %d, %Y %H:%M:%S"}
\* the words stand for the characters of the Chinese formats
CHINESE_DATES     == {"%Y year %m month %d day"}
CHINESE_DATETIMES == {"%Y year %m month %d day %H:%M:%S", "%Y year %m month %d day%H:%M:%S", "%Y year %m month %d day %H:%M"}

Read(found) == IF found = {} THEN BadArguments ELSE Ok(TheOne(found))
ReadDate(t, formats) == Read({Midnight(local) : local \in Strptime(t, formats)})

ParseDate(t) ==
    CASE Strptime(t, IsoDates \cup IsoFormats) # {} -> ReadDate(t, IsoDates \cup IsoFormats)
      [] t.ambiguous -> BadArguments
      [] t.chinese   -> ReadDate(t, CHINESE_DATES)
      [] OTHER       -> ReadDate(t, DATE_FORMATS)

ParseChinese(t) == IF Strptime(t, CHINESE_DATETIMES) # {} THEN Read(Strptime(t, CHINESE_DATETIMES)) ELSE ReadDate(t, CHINESE_DATES)
ParseDateTime(t) ==
    CASE Strptime(t, IsoDates \cup IsoFormats) # {} -> Read(Strptime(t, IsoDates \cup IsoFormats))
      [] t.ambiguous -> BadArguments
      [] t.chinese   -> ParseChinese(t)
      [] OTHER       -> IF Strptime(t, DATETIME_FORMATS) # {} THEN Read(Strptime(t, DATETIME_FORMATS)) ELSE ParseDate(t)

\* a Timestamp needs an offset or a Z
ParseTimestamp(t) == AndThen(Read(Strptime(t, OffsetFormats \cup {ZoneFormat})), LAMBDA local : Ok(local - t.offset))

ParseZoned(t) ==
    CASE ZoneFormat \in DOMAIN t.reads   -> Ok(Zoned(t.reads[ZoneFormat] - t.offset, t.zone))
      [] Strptime(t, OffsetFormats) # {} -> AndThen(ParseTimestamp(t), LAMBDA at : Ok(Zoned(at, Fixed(t.offset))))
      [] OTHER                           -> AndThen(ParseDateTime(t), LAMBDA local : Ok(ToZoned(local, UTC)))

\* zoned_to_rfc3339: the text keeps the offset and forgets the zone
Rfc3339(z) == LET offset == OffsetAt(z.zone, z.at) IN Text([f \in {OffsetFormat} |-> Local(z)], offset, Fixed(offset))
-----------------------------------------------------------------------------
ParseTimeUnit(s) ==
    CASE s \in {"s", "second", "seconds"}  -> Ok("s")
      [] s \in {"min", "minute", "minutes"} -> Ok("min")
      [] s \in {"h", "hour", "hours"}      -> Ok("h")
      [] s \in {"day", "days"}             -> Ok("day")
      [] s \in {"week", "weeks"}           -> Ok("week")
      [] s \in {"month", "months"}         -> Ok("month")
      [] s \in {"year", "years"}           -> Ok("year")
      [] OTHER                             -> BadArguments

DateDiff(a, b, unit) == IF a.at = b.at THEN Zero ELSE Total(b.at - a.at, unit, a)
DateAdd(z, n, unit) ==
    IF Magnitude(n) > MaxSpan THEN BadArguments
    ELSE LET moved == Moved(z, n, unit) IN IF Magnitude(moved.at) > MaxInstant THEN BadArguments ELSE Ok(moved)
=============================================================================
