----------------------------- MODULE TimeDomain -----------------------------
(***************************************************************************)
(* The time domain's evaluator (domains/time.rs) and its twin in the       *)
(* library API (api/applied.rs).  A value is a scalar, a datetime (the     *)
(* RFC 3339 text the code keeps, so that a zone becomes an offset as soon  *)
(* as a call is nested in another) or a formatted text.                    *)
(***************************************************************************)
EXTENDS Conversions, Calendar

CONSTANT Clock     \* the instant now() and today() are asked at

ASSUME ClockNow == Clock \in Int

NoText == Text(<<>>, 0, UTC)
TimeValue(kind, q, text) == [kind |-> kind, num |-> q, text |-> text]
Scalar(q)      == Ok(TimeValue("scalar", q, NoText))
DateTime(z)    == Ok(TimeValue("datetime", Zero, Rfc3339(z)))
\* strtime::format; a format without a clock forgets the time of day
Formatted(z, format) ==
    LET local == IF format \in IsoDates \cup DATE_FORMATS THEN Midnight(Local(z)) ELSE Local(z)
    IN  Ok(TimeValue("symbolic", Zero, Text(format :> local, OffsetAt(z.zone, z.at), Fixed(OffsetAt(z.zone, z.at)))))

FromSecond(secs, zone) == IF Magnitude(secs) > MaxInstant THEN BadArguments ELSE Ok(Zoned(secs, zone))
AsI64(q)   == Quo(q[1], q[2])
TextArg(e) == IF e.kind = "str" THEN Ok(Texts[e.head]) ELSE BadArguments
NameArg(e) == IF e.kind = "str" THEN Ok(e.head) ELSE BadArguments
ResolveTimezone(args, i) ==
    IF i > Len(args) THEN Ok(UTC)
    ELSE AndThen(NameArg(args[i]), LAMBDA name : IF name \in DOMAIN Zones THEN Ok(Zones[name]) ELSE BadArguments)
UnitArg(args, i) ==
    IF i > Len(args) THEN Ok("day") ELSE AndThen(NameArg(args[i]), ParseTimeUnit)

\* parse_date and reformat_date: a format with a date in it yields midnight,
\* whatever else it reads; "%s" alone reads an instant
ByFormat(t, format) ==
    CASE format \notin DOMAIN t.reads -> BadArguments
      [] format = "%s"                -> Ok(Zoned(t.reads[format], UTC))
      [] OTHER                        -> Ok(ToZoned(Midnight(t.reads[format]), UTC))
Weekday(local)       == ((local \div Day + 3) % 7) + 1
DayOfYearOf(local)   == LET d == local \div Day IN d - DaysOf(YearOf(d), 1, 1) + 1
Truth(b)             == Scalar(Whole(IF b THEN 1 ELSE 0))

TIME_FUNCTIONS ==
    [date |-> {1}, datetime |-> {1, 2}, timestamp |-> {1}, from_timestamp |-> {1, 2}, date_diff |-> {2, 3}, date_add |-> {3},
     parse_date |-> {2}, format_date |-> {2, 3}, reformat_date |-> {3}, weekday |-> {1}, day_of_year |-> {1}, is_leap_year |-> {1},
     now |-> {0, 1}, today |-> {0, 1}]
-----------------------------------------------------------------------------
RECURSIVE EvalTime(_), EvalToF64(_), EvalToZoned(_), EvalTimeCall(_, _)
EvalTime(e) ==
    CASE e.kind \in {"number", "bignumber"} -> Scalar(e.num)
      [] e.kind = "variable" -> IF e.head \in DOMAIN Env THEN Scalar(Env[e.head]) ELSE Fail("eval")
      [] e.kind = "binary"   -> AndThen(Collected([i \in 1 .. 2 |-> EvalToF64(e.kids[i])]),
                                        LAMBDA ab : AndThen(ScalarBinary(e.head, ab[1], ab[2]), Scalar))
      [] e.kind = "neg"      -> AndThen(EvalToF64(e.kids[1]), LAMBDA q : Scalar(Minus(Zero, q)))
      [] e.kind = "call"     -> EvalTimeCall(e.head, e.kids)
      [] OTHER               -> BadArguments

EvalToF64(e) ==
    AndThen(EvalTime(e), LAMBDA v :
        CASE v.kind = "scalar"   -> Ok(v.num)
          [] v.kind = "datetime" -> AndThen(ParseZoned(v.text), LAMBDA z : Ok(Whole(z.at)))
          [] OTHER               -> BadArguments)
ExtractI64(e) == AndThen(EvalToF64(e), LAMBDA q : IF IsInteger(q) THEN Ok(q[1]) ELSE BadArguments)

\* a number where a date is wanted is cut to whole seconds
EvalToZoned(e) ==
    IF e.kind = "str" THEN ParseZoned(Texts[e.head])
    ELSE AndThen(EvalTime(e), LAMBDA v :
        CASE v.kind = "scalar"   -> FromSecond(AsI64(v.num), UTC)
          [] v.kind = "datetime" -> ParseZoned(v.text)
          [] OTHER               -> BadArguments)
EvalToDate(e) ==
    IF e.kind = "str" THEN ParseDate(Texts[e.head])
    ELSE AndThen(EvalToZoned(e), LAMBDA z : Ok(Midnight(Local(z))))

ConstructorCall(name, args) ==
    CASE name = "date"      -> AndThen(TextArg(args[1]), LAMBDA t : AndThen(ParseDate(t), LAMBDA d : DateTime(ToZoned(d, UTC))))
      [] name = "datetime"  -> AndThen(Collected(<<TextArg(args[1]), ResolveTimezone(args, 2)>>), LAMBDA tz :
                                   AndThen(ParseDateTime(tz[1]), LAMBDA local : DateTime(ToZoned(local, tz[2]))))
      [] name = "timestamp" -> AndThen(TextArg(args[1]), LAMBDA t : AndThen(ParseTimestamp(t), LAMBDA at : Scalar(Whole(at))))
      [] name = "from_timestamp" -> AndThen(Collected(<<ExtractI64(args[1]), ResolveTimezone(args, 2)>>), LAMBDA az :
                                   AndThen(FromSecond(az[1], az[2]), DateTime))

ArithmeticCall(name, args) ==
    CASE name = "date_diff" -> AndThen(Collected(<<EvalToZoned(args[1]), EvalToZoned(args[2]), UnitArg(args, 3)>>), LAMBDA abu :
                                   Scalar(DateDiff(abu[1], abu[2], abu[3])))
      [] name = "date_add"  -> AndThen(Collected(<<EvalToZoned(args[1]), ExtractI64(args[2]), UnitArg(args, 3)>>), LAMBDA znu :
                                   AndThen(DateAdd(znu[1], znu[2], znu[3]), DateTime))

FormatCall(name, args) ==
    CASE name = "format_date" -> AndThen(Collected(<<EvalToZoned(args[1]), ResolveTimezone(args, 3), NameArg(args[2])>>), LAMBDA zzf :
                                   Formatted(Zoned(zzf[1].at, IF Len(args) = 3 THEN zzf[2] ELSE zzf[1].zone), zzf[3]))
      [] OTHER -> AndThen(Collected([i \in DOMAIN args |-> IF i = 1 THEN TextArg(args[1]) ELSE NameArg(args[i])]), LAMBDA tff :
                                   AndThen(ByFormat(tff[1], tff[2]), LAMBDA z :
                                       IF name = "parse_date" THEN DateTime(z) ELSE Formatted(z, tff[3])))

CalendarCall(name, args) ==
    CASE name = "weekday"      -> AndThen(EvalToDate(args[1]), LAMBDA d : Scalar(Whole(Weekday(d))))
      [] name = "day_of_year"  -> AndThen(EvalToDate(args[1]), LAMBDA d : Scalar(Whole(DayOfYearOf(d))))
      [] name = "is_leap_year" -> AndThen(ExtractI64(args[1]), LAMBDA y : Truth(IsLeapYear(y)))

ClockCall(name, args) ==
    AndThen(ResolveTimezone(args, 1), LAMBDA zone :
        DateTime(IF name = "now" THEN Zoned(Clock, zone) ELSE ToZoned(Midnight(Local(Zoned(Clock, zone))), zone)))

EvalTimeCall(name, args) ==
    CASE name \notin DOMAIN TIME_FUNCTIONS     -> BadArguments
      [] Len(args) \notin TIME_FUNCTIONS[name] -> BadArguments
      [] name \in {"date", "datetime", "timestamp", "from_timestamp"}  -> ConstructorCall(name, args)
      [] name \in {"date_diff", "date_add"}                            -> ArithmeticCall(name, args)
      [] name \in {"parse_date", "format_date", "reformat_date"}       -> FormatCall(name, args)
      [] name \in {"weekday", "day_of_year", "is_leap_year"}           -> CalendarCall(name, args)
      [] OTHER                                                         -> ClockCall(name, args)
-----------------------------------------------------------------------------
\* The same functions of the API, whose arguments are plain values: the
\* date functions take any text, timestamp one without an offset as well.
ApiTime(name, args) ==
    CASE name = "timestamp"    -> AndThen(ParseZoned(Texts[args[1].head]), LAMBDA z : Scalar(Whole(z.at)))
      [] name = "weekday"      -> AndThen(ParseDate(Texts[args[1].head]), LAMBDA d : Scalar(Whole(Weekday(d))))
      [] name = "day_of_year"  -> AndThen(ParseDate(Texts[args[1].head]), LAMBDA d : Scalar(Whole(DayOfYearOf(d))))
      [] OTHER                 -> EvalTimeCall(name, args)
-----------------------------------------------------------------------------
(***************************************************************************)
(* What the calendar and its functions are to be.                          *)
(***************************************************************************)

ScalarOf(r) == r.is.num
At(e)       == EvalToZoned(e).is
\* arguments the API's methods can be given
Typed(name, args) ==
    \A i \in DOMAIN args :
       IF (name \in {"from_timestamp", "is_leap_year"} /\ i = 1) \/ (name = "date_add" /\ i = 2)
       THEN IsNumber(args[i]) /\ IsInteger(args[i].num) ELSE args[i].kind = "str"

\* n units after d are n units away from it; where d is the wall clock of a
\* city and the clock is not changed in between, they are read off that clock
AddRight(d, n, unit, r) ==
    /\ EvalTime(Call("date_diff", <<d, Call("date_add", <<d, n, unit>>), unit>>)) = Scalar(EvalToF64(n).is)
    /\ d.kind = "call" /\ d.head = "datetime" /\ Len(d.kids) = 2 =>
          LET zone == Zones[d.kids[2].head]
              from == Zoned(At(d).at, zone)
              to   == Zoned(ParseZoned(r.is.text).is.at, zone)
          IN  OffsetAt(zone, from.at) = OffsetAt(zone, to.at) =>
                 to = Moved(from, EvalToF64(n).is[1], ParseTimeUnit(unit.head).is)

\* A difference is a count of whole units and a part of one more.
DiffRight(a, b, unit, r) ==
    LET count == Quo(ScalarOf(r)[1], ScalarOf(r)[2])
        u     == ParseTimeUnit(unit.head).is
        way   == IF At(a).at <= At(b).at THEN 1 ELSE -1
    IN  /\ u \in {"s", "min", "h"} => EvalTime(Call("date_diff", <<b, a, unit>>)) = Scalar(Minus(Zero, ScalarOf(r)))
        /\ At(a).at # At(b).at => Sign(ScalarOf(r)[1]) = way
        /\ way * (At(b).at - Moved(At(a), count, u).at) >= 0
        /\ way * (At(b).at - Moved(At(a), count + way, u).at) < 0

\* The wall clock time a text says, in a zone, unless the clock skipped it.
WallClockRight(text, zone, r) ==
    LET z == Zoned(ParseZoned(r.is.text).is.at, zone)
    IN  /\ ToZoned(Local(z), zone).at <= z.at
        /\ Local(z) - ParseDateTime(text).is \in {0, Hour}
        /\ ~text.ambiguous

\* The day after d comes next in its week and in its year.
DayRight(name, d, day) ==
    LET next == ScalarOf(EvalTime(Call(name, <<Call("date_add", <<d, Num(1), Str("day")>>)>>)))[1]
    IN  IF name = "weekday" THEN next = (day % 7) + 1
        ELSE next = day + 1 \/ (next = 1 /\ day \in {365, 366})

TimeRight(e, r) ==
    LET a == e.kids
    IN  /\ r.ok /\ e.kind = "call" /\ Typed(e.head, a) => ApiTime(e.head, a) = r
        /\ r.ok /\ e.kind = "call" =>
           CASE e.head = "date_add"  -> AddRight(a[1], a[2], a[3], r)
             [] e.head = "date_diff" -> DiffRight(a[1], a[2], IF Len(a) = 3 THEN a[3] ELSE Str("day"), r)
             [] e.head = "datetime"  -> WallClockRight(Texts[a[1].head], ResolveTimezone(a, 2).is, r)
             [] e.head = "from_timestamp" -> EvalToF64(BinaryOp("+", e, Num(0))) = EvalToF64(a[1])
             [] e.head \in {"weekday", "day_of_year"} -> DayRight(e.head, a[1], ScalarOf(r)[1])
             [] OTHER -> TRUE
=============================================================================
