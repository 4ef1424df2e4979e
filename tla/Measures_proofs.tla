---------------------------- MODULE Measures_proofs ----------------------------
(***************************************************************************)
(* What is proved of dates, times and amounts, for every input: the civil  *)
(* calendar of the rates and of the time domain and the date arithmetic    *)
(* over it; the rationals as an ordered field, so that units convert as    *)
(* their scales say and back, and currencies as their rates say; and the   *)
(* budgets and prices of the server, which keep what the tools promise of  *)
(* them.                                                                   *)
(***************************************************************************)
EXTENDS Calendar, Amounts, Arithmetic_proofs

-----------------------------------------------------------------------------
(* The calendar.                                                           *)

\* A remainder of Rust is zero where TLA+'s is.
LEMMA RemOfLeap ==
    ASSUME NEW y \in Int, NEW k \in {4, 100, 400}
    PROVE  Rem(y, k) = 0 <=> y % k = 0
<1>1. CASE k = 4   BY <1>1 DEF Rem, Quo, Sign, Magnitude
<1>2. CASE k = 100 BY <1>2 DEF Rem, Quo, Sign, Magnitude
<1>3. CASE k = 400 BY <1>3 DEF Rem, Quo, Sign, Magnitude
<1> QED BY <1>1, <1>2, <1>3

\* The leap year rule of the code (is_leap_year) is that of the calendar, for
\* years before 0 too, where Rust's remainders are negative.
THEOREM LeapYears == \A y \in Int : IsLeapYear(y) <=> Leap(y)
  BY RemOfLeap DEF IsLeapYear, Leap

\* A day has one era, and a place in it: the remark [0, 146096].
LEMMA EraOf ==
    ASSUME NEW z \in Int
    PROVE  LET era == Quo(IF z >= 0 THEN z ELSE z - (EraDays - 1), EraDays)
           IN  era \in Int /\ 0 <= z - era * EraDays /\ z - era * EraDays < EraDays
<1>1. CASE z >= 0
  <2> DEFINE n == z \div 146097
  <2>1. n \in Int /\ 146097 * n <= z /\ z < 146097 * n + 146097 OBVIOUS
  <2>2. Quo(z, EraDays) = n
    <3>1. Sign(z) * Sign(146097) * n = n
      <4>1. z = 0 => n = 0 OBVIOUS
      <4> HIDE DEF n
      <4> QED BY <1>1, <2>1, <4>1 DEF Sign
    <3> QED BY <1>1, <3>1 DEF Quo, Magnitude, EraDays
  <2> HIDE DEF n
  <2> QED BY <1>1, <2>1, <2>2 DEF EraDays
<1>2. CASE z < 0
  <2> DEFINE n == (146096 - z) \div 146097
  <2>1. n \in Int /\ 146097 * n <= 146096 - z /\ 146096 - z < 146097 * n + 146097 BY <1>2
  <2>2. Quo(z - (EraDays - 1), EraDays) = -n
    <3>1. -(z - 146096) = 146096 - z /\ z - 146096 < 0 BY <1>2
    <3>2. Magnitude(z - 146096) = 146096 - z /\ Magnitude(146097) = 146097 BY <3>1 DEF Magnitude
    <3>3. Sign(z - 146096) = -1 /\ Sign(146097) = 1 BY <3>1 DEF Sign
    <3>4. Quo(z - 146096, 146097) = -1 * 1 * n BY <3>2, <3>3 DEF Quo
    <3> HIDE DEF n
    <3> QED BY <3>4, <2>1 DEF EraDays
  <2> HIDE DEF n
  <2> QED BY <1>2, <2>1, <2>2 DEF EraDays
<1> QED BY <1>1, <1>2

\* Within a century: day r, of the century's year q = 4 f + s.
LEMMA YearOfCentury ==
    ASSUME NEW b \in Int, 0 <= b, b <= 3, NEW r \in Int, 0 <= r, r <= 36523,
           NEW a \in Int, NEW q \in Int, NEW f \in Int, NEW s \in Int, 0 <= s, s <= 3,
           1460 * a <= 24 * b + r, 24 * b + r < 1460 * a + 1460,
           365 * q <= r - a, r - a < 365 * q + 365, q = 4 * f + s
    PROVE  /\ 0 <= q /\ q <= 99
           /\ 0 <= r - 365 * q - f /\ r - 365 * q - f <= 365
           /\ r - 365 * q - f = 365 => s = 3 /\ 0 <= f /\ f <= 23
<1>1. 0 <= a /\ a <= 25  OBVIOUS
<1>2. 0 <= q /\ q <= 99 /\ 0 <= f /\ f <= 24 BY <1>1
<1>3. a >= f /\ a <= f + 1 BY <1>1, <1>2
<1>4. 0 <= r - 365 * q - f /\ r - 365 * q - f <= 365  BY <1>3
<1>5. ASSUME r - 365 * q - f = 365 PROVE s = 3 /\ f <= 23
  <2>1. a = f + 1 BY <1>3, <1>5
  <2>2. s = 3 BY <1>1, <1>2, <1>5, <2>1
  <2> QED BY <1>2, <1>5, <2>2
<1> QED BY <1>2, <1>4, <1>5

\* Days of the years 0 .. n - 1 of an era, counted from March.
Before(n) == 365 * n + n \div 4 - n \div 100
YearIn(doe) == (doe - doe \div 1460 + doe \div 36524 - doe \div 146096) \div 365

\* A number of whole centuries and a year of the next one.
LEMMA Centuries ==
    ASSUME NEW b \in Int, NEW q \in Int, NEW f \in Int, NEW s \in Int,
           0 <= s, s <= 3, q = 4 * f + s, 0 <= q, q <= 99
    PROVE  (100 * b + q) \div 4 = 25 * b + f /\ (100 * b + q) \div 100 = b
<1> DEFINE n == 100 * b + q
<1>1. n \in Int /\ 4 * (25 * b + f) <= n /\ n < 4 * (25 * b + f) + 4 /\ 100 * b <= n /\ n < 100 * b + 100 OBVIOUS
<1> HIDE DEF n
<1>2. n \div 4 \in Int /\ 4 * (n \div 4) <= n /\ n < 4 * (n \div 4) + 4 BY <1>1
<1>3. n \div 100 \in Int /\ 100 * (n \div 100) <= n /\ n < 100 * (n \div 100) + 100 BY <1>1
<1>4. n \div 4 = 25 * b + f BY <1>1, <1>2
<1>5. n \div 100 = b BY <1>1, <1>3
<1> QED BY <1>4, <1>5 DEF n

\* [0, 399] and [0, 365]: the year holds the day, and its 366th day is there
\* only in a leap year.
LEMMA YearOfEra ==
    ASSUME NEW doe \in Int, 0 <= doe, doe < EraDays
    PROVE  /\ YearIn(doe) \in Int /\ 0 <= YearIn(doe) /\ YearIn(doe) <= 399
           /\ 0 <= doe - Before(YearIn(doe)) /\ doe - Before(YearIn(doe)) <= 365
           /\ doe - Before(YearIn(doe)) = 365 => Leap(YearIn(doe) + 1)
<1>1. CASE doe = 146096
  <2>1. YearIn(doe) = 399 BY <1>1 DEF YearIn
  <2>2. Before(399) = 145731 BY DEF Before
  <2>3. Leap(400) BY DEF Leap
  <2> QED BY <1>1, <2>1, <2>2, <2>3
<1>2. CASE doe # 146096
  <2>1. doe < 146096 BY <1>2 DEF EraDays
  <2>2. doe \div 146096 = 0 BY <2>1
  <2>3. PICK b \in Int : b = doe \div 36524 /\ 36524 * b <= doe /\ doe < 36524 * b + 36524
    <3>1. doe \div 36524 \in Int /\ 36524 * (doe \div 36524) <= doe /\ doe < 36524 * (doe \div 36524) + 36524 OBVIOUS
    <3> QED BY <3>1
  <2>4. PICK w \in Int : w = doe \div 1460 /\ 1460 * w <= doe /\ doe < 1460 * w + 1460
    <3>1. doe \div 1460 \in Int /\ 1460 * (doe \div 1460) <= doe /\ doe < 1460 * (doe \div 1460) + 1460 OBVIOUS
    <3> QED BY <3>1
  <2>5. PICK y \in Int : y = YearIn(doe) /\ 365 * y <= doe - w + b /\ doe - w + b < 365 * y + 365
    <3>1. YearIn(doe) = (doe - w + b) \div 365 BY <2>2, <2>3, <2>4 DEF YearIn
    <3> DEFINE n == doe - w + b
    <3>2. n \in Int OBVIOUS
    <3> HIDE DEF n
    <3>3. n \div 365 \in Int /\ 365 * (n \div 365) <= n /\ n < 365 * (n \div 365) + 365 BY <3>2
    <3> QED BY <3>1, <3>3 DEF n
  <2> DEFINE q == y - 100 * b
  <2>6. PICK f \in Int : 4 * f <= q /\ q < 4 * f + 4
    <3>1. q \in Int OBVIOUS
    <3> HIDE DEF q
    <3>2. q \div 4 \in Int /\ 4 * (q \div 4) <= q /\ q < 4 * (q \div 4) + 4 BY <3>1
    <3> QED BY <3>2
  <2>7. 0 <= b /\ b <= 3 BY <2>1, <2>3
  <2> DEFINE r == doe - 36524 * b   a == w - 25 * b   s == q - 4 * f
  <2>8. /\ r \in Int /\ a \in Int /\ q \in Int /\ s \in Int
        /\ 0 <= r /\ r <= 36523 /\ 0 <= s /\ s <= 3
    BY <2>3, <2>6
  <2>9. 1460 * a <= 24 * b + r /\ 24 * b + r < 1460 * a + 1460 BY <2>4
  <2>10. 365 * q <= r - a /\ r - a < 365 * q + 365 BY <2>5
  <2>11. q = 4 * f + s /\ doe = 36524 * b + r /\ YearIn(doe) = 100 * b + q BY <2>5
  <2> HIDE DEF q, r, a, s
  <2>12. /\ 0 <= q /\ q <= 99
        /\ 0 <= r - 365 * q - f /\ r - 365 * q - f <= 365
        /\ r - 365 * q - f = 365 => s = 3 /\ 0 <= f /\ f <= 23
    BY <2>7, <2>8, <2>9, <2>10, <2>11, YearOfCentury
  <2>13. YearIn(doe) \div 4 = 25 * b + f /\ YearIn(doe) \div 100 = b BY <2>7, <2>8, <2>9, <2>10, <2>11, <2>12, Centuries
  <2>14. doe - Before(YearIn(doe)) = r - 365 * q - f
    <3>1. Before(YearIn(doe)) = 365 * (100 * b + q) + (25 * b + f) - b BY <2>7, <2>8, <2>9, <2>10, <2>11, <2>13 DEF Before
    <3> QED BY <2>7, <2>8, <2>9, <2>10, <2>11, <3>1
  <2>15. ASSUME s = 3, 0 <= f, f <= 23 PROVE Leap(YearIn(doe) + 1)
    <3>1. YearIn(doe) + 1 = 100 * b + 4 * f + 4 BY <2>7, <2>8, <2>9, <2>10, <2>11, <2>15
    <3>2. (100 * b + 4 * f + 4) % 4 = 0
      <4> DEFINE t == 25 * b + f + 1
      <4>1. t \in Int /\ 100 * b + 4 * f + 4 = 4 * t OBVIOUS
      <4> HIDE DEF t
      <4> QED BY <4>1
    <3>3. (100 * b + 4 * f + 4) % 100 # 0
      <4> DEFINE t == 4 * f + 4
      <4>1. t \in Int /\ 0 < t /\ t < 100 /\ 100 * b + 4 * f + 4 = 100 * b + t BY <2>15
      <4> HIDE DEF t
      <4> QED BY <4>1
    <3> QED BY <3>1, <3>2, <3>3 DEF Leap
  <2> QED BY <2>7, <2>8, <2>9, <2>10, <2>11, <2>12, <2>14, <2>15
<1> QED BY <1>1, <1>2

\* The table of months: days before month m, as the code counts them from
\* March, and as the calendar does from January.
MonthIn(doy)    == (5 * doy + 2) \div 153
DayIn(doy)      == doy - (153 * MonthIn(doy) + 2) \div 5 + 1
MonthNamed(mp)  == IF mp < 10 THEN mp + 3 ELSE mp - 9

\* [0, 11], [1, 31], [1, 12]: a day of the year is in one month of the year.
LEMMA MonthOfYear ==
    ASSUME NEW doy \in Int, 0 <= doy, doy <= 365, NEW y \in Int,
           MonthNamed(MonthIn(doy)) = 2 /\ doy = 365 => Leap(y)
    PROVE  LET m == MonthNamed(MonthIn(doy)) IN
           /\ MonthIn(doy) \in 0 .. 11
           /\ IsDate(y, m, DayIn(doy)) /\ DaysBefore(y, m) \in Int
           /\ m <= 2 => DaysBefore(y, m) + DayIn(doy) - 1 = doy - 306
           /\ m > 2  => DaysBefore(y, m) + DayIn(doy) - 1 = doy + 59 + (IF Leap(y) THEN 1 ELSE 0)
<1> DEFINE mp == MonthIn(doy)
<1>1. mp \in Int /\ 153 * mp <= 5 * doy + 2 /\ 5 * doy + 2 < 153 * mp + 153
  <2> DEFINE n == 5 * doy + 2
  <2>1. n \in Int OBVIOUS
  <2> HIDE DEF n
  <2>2. n \div 153 \in Int /\ 153 * (n \div 153) <= n /\ n < 153 * (n \div 153) + 153 BY <2>1
  <2> QED BY <2>2 DEF n, MonthIn
<1> HIDE DEF mp
<1>2. 0 <= mp /\ mp <= 11 BY <1>1
<1>3. CASE mp = 0
  <2>1. MonthNamed(MonthIn(doy)) = 3 BY <1>3 DEF mp, MonthNamed
  <2>2. DayIn(doy) = doy - 0 + 1 BY <1>3 DEF mp, DayIn
  <2>3. 0 <= doy /\ doy <= 30 BY <1>1, <1>3
  <2>4. DaysBefore(y, 3) = 59 + (IF Leap(y) THEN 1 ELSE 0) BY DEF DaysBefore
  <2> QED BY <1>2, <1>3, <2>1, <2>2, <2>3, <2>4 DEF mp, IsDate, MonthDays
<1>4. CASE mp = 1
  <2>1. MonthNamed(MonthIn(doy)) = 4 BY <1>4 DEF mp, MonthNamed
  <2>2. DayIn(doy) = doy - 31 + 1 BY <1>4 DEF mp, DayIn
  <2>3. 31 <= doy /\ doy <= 60 BY <1>1, <1>4
  <2>4. DaysBefore(y, 4) = 90 + (IF Leap(y) THEN 1 ELSE 0) BY DEF DaysBefore
  <2> QED BY <1>2, <1>4, <2>1, <2>2, <2>3, <2>4 DEF mp, IsDate, MonthDays
<1>5. CASE mp = 2
  <2>1. MonthNamed(MonthIn(doy)) = 5 BY <1>5 DEF mp, MonthNamed
  <2>2. DayIn(doy) = doy - 61 + 1 BY <1>5 DEF mp, DayIn
  <2>3. 61 <= doy /\ doy <= 91 BY <1>1, <1>5
  <2>4. DaysBefore(y, 5) = 120 + (IF Leap(y) THEN 1 ELSE 0) BY DEF DaysBefore
  <2> QED BY <1>2, <1>5, <2>1, <2>2, <2>3, <2>4 DEF mp, IsDate, MonthDays
<1>6. CASE mp = 3
  <2>1. MonthNamed(MonthIn(doy)) = 6 BY <1>6 DEF mp, MonthNamed
  <2>2. DayIn(doy) = doy - 92 + 1 BY <1>6 DEF mp, DayIn
  <2>3. 92 <= doy /\ doy <= 121 BY <1>1, <1>6
  <2>4. DaysBefore(y, 6) = 151 + (IF Leap(y) THEN 1 ELSE 0) BY DEF DaysBefore
  <2> QED BY <1>2, <1>6, <2>1, <2>2, <2>3, <2>4 DEF mp, IsDate, MonthDays
<1>7. CASE mp = 4
  <2>1. MonthNamed(MonthIn(doy)) = 7 BY <1>7 DEF mp, MonthNamed
  <2>2. DayIn(doy) = doy - 122 + 1 BY <1>7 DEF mp, DayIn
  <2>3. 122 <= doy /\ doy <= 152 BY <1>1, <1>7
  <2>4. DaysBefore(y, 7) = 181 + (IF Leap(y) THEN 1 ELSE 0) BY DEF DaysBefore
  <2> QED BY <1>2, <1>7, <2>1, <2>2, <2>3, <2>4 DEF mp, IsDate, MonthDays
<1>8. CASE mp = 5
  <2>1. MonthNamed(MonthIn(doy)) = 8 BY <1>8 DEF mp, MonthNamed
  <2>2. DayIn(doy) = doy - 153 + 1 BY <1>8 DEF mp, DayIn
  <2>3. 153 <= doy /\ doy <= 183 BY <1>1, <1>8
  <2>4. DaysBefore(y, 8) = 212 + (IF Leap(y) THEN 1 ELSE 0) BY DEF DaysBefore
  <2> QED BY <1>2, <1>8, <2>1, <2>2, <2>3, <2>4 DEF mp, IsDate, MonthDays
<1>9. CASE mp = 6
  <2>1. MonthNamed(MonthIn(doy)) = 9 BY <1>9 DEF mp, MonthNamed
  <2>2. DayIn(doy) = doy - 184 + 1 BY <1>9 DEF mp, DayIn
  <2>3. 184 <= doy /\ doy <= 213 BY <1>1, <1>9
  <2>4. DaysBefore(y, 9) = 243 + (IF Leap(y) THEN 1 ELSE 0) BY DEF DaysBefore
  <2> QED BY <1>2, <1>9, <2>1, <2>2, <2>3, <2>4 DEF mp, IsDate, MonthDays
<1>10. CASE mp = 7
  <2>1. MonthNamed(MonthIn(doy)) = 10 BY <1>10 DEF mp, MonthNamed
  <2>2. DayIn(doy) = doy - 214 + 1 BY <1>10 DEF mp, DayIn
  <2>3. 214 <= doy /\ doy <= 244 BY <1>1, <1>10
  <2>4. DaysBefore(y, 10) = 273 + (IF Leap(y) THEN 1 ELSE 0) BY DEF DaysBefore
  <2> QED BY <1>2, <1>10, <2>1, <2>2, <2>3, <2>4 DEF mp, IsDate, MonthDays
<1>11. CASE mp = 8
  <2>1. MonthNamed(MonthIn(doy)) = 11 BY <1>11 DEF mp, MonthNamed
  <2>2. DayIn(doy) = doy - 245 + 1 BY <1>11 DEF mp, DayIn
  <2>3. 245 <= doy /\ doy <= 274 BY <1>1, <1>11
  <2>4. DaysBefore(y, 11) = 304 + (IF Leap(y) THEN 1 ELSE 0) BY DEF DaysBefore
  <2> QED BY <1>2, <1>11, <2>1, <2>2, <2>3, <2>4 DEF mp, IsDate, MonthDays
<1>12. CASE mp = 9
  <2>1. MonthNamed(MonthIn(doy)) = 12 BY <1>12 DEF mp, MonthNamed
  <2>2. DayIn(doy) = doy - 275 + 1 BY <1>12 DEF mp, DayIn
  <2>3. 275 <= doy /\ doy <= 305 BY <1>1, <1>12
  <2>4. DaysBefore(y, 12) = 334 + (IF Leap(y) THEN 1 ELSE 0) BY DEF DaysBefore
  <2> QED BY <1>2, <1>12, <2>1, <2>2, <2>3, <2>4 DEF mp, IsDate, MonthDays
<1>13. CASE mp = 10
  <2>1. MonthNamed(MonthIn(doy)) = 1 BY <1>13 DEF mp, MonthNamed
  <2>2. DayIn(doy) = doy - 306 + 1 BY <1>13 DEF mp, DayIn
  <2>3. 306 <= doy /\ doy <= 336 BY <1>1, <1>13
  <2>4. DaysBefore(y, 1) = 0 BY DEF DaysBefore
  <2> QED BY <1>2, <1>13, <2>1, <2>2, <2>3, <2>4 DEF mp, IsDate, MonthDays
<1>14. CASE mp = 11
  <2>1. MonthNamed(MonthIn(doy)) = 2 BY <1>14 DEF mp, MonthNamed
  <2>2. DayIn(doy) = doy - 337 + 1 BY <1>14 DEF mp, DayIn
  <2>3. 337 <= doy /\ doy <= 365 BY <1>1, <1>14
  <2>4. DaysBefore(y, 2) = 31 BY DEF DaysBefore
  <2> QED BY <1>2, <1>14, <2>1, <2>2, <2>3, <2>4 DEF mp, IsDate, MonthDays
<1> QED BY <1>1, <1>2, <1>3, <1>4, <1>5, <1>6, <1>7, <1>8, <1>9, <1>10, <1>11, <1>12, <1>13, <1>14

\* The years of an era, and their leap years, are those of every other one.
LEMMA Eras ==
    ASSUME NEW n \in Int, NEW e \in Int
    PROVE  /\ (n + 400 * e) \div 4 = n \div 4 + 100 * e
           /\ (n + 400 * e) \div 100 = n \div 100 + 4 * e
           /\ (n + 400 * e) \div 400 = n \div 400 + e
<1> DEFINE t == n + 400 * e
<1>1. t \in Int /\ t = n + 400 * e OBVIOUS
<1> HIDE DEF t
<1>2. t \div 4 \in Int /\ 4 * (t \div 4) <= t /\ t < 4 * (t \div 4) + 4 BY <1>1
<1>3. t \div 100 \in Int /\ 100 * (t \div 100) <= t /\ t < 100 * (t \div 100) + 100 BY <1>1
<1>4. t \div 400 \in Int /\ 400 * (t \div 400) <= t /\ t < 400 * (t \div 400) + 400 BY <1>1
<1>5. n \div 4 \in Int /\ 4 * (n \div 4) <= n /\ n < 4 * (n \div 4) + 4 OBVIOUS
<1>6. n \div 100 \in Int /\ 100 * (n \div 100) <= n /\ n < 100 * (n \div 100) + 100 OBVIOUS
<1>7. n \div 400 \in Int /\ 400 * (n \div 400) <= n /\ n < 400 * (n \div 400) + 400 OBVIOUS
<1>8. t \div 4 = n \div 4 + 100 * e BY <1>1, <1>2, <1>5
<1>9. t \div 100 = n \div 100 + 4 * e BY <1>1, <1>3, <1>6
<1>10. t \div 400 = n \div 400 + e BY <1>1, <1>4, <1>7
<1> QED BY <1>8, <1>9, <1>10 DEF t

\* A leap year is one in each era.
LEMMA LeapInEra ==
    ASSUME NEW n \in Int, NEW e \in Int
    PROVE  Leap(n + 400 * e) <=> Leap(n)
<1> DEFINE t == n + 400 * e
<1>1. t \in Int /\ t = n + 400 * e OBVIOUS
<1>2. t \div 4 = n \div 4 + 100 * e /\ t \div 100 = n \div 100 + 4 * e /\ t \div 400 = n \div 400 + e BY Eras
<1> HIDE DEF t
<1>3. /\ t % 4 = t - 4 * (t \div 4) /\ t % 100 = t - 100 * (t \div 100) /\ t % 400 = t - 400 * (t \div 400)
  BY <1>1
<1>4. /\ n % 4 = n - 4 * (n \div 4) /\ n % 100 = n - 100 * (n \div 100) /\ n % 400 = n - 400 * (n \div 400)
  OBVIOUS
<1>5. n \div 4 \in Int /\ n \div 100 \in Int /\ n \div 400 \in Int OBVIOUS
<1>6. t % 4 = n % 4 /\ t % 100 = n % 100 /\ t % 400 = n % 400 BY <1>1, <1>2, <1>3, <1>4, <1>5
<1> QED BY <1>6 DEF Leap, t

\* The year after y begins 365 days after y did, or 366.
LEMMA YearLength ==
    ASSUME NEW y \in Int
    PROVE  YearStart(y) + (IF Leap(y) THEN 1 ELSE 0) = YearStart(y + 1) - 365
<1>1. y \div 4 = (y - 1) \div 4 + (IF y % 4 = 0 THEN 1 ELSE 0) OBVIOUS
<1>2. y \div 100 = (y - 1) \div 100 + (IF y % 100 = 0 THEN 1 ELSE 0) OBVIOUS
<1>3. y \div 400 = (y - 1) \div 400 + (IF y % 400 = 0 THEN 1 ELSE 0) OBVIOUS
<1>4. (y % 400 = 0 => y % 100 = 0) /\ (y % 100 = 0 => y % 4 = 0) OBVIOUS
<1>5. /\ y \div 4 \in Int /\ y \div 100 \in Int /\ y \div 400 \in Int
      /\ (y - 1) \div 4 \in Int /\ (y - 1) \div 100 \in Int /\ (y - 1) \div 400 \in Int
  OBVIOUS
<1>6. (y + 1) - 1 = y OBVIOUS
<1>7. YearStart(y + 1) = 365 * (y + 1 - 1970) + y \div 4 - y \div 100 + y \div 400 - 477 BY <1>6 DEF YearStart
<1>8. YearStart(y) = 365 * (y - 1970) + (y - 1) \div 4 - (y - 1) \div 100 + (y - 1) \div 400 - 477 BY DEF YearStart
<1>9. (IF Leap(y) THEN 1 ELSE 0) = (IF y % 4 = 0 THEN 1 ELSE 0) - (IF y % 100 = 0 THEN 1 ELSE 0) + (IF y % 400 = 0 THEN 1 ELSE 0)
  BY <1>4 DEF Leap
<1> QED BY <1>1, <1>2, <1>3, <1>5, <1>7, <1>8, <1>9

\* The January after a year of an era began in March.
LEMMA YearInEra ==
    ASSUME NEW yoe \in Int, 0 <= yoe, yoe <= 399, NEW era \in Int
    PROVE  YearStart(yoe + 400 * era + 1) = Before(yoe) + EraDays * era - 719468 + 306
<1> DEFINE y == yoe + 400 * era
<1>1. y \in Int /\ y = yoe + 400 * era /\ (y + 1) - 1 = y OBVIOUS
<1>2. y \div 4 = yoe \div 4 + 100 * era /\ y \div 100 = yoe \div 100 + 4 * era /\ y \div 400 = yoe \div 400 + era BY Eras
<1>3. yoe \div 400 = 0 /\ yoe \div 4 \in Int /\ yoe \div 100 \in Int OBVIOUS
<1> HIDE DEF y
<1>4. YearStart(y + 1) = 365 * (y + 1 - 1970) + y \div 4 - y \div 100 + y \div 400 - 477 BY <1>1 DEF YearStart
<1>5. Before(yoe) = 365 * yoe + yoe \div 4 - yoe \div 100 BY DEF Before
<1>6. YearStart(y + 1) = Before(yoe) + EraDays * era - 719468 + 306 BY <1>1, <1>2, <1>3, <1>4, <1>5 DEF EraDays
<1> QED BY <1>6 DEF y

\* civil_from_days, on every day since the beginning of time.
LEMMA CivilDate ==
    ASSUME NEW days \in Int
    PROVE  \E y \in Int, m \in Int, d \in Int : CivilFromDays(days) = <<y, m, d>> /\ IsDate(y, m, d) /\ DaysOf(y, m, d) = days
<1> DEFINE z   == days + 719468
           era == Quo(IF z >= 0 THEN z ELSE z - (EraDays - 1), EraDays)
           doe == z - era * EraDays
           yoe == YearIn(doe)
           doy == doe - Before(yoe)
           m   == MonthNamed(MonthIn(doy))
           y   == yoe + 400 * era + (IF m <= 2 THEN 1 ELSE 0)
<1>1. era \in Int /\ doe \in Int /\ 0 <= doe /\ doe < EraDays
  <2>1. z \in Int OBVIOUS
  <2> HIDE DEF z
  <2>2. era \in Int /\ 0 <= z - era * EraDays /\ z - era * EraDays < EraDays BY <2>1, EraOf
  <2> HIDE DEF era
  <2> QED BY <2>1, <2>2 DEF EraDays
<1>2. days = doe + EraDays * era - 719468
  <2> HIDE DEF era
  <2> QED BY <1>1 DEF EraDays
<1>3. CivilFromDays(days) = DateInEra(era, doe)
  <2>1. CivilFromDays(days) = LET zz == days + 719468  ee == Quo(IF zz >= 0 THEN zz ELSE zz - (EraDays - 1), EraDays)
                              IN DateInEra(ee, zz - ee * EraDays)
    BY DEF CivilFromDays
  <2> QED BY <2>1
<1> HIDE DEF z, era, doe
<1>4. /\ yoe \in Int /\ 0 <= yoe /\ yoe <= 399 /\ 0 <= doy /\ doy <= 365
      /\ doy = 365 => Leap(yoe + 1)
  BY <1>1, YearOfEra
<1>5. doy \in Int
  <2>1. yoe \div 4 \in Int /\ yoe \div 100 \in Int BY <1>4
  <2>2. Before(yoe) \in Int BY <1>4, <2>1 DEF Before
  <2> QED BY <1>1, <2>2
<1>6. DateInEra(era, doe) = <<y, m, DayIn(doy)>>
  <2>1. yoe + era * 400 = yoe + 400 * era BY <1>1, <1>4
  <2> QED BY <2>1 DEF DateInEra, YearIn, Before, MonthNamed, MonthIn, DayIn
<1>7. doe = Before(yoe) + doy
  <2>1. yoe \div 4 \in Int /\ yoe \div 100 \in Int BY <1>4
  <2>2. Before(yoe) \in Int BY <1>4, <2>1 DEF Before
  <2> QED BY <1>1, <2>2
<1>8. YearStart(yoe + 400 * era + 1) = days - doy + 306
  <2>1. YearStart(yoe + 400 * era + 1) = Before(yoe) + EraDays * era - 719468 + 306 BY <1>1, <1>4, YearInEra
  <2>2. Before(yoe) \in Int
    <3>1. yoe \div 4 \in Int /\ yoe \div 100 \in Int BY <1>4
    <3> QED BY <1>4, <3>1 DEF Before
  <2> HIDE DEF yoe, doy
  <2> QED BY <1>1, <1>2, <1>5, <1>7, <2>1, <2>2 DEF EraDays
<1>9. y \in Int /\ (m = 2 /\ doy = 365 => Leap(y))
  <2>1. yoe + 1 + 400 * era = yoe + 400 * era + 1 BY <1>1, <1>4
  <2>2. Leap(yoe + 1 + 400 * era) <=> Leap(yoe + 1)
    <3>1. yoe + 1 \in Int BY <1>4
    <3> DEFINE n == yoe + 1
    <3> HIDE DEF n
    <3>2. Leap(n + 400 * era) <=> Leap(n) BY <1>1, <3>1, LeapInEra DEF n
    <3> QED BY <3>2 DEF n
  <2>3. y \in Int BY <1>1, <1>4
  <2> QED BY <1>4, <2>1, <2>2, <2>3
<1> HIDE DEF yoe, doy
<1>10. /\ IsDate(y, m, DayIn(doy)) /\ DaysBefore(y, m) \in Int
       /\ m <= 2 => DaysBefore(y, m) + DayIn(doy) - 1 = doy - 306
       /\ m > 2  => DaysBefore(y, m) + DayIn(doy) - 1 = doy + 59 + (IF Leap(y) THEN 1 ELSE 0)
  <2> HIDE DEF y
  <2>1. MonthNamed(MonthIn(doy)) = 2 /\ doy = 365 => Leap(y) BY <1>9
  <2> QED BY <1>4, <1>5, <1>9, <2>1, MonthOfYear
<1>11. DayIn(doy) \in Int /\ m \in Int BY <1>10 DEF IsDate, MonthDays
<1>12. DaysOf(y, m, DayIn(doy)) = days
  <2>1. CASE m <= 2
    <3>1. y = yoe + 400 * era + 1 BY <1>1, <1>4, <2>1
    <3>2. YearStart(y) = days - doy + 306 BY <1>8, <3>1
    <3> HIDE DEF y, m
    <3> QED BY <1>5, <1>10, <1>11, <2>1, <3>2 DEF DaysOf
  <2>2. CASE m > 2
    <3>1. y = yoe + 400 * era BY <1>1, <1>4, <1>11, <2>2
    <3>2. YearStart(y) + (IF Leap(y) THEN 1 ELSE 0) = YearStart(y + 1) - 365 BY <1>9, YearLength
    <3>3. YearStart(y + 1) = days - doy + 306 BY <1>8, <3>1
    <3>4. YearStart(y) \in Int
      <4>1. (y - 1) \div 4 \in Int /\ (y - 1) \div 100 \in Int /\ (y - 1) \div 400 \in Int BY <1>9
      <4> QED BY <1>9, <4>1 DEF YearStart
    <3> HIDE DEF y, m
    <3> QED BY <1>5, <1>10, <1>11, <2>2, <3>2, <3>3, <3>4 DEF DaysOf
  <2> QED BY <1>11, <2>1, <2>2
<1> HIDE DEF y, m
<1>13. CivilFromDays(days) = <<y, m, DayIn(doy)>> BY <1>3, <1>6
<1> QED BY <1>9, <1>10, <1>11, <1>12, <1>13

\* Every day since the beginning of time has a date, and civil_from_days finds
\* it.
THEOREM CivilDates == \A days \in Int : CivilRight(days, CivilFromDays(days))
  BY CivilDate DEF CivilRight

-----------------------------------------------------------------------------
(* Dates there and back, months and instants.                              *)

\* The length of a month is the way to the next one, December's to the end of
\* the year.
LEMMA MonthEnds ==
    ASSUME NEW y \in Int, NEW m \in 1 .. 12
    PROVE  /\ DaysBefore(y, m) \in Nat /\ MonthDays(y, m) \in 28 .. 31
           /\ m < 12 => DaysBefore(y, m + 1) = DaysBefore(y, m) + MonthDays(y, m)
           /\ m = 12 => DaysBefore(y, m) + MonthDays(y, m) = 365 + (IF Leap(y) THEN 1 ELSE 0)
           /\ m = 1 => DaysBefore(y, m) = 0
<1>1. CASE m \in {1, 2, 3, 4} BY <1>1 DEF DaysBefore, MonthDays
<1>2. CASE m \in {5, 6, 7, 8} BY <1>2 DEF DaysBefore, MonthDays
<1>3. CASE m \in {9, 10, 11, 12} BY <1>3 DEF DaysBefore, MonthDays
<1> QED BY <1>1, <1>2, <1>3

\* Months of a year come one after another.
LEMMA MonthsInOrder ==
    ASSUME NEW y \in Int, NEW m \in 1 .. 12, NEW n \in 1 .. 12, m < n
    PROVE  DaysBefore(y, m) + MonthDays(y, m) <= DaysBefore(y, n)
<1>1. CASE n \in {1, 2, 3, 4} BY <1>1 DEF DaysBefore, MonthDays
<1>2. CASE n \in {5, 6, 7, 8} BY <1>2 DEF DaysBefore, MonthDays
<1>3. CASE n \in {9, 10, 11, 12} BY <1>3 DEF DaysBefore, MonthDays
<1> QED BY <1>1, <1>2, <1>3

\* A date is within its year.
LEMMA DateInYear ==
    ASSUME NEW y \in Int, NEW m \in Int, NEW d \in Int, IsDate(y, m, d)
    PROVE  /\ DaysOf(y, m, d) \in Int /\ YearStart(y) \in Int /\ YearStart(y + 1) \in Int
           /\ YearStart(y) <= DaysOf(y, m, d) /\ DaysOf(y, m, d) < YearStart(y + 1)
<1>1. m \in 1 .. 12 /\ 1 <= d /\ d <= MonthDays(y, m) BY DEF IsDate
<1>2. ASSUME NEW z \in Int PROVE YearStart(z) \in Int
  <2>1. (z - 1) \div 4 \in Int /\ (z - 1) \div 100 \in Int /\ (z - 1) \div 400 \in Int OBVIOUS
  <2> QED BY <2>1 DEF YearStart
<1>3. YearStart(y) \in Int /\ YearStart(y + 1) \in Int BY <1>2
<1>4. YearStart(y + 1) = YearStart(y) + 365 + (IF Leap(y) THEN 1 ELSE 0) BY <1>3, YearLength
<1>5. DaysBefore(y, m) \in Nat /\ MonthDays(y, m) \in 28 .. 31
      /\ DaysBefore(y, m) + MonthDays(y, m) <= 365 + (IF Leap(y) THEN 1 ELSE 0)
  <2>1. DaysBefore(y, m) \in Nat /\ MonthDays(y, m) \in 28 .. 31 BY <1>1, MonthEnds
  <2>2. CASE m = 12
    <3>1. DaysBefore(y, m) + MonthDays(y, m) = 365 + (IF Leap(y) THEN 1 ELSE 0) BY <1>1, <2>2, MonthEnds
    <3> QED BY <2>1, <3>1
  <2>3. CASE m # 12
    <3>1. m < 12 /\ 12 \in 1 .. 12 BY <1>1, <2>3
    <3>2. DaysBefore(y, m) + MonthDays(y, m) <= DaysBefore(y, 12) BY <1>1, <3>1, MonthsInOrder
    <3>3. DaysBefore(y, 12) + MonthDays(y, 12) = 365 + (IF Leap(y) THEN 1 ELSE 0) BY <3>1, MonthEnds
    <3>4. DaysBefore(y, 12) \in Nat /\ MonthDays(y, 12) \in 28 .. 31 BY <3>1, MonthEnds
    <3>5. DaysBefore(y, m) + MonthDays(y, m) <= 365 + (IF Leap(y) THEN 1 ELSE 0) BY <2>1, <3>2, <3>3, <3>4
    <3> QED BY <2>1, <3>5
  <2> QED BY <2>2, <2>3
<1>6. DaysOf(y, m, d) = YearStart(y) + DaysBefore(y, m) + d - 1 BY DEF DaysOf
<1> QED BY <1>1, <1>3, <1>4, <1>5, <1>6

\* A later year starts no earlier than the next one.
LEMMA YearsInOrder ==
    ASSUME NEW y \in Int, NEW z \in Int, y < z
    PROVE  YearStart(y + 1) <= YearStart(z)
<1> DEFINE n == z - 1
<1>1. n \in Int /\ y <= n /\ (y + 1) - 1 = y OBVIOUS
<1>2. YearStart(y + 1) = 365 * (y + 1 - 1970) + y \div 4 - y \div 100 + y \div 400 - 477 BY <1>1 DEF YearStart
<1>3. YearStart(z) = 365 * (n + 1 - 1970) + n \div 4 - n \div 100 + n \div 400 - 477
  <2>1. z = n + 1 OBVIOUS
  <2> QED BY <2>1 DEF YearStart
<1> HIDE DEF n
<1>4. n \div 4 \in Int /\ 4 * (n \div 4) <= n /\ n < 4 * (n \div 4) + 4 BY <1>1
<1>5. n \div 100 \in Int /\ 100 * (n \div 100) <= n /\ n < 100 * (n \div 100) + 100 BY <1>1
<1>6. n \div 400 \in Int /\ 400 * (n \div 400) <= n /\ n < 400 * (n \div 400) + 400 BY <1>1
<1>7. y \div 4 \in Int /\ 4 * (y \div 4) <= y /\ y < 4 * (y \div 4) + 4 OBVIOUS
<1>8. y \div 100 \in Int /\ 100 * (y \div 100) <= y /\ y < 100 * (y \div 100) + 100 OBVIOUS
<1>9. y \div 400 \in Int /\ 400 * (y \div 400) <= y /\ y < 400 * (y \div 400) + 400 OBVIOUS
<1>10. y \div 4 <= n \div 4 BY <1>1, <1>4, <1>7
<1>11. y \div 400 <= n \div 400 BY <1>1, <1>6, <1>9
<1>12. n \div 100 - y \div 100 <= n - y
  <2>1. CASE n = y BY <2>1, <1>8
  <2>2. CASE n > y BY <1>1, <1>5, <1>8, <2>2
  <2> QED BY <1>1, <2>1, <2>2
<1> QED BY <1>1, <1>2, <1>3, <1>4, <1>5, <1>6, <1>7, <1>8, <1>9, <1>10, <1>11, <1>12

\* A day has one date only.
LEMMA OneDate ==
    ASSUME NEW y \in Int, NEW m \in Int, NEW d \in Int, IsDate(y, m, d),
           NEW z \in Int, NEW n \in Int, NEW e \in Int, IsDate(z, n, e),
           DaysOf(y, m, d) = DaysOf(z, n, e)
    PROVE  y = z /\ m = n /\ d = e
<1>1. /\ m \in 1 .. 12 /\ 1 <= d /\ d <= MonthDays(y, m)
      /\ n \in 1 .. 12 /\ 1 <= e /\ e <= MonthDays(z, n)
  BY DEF IsDate
<1>2. y = z
  <2>1. /\ DaysOf(y, m, d) \in Int /\ YearStart(y) \in Int /\ YearStart(y + 1) \in Int
        /\ YearStart(y) <= DaysOf(y, m, d) /\ DaysOf(y, m, d) < YearStart(y + 1)
    BY DateInYear
  <2>2. /\ YearStart(z) \in Int /\ YearStart(z + 1) \in Int
        /\ YearStart(z) <= DaysOf(y, m, d) /\ DaysOf(y, m, d) < YearStart(z + 1)
    BY DateInYear
  <2>3. ~(y < z) BY <2>1, <2>2, YearsInOrder
  <2>4. ~(z < y) BY <2>1, <2>2, YearsInOrder
  <2> QED BY <2>3, <2>4
<1>3. DaysBefore(y, m) + d = DaysBefore(y, n) + e
  <2>1. YearStart(y) \in Int BY DateInYear
  <2>2. DaysBefore(y, m) \in Nat /\ DaysBefore(y, n) \in Nat BY <1>1, MonthEnds
  <2>3. YearStart(y) + DaysBefore(y, m) + d - 1 = YearStart(y) + DaysBefore(y, n) + e - 1 BY <1>2 DEF DaysOf
  <2> QED BY <2>1, <2>2, <2>3
<1>4. /\ DaysBefore(y, m) \in Nat /\ DaysBefore(y, n) \in Nat
      /\ MonthDays(y, m) \in 28 .. 31 /\ MonthDays(y, n) \in 28 .. 31
  BY <1>1, MonthEnds
<1>5. ~(m < n)
  <2>1. ASSUME m < n PROVE DaysBefore(y, m) + MonthDays(y, m) <= DaysBefore(y, n) BY <1>1, <2>1, MonthsInOrder
  <2> QED BY <1>1, <1>3, <1>4, <2>1
<1>6. ~(n < m)
  <2>1. ASSUME n < m PROVE DaysBefore(y, n) + MonthDays(y, n) <= DaysBefore(y, m) BY <1>1, <2>1, MonthsInOrder
  <2>2. e <= MonthDays(y, n) BY <1>1, <1>2
  <2> QED BY <1>1, <1>3, <1>4, <2>1, <2>2
<1>7. m = n BY <1>1, <1>5, <1>6
<1>8. d = e BY <1>3, <1>4, <1>7
<1> QED BY <1>2, <1>7, <1>8

\* civil_from_days undoes the calendar: each date comes back as itself, so that
\* no two days are ever given the same rate date, nor one day two.
THEOREM DatesRoundTrip ==
    \A y \in Int, m \in Int, d \in Int : IsDate(y, m, d) => CivilFromDays(DaysOf(y, m, d)) = <<y, m, d>>
<1> SUFFICES ASSUME NEW y \in Int, NEW m \in Int, NEW d \in Int, IsDate(y, m, d)
             PROVE  CivilFromDays(DaysOf(y, m, d)) = <<y, m, d>>
  OBVIOUS
<1> DEFINE days == DaysOf(y, m, d)
<1>1. days \in Int BY DateInYear
<1> HIDE DEF days
<1>2. PICK z \in Int, n \in Int, e \in Int : CivilFromDays(days) = <<z, n, e>> /\ IsDate(z, n, e) /\ DaysOf(z, n, e) = days
  BY <1>1, CivilDate
<1>3. y = z /\ m = n /\ d = e BY <1>2, OneDate DEF days
<1> QED BY <1>2, <1>3 DEF days

\* A year starts about 365.2425 days after the one before it.
LEMMA YearIsNear ==
    ASSUME NEW y \in Int
    PROVE  /\ EraDays * (y - 1970) - 506 <= 400 * YearStart(y)
           /\ 400 * YearStart(y) <= EraDays * (y - 1970) + 589
<1> DEFINE x == y - 1
<1>1. x \in Int /\ y = x + 1 OBVIOUS
<1>2. YearStart(y) = 365 * (x + 1 - 1970) + x \div 4 - x \div 100 + x \div 400 - 477
  <2>1. YearStart(y) = 365 * (y - 1970) + x \div 4 - x \div 100 + x \div 400 - 477 BY DEF YearStart
  <2> HIDE DEF x
  <2> QED BY <1>1, <2>1
<1> HIDE DEF x
<1>3. x \div 4 \in Int /\ 4 * (x \div 4) <= x /\ x < 4 * (x \div 4) + 4 BY <1>1
<1>4. x \div 100 \in Int /\ 100 * (x \div 100) <= x /\ x < 100 * (x \div 100) + 100 BY <1>1
<1>5. x \div 400 \in Int /\ 400 * (x \div 400) <= x /\ x < 400 * (x \div 400) + 400 BY <1>1
<1> QED BY <1>1, <1>2, <1>3, <1>4, <1>5 DEF EraDays

\* The year and the month of a date's day are its own.
LEMMA YearOfDate ==
    ASSUME NEW y \in Int, NEW m \in Int, NEW d \in Int, IsDate(y, m, d)
    PROVE  YearOf(DaysOf(y, m, d)) = y /\ MonthOf(DaysOf(y, m, d)) = m
<1> DEFINE days == DaysOf(y, m, d)  q == (400 * days) \div EraDays  near == 1970 + q
<1>1. /\ days \in Int /\ YearStart(y) \in Int /\ YearStart(y + 1) \in Int
      /\ YearStart(y) <= days /\ days < YearStart(y + 1)
  BY DateInYear
<1> HIDE DEF days
<1>2. q \in Int /\ EraDays * q <= 400 * days /\ 400 * days < EraDays * q + EraDays
  <2> DEFINE n == 400 * days
  <2>1. n \in Int BY <1>1
  <2> HIDE DEF n
  <2>2. n \div 146097 \in Int /\ 146097 * (n \div 146097) <= n /\ n < 146097 * (n \div 146097) + 146097 BY <2>1
  <2> QED BY <2>2 DEF n, EraDays
<1> HIDE DEF q
<1>3. y \in near - 1 .. near + 1
  <2>1. EraDays * (y - 1970) - 506 <= 400 * YearStart(y) BY YearIsNear
  <2>2. 400 * YearStart(y + 1) <= EraDays * (y + 1 - 1970) + 589
    <3>1. y + 1 \in Int OBVIOUS
    <3> QED BY <3>1, YearIsNear
  <2>3. EraDays * (y - 1970) - 506 <= 400 * days BY <1>1, <2>1 DEF EraDays
  <2>4. 400 * days + 400 <= EraDays * (y + 1 - 1970) + 589 BY <1>1, <2>2 DEF EraDays
  <2> QED BY <1>1, <1>2, <2>3, <2>4 DEF EraDays
<1>4. ASSUME NEW z \in Int, YearStart(z) <= days, days < YearStart(z + 1) PROVE z = y
  <2>1. YearStart(z) \in Int /\ YearStart(z + 1) \in Int
    <3>1. ASSUME NEW u \in Int PROVE YearStart(u) \in Int
      <4>1. (u - 1) \div 4 \in Int /\ (u - 1) \div 100 \in Int /\ (u - 1) \div 400 \in Int OBVIOUS
      <4> QED BY <4>1 DEF YearStart
    <3> QED BY <3>1
  <2>2. ~(y < z) BY <1>1, <1>4, <2>1, YearsInOrder
  <2>3. ~(z < y) BY <1>1, <1>4, <2>1, YearsInOrder
  <2> QED BY <2>2, <2>3
<1>5. YearOf(days) = y
  <2>1. YearOf(days) = CHOOSE z \in near - 1 .. near + 1 : YearStart(z) <= days /\ days < YearStart(z + 1) BY DEF YearOf, q
  <2> HIDE DEF near
  <2>2. \A z \in near - 1 .. near + 1 : (YearStart(z) <= days /\ days < YearStart(z + 1)) <=> z = y
    <3>1. near - 1 .. near + 1 \in SUBSET Int OBVIOUS
    <3> QED BY <1>1, <1>4, <3>1
  <2> QED BY <1>3, <2>1, <2>2
<1>6. /\ m \in 1 .. 12 /\ 1 <= d /\ d <= MonthDays(y, m) BY DEF IsDate
<1>7. days = DaysOf(y, m, 1) + d - 1 /\ DaysOf(y, m, 1) \in Int /\ MonthDays(y, m) \in 28 .. 31
  <2>1. DaysBefore(y, m) \in Nat /\ MonthDays(y, m) \in 28 .. 31 BY <1>6, MonthEnds
  <2>2. days = YearStart(y) + DaysBefore(y, m) + d - 1 BY DEF days, DaysOf
  <2>3. DaysOf(y, m, 1) = YearStart(y) + DaysBefore(y, m) + 1 - 1 BY DEF DaysOf
  <2> QED BY <1>1, <2>1, <2>2, <2>3
<1>8. ASSUME NEW n \in 1 .. 12, DaysOf(y, n, 1) <= days, days < DaysOf(y, n, 1) + MonthDays(y, n) PROVE n = m
  <2>1. DaysBefore(y, n) \in Nat /\ MonthDays(y, n) \in 28 .. 31 /\ n \in Int
    <3>1. n \in Int OBVIOUS
    <3>2. DaysBefore(y, n) \in Nat /\ MonthDays(y, n) \in 28 .. 31
      <4> HIDE DEF days
      <4> QED BY <1>8, MonthEnds
    <3> QED BY <3>1, <3>2
  <2>2. DaysOf(y, n, 1) = YearStart(y) + DaysBefore(y, n) + 1 - 1 BY DEF DaysOf
  <2> DEFINE e == days - DaysOf(y, n, 1) + 1
  <2>3. e \in Int /\ 1 <= e /\ e <= MonthDays(y, n) /\ DaysOf(y, n, 1) \in Int BY <1>1, <1>8, <2>1, <2>2
  <2>4. IsDate(y, n, e)
    <3> HIDE DEF e
    <3> QED BY <2>1, <2>3 DEF IsDate
  <2>5. DaysOf(y, n, e) = days
    <3>1. DaysOf(y, n, e) = YearStart(y) + DaysBefore(y, n) + e - 1 BY DEF DaysOf
    <3> QED BY <1>1, <2>1, <2>2, <2>3, <3>1
  <2> HIDE DEF e
  <2> QED BY <2>1, <2>3, <2>4, <2>5, OneDate DEF days
<1>9. MonthOf(days) = m
  <2>1. MonthOf(days) = CHOOSE n \in 1 .. 12 : DaysOf(y, n, 1) <= days /\ days < DaysOf(y, n, 1) + MonthDays(y, n) BY <1>5 DEF MonthOf
  <2>2. DaysOf(y, m, 1) <= days /\ days < DaysOf(y, m, 1) + MonthDays(y, m) BY <1>1, <1>6, <1>7
  <2>3. \A n \in 1 .. 12 : (DaysOf(y, n, 1) <= days /\ days < DaysOf(y, n, 1) + MonthDays(y, n)) <=> n = m BY <1>8, <2>2
  <2> QED BY <1>6, <2>1, <2>3
<1> QED BY <1>5, <1>9 DEF days

\* The smaller of two numbers.
LEMMA MinOfTwo ==
    ASSUME NEW a \in Int, NEW b \in Int
    PROVE  Min({a, b}) = IF a <= b THEN a ELSE b
<1> DEFINE m == IF a <= b THEN a ELSE b
<1>1. m \in {a, b} /\ \A x \in {a, b} : m <= x OBVIOUS
<1>2. \A x \in {a, b} : (\A y \in {a, b} : x <= y) => x = m OBVIOUS
<1>3. Min({a, b}) = CHOOSE x \in {a, b} : \A y \in {a, b} : x <= y BY DEF Min
<1> HIDE DEF m
<1>4. Min({a, b}) = m BY <1>1, <1>2, <1>3
<1> QED BY <1>4 DEF m

LEMMA TimeInDay ==
    ASSUME NEW time \in 0 .. Day - 1
    PROVE  Day \in Nat /\ Day > 0 /\ time \in Int /\ 0 <= time /\ time < Day
<1>1. \A n \in Int : \A i \in 0 .. n - 1 : i \in Int /\ 0 <= i /\ i < n OBVIOUS
<1>2. Day \in Nat /\ Day > 0 BY DEF Day
<1>3. Day \in Int BY <1>2
<1> QED BY <1>1, <1>2, <1>3, Zenon

\* Adding months to a time keeps its time of day and its day of the month: the
\* months are counted through, and where the month reached is too short, its
\* last day is taken.
THEOREM MonthsAreAdded ==
    \A y \in Int, m \in Int, d \in Int, time \in 0 .. Day - 1, n \in Int :
        IsDate(y, m, d) =>
            LET count  == 12 * y + m - 1 + n
                year   == count \div 12
                month  == (count % 12) + 1
                length == MonthDays(year, month)
            IN  /\ AddMonths(Day * DaysOf(y, m, d) + time, n)
                      = Day * DaysOf(year, month, IF d <= length THEN d ELSE length) + time
                /\ IsDate(year, month, IF d <= length THEN d ELSE length)
<1> SUFFICES ASSUME NEW y \in Int, NEW m \in Int, NEW d \in Int, NEW time \in 0 .. Day - 1, NEW n \in Int, IsDate(y, m, d)
             PROVE  LET count  == 12 * y + m - 1 + n
                        year   == count \div 12
                        month  == (count % 12) + 1
                        length == MonthDays(year, month)
                    IN  /\ AddMonths(Day * DaysOf(y, m, d) + time, n)
                              = Day * DaysOf(year, month, IF d <= length THEN d ELSE length) + time
                        /\ IsDate(year, month, IF d <= length THEN d ELSE length)
  OBVIOUS
<1> DEFINE count  == 12 * y + m - 1 + n
           year   == count \div 12
           month  == (count % 12) + 1
           length == MonthDays(year, month)
           last   == IF d <= length THEN d ELSE length
           days   == DaysOf(y, m, d)
           local  == Day * days + time
<1>1. days \in Int BY DateInYear
<1>2. YearOf(days) = y /\ MonthOf(days) = m BY YearOfDate
<1>3. 1 <= d /\ m \in 1 .. 12 BY DEF IsDate
<1>4. days - DaysOf(y, m, 1) + 1 = d
  <2>1. DaysBefore(y, m) \in Nat /\ YearStart(y) \in Int BY <1>3, MonthEnds, DateInYear
  <2>2. days = YearStart(y) + DaysBefore(y, m) + d - 1 /\ DaysOf(y, m, 1) = YearStart(y) + DaysBefore(y, m) + 1 - 1 BY DEF DaysOf
  <2> QED BY <2>1, <2>2
<1>5. count \in Int BY <1>3
<1> HIDE DEF days, count
<1>6. year \in Int /\ month \in 1 .. 12
  <2>1. count \div 12 \in Int /\ 0 <= count % 12 /\ count % 12 < 12 /\ count % 12 \in Int BY <1>5
  <2> QED BY <2>1
<1> HIDE DEF year, month
<1>7. length \in 28 .. 31 BY <1>6, MonthEnds
<1> HIDE DEF length
<1>8. last \in Int /\ 1 <= last /\ last <= length /\ Min({d, length}) = last BY <1>3, <1>7, MinOfTwo
<1>9. local \div Day = days /\ local % Day = time
  <2>1. Day \in Nat /\ Day > 0 /\ time \in Int /\ 0 <= time /\ time < Day BY TimeInDay
  <2> DEFINE D == Day  L == local
  <2>2. L \in Int /\ L = D * days + time BY <1>1, <2>1
  <2> HIDE DEF D, L
  <2>3. time = L % D /\ days = L \div D BY <1>1, <2>1, <2>2, OneRemainder DEF D
  <2> QED BY <2>3 DEF D, L
<1>10. AddMonths(local, n) = Day * DaysOf(year, month, last) + time
  <2> HIDE DEF local, last
  <2>1. AddMonths(local, n) =
           LET dd == local \div Day
               cc == 12 * YearOf(dd) + MonthOf(dd) - 1 + n
               yy == cc \div 12
               mm == (cc % 12) + 1
               ee == dd - DaysOf(YearOf(dd), MonthOf(dd), 1) + 1
           IN  Day * DaysOf(yy, mm, Min({ee, MonthDays(yy, mm)})) + (local % Day)
    BY DEF AddMonths
  <2>2. AddMonths(local, n) = Day * DaysOf(year, month, Min({d, length})) + time
    BY <1>2, <1>4, <1>9, <2>1 DEF year, month, length, count
  <2> QED BY <1>8, <2>2
<1>11. IsDate(year, month, last)
  <2> HIDE DEF last
  <2> QED BY <1>6, <1>8 DEF IsDate, length
<1> QED BY <1>10, <1>11 DEF last, length, year, month, count, local, days

\* An instant written out with its offset and read again is the same instant;
\* only the zone's name is lost.
THEOREM InstantsSurvive ==
    ASSUME NEW at \in Int, NEW zone \in [city : BOOLEAN, offset : Int]
    PROVE  ParseZoned(Rfc3339(Zoned(at, zone))) = Ok(Zoned(at, Fixed(OffsetAt(zone, at))))
<1> DEFINE o == OffsetAt(zone, at)  t == Rfc3339(Zoned(at, zone))
<1>1. Local(Zoned(at, zone)) = at + o /\ o \in Int
  <2>1. Local(Zoned(at, zone)) = at + o BY DEF Local, Zoned
  <2>2. zone.offset \in Int /\ Hour \in Int BY DEF Hour
  <2>3. o \in Int BY <2>2 DEF OffsetAt
  <2> QED BY <2>1, <2>3
<1>2. t = Text([f \in {OffsetFormat} |-> at + o], o, Fixed(o)) BY <1>1 DEF Rfc3339, Zoned
<1> HIDE DEF o, t
<1>3. t.reads = [f \in {OffsetFormat} |-> at + o] /\ t.offset = o BY <1>2 DEF Text
<1>4. DOMAIN t.reads = {OffsetFormat} /\ t.reads[OffsetFormat] = at + o BY <1>3
<1>5. OffsetFormat # ZoneFormat BY DEF OffsetFormat, ZoneFormat
<1>6. OffsetFormat \in OffsetFormats BY DEF OffsetFormats
<1>7. Strptime(t, OffsetFormats) = {at + o} /\ Strptime(t, OffsetFormats \cup {ZoneFormat}) = {at + o}
  BY <1>4, <1>5, <1>6 DEF Strptime
<1>8. Read({at + o}) = Ok(at + o) BY DEF Read, TheOne
<1>9. ParseTimestamp(t) = Ok(at)
  <2> DEFINE r == Read(Strptime(t, OffsetFormats \cup {ZoneFormat}))
  <2>1. ParseTimestamp(t) = IF r.ok THEN Ok(r.is - t.offset) ELSE r BY DEF ParseTimestamp, AndThen
  <2>2. r = Ok(at + o) BY <1>7, <1>8
  <2> HIDE DEF r
  <2>3. r.ok /\ r.is = at + o BY <2>2 DEF Ok
  <2>4. r.is - t.offset = at BY <1>1, <1>3, <2>3
  <2> QED BY <2>1, <2>3, <2>4
<1>10. ParseZoned(t) = AndThen(Ok(at), LAMBDA a : Ok(Zoned(a, Fixed(t.offset))))
  BY <1>4, <1>5, <1>7, <1>9 DEF ParseZoned
<1>11. AndThen(Ok(at), LAMBDA a : Ok(Zoned(a, Fixed(t.offset)))) = Ok(Zoned(at, Fixed(t.offset))) BY DEF AndThen, Ok
<1> QED BY <1>3, <1>10, <1>11 DEF o, t

\* zones of a fixed offset, and cities that change their clocks twice a year
TimeZones == [city : BOOLEAN, offset : Int]

\* What a zone's clock is ahead of UTC.
LEMMA Offsets ==
    ASSUME NEW zone \in TimeZones, NEW at \in Int
    PROVE  /\ OffsetAt(zone, at) \in {zone.offset, zone.offset + Hour} /\ zone.offset \in Int /\ Hour = 3600
           /\ ~zone.city => OffsetAt(zone, at) = zone.offset
  BY DEF OffsetAt, TimeZones, Hour

\* A wall clock's time is read as an instant that shows it, of two such
\* instants as the earlier one; only where the clock skips it, is it moved an
\* hour forward.
THEOREM WallClocks ==
    \A zone \in TimeZones, local \in Int :
        LET z == ToZoned(local, zone) IN
        /\ z.at \in Int /\ z.zone = zone
        /\ \A at \in Int : Local(Zoned(at, zone)) = local => Local(z) = local /\ z.at <= at
        /\ (\A at \in Int : Local(Zoned(at, zone)) # local) => Local(z) = local + Hour
<1> SUFFICES ASSUME NEW zone \in TimeZones, NEW local \in Int
             PROVE  LET z == ToZoned(local, zone) IN
                    /\ z.at \in Int /\ z.zone = zone
                    /\ \A at \in Int : Local(Zoned(at, zone)) = local => Local(z) = local /\ z.at <= at
                    /\ (\A at \in Int : Local(Zoned(at, zone)) # local) => Local(z) = local + Hour
  OBVIOUS
<1> DEFINE s == local - zone.offset  d == local - zone.offset - Hour
           R == {at \in {s, d} : at + OffsetAt(zone, at) = local}
           i == IF R = {} THEN s ELSE Min(R)
<1>1. s \in Int /\ d \in Int /\ d < s /\ Hour = 3600 /\ s = local - zone.offset /\ d = local - zone.offset - Hour /\ zone.offset \in Int
  BY Offsets, local \in Int
<1>2. ToZoned(local, zone) = [at |-> i, zone |-> zone] BY DEF ToZoned, Zoned
<1>3. \A at : Local(Zoned(at, zone)) = at + OffsetAt(zone, at) BY DEF Local, Zoned
<1> HIDE DEF s, d
<1>4. \A at \in Int : at \in R <=> Local(Zoned(at, zone)) = local
  <2> SUFFICES ASSUME NEW at \in Int PROVE at \in R <=> at + OffsetAt(zone, at) = local BY <1>3
  <2>1. OffsetAt(zone, at) \in {zone.offset, zone.offset + Hour} BY Offsets
  <2>2. at + OffsetAt(zone, at) = local => at \in {s, d} BY <1>1, <2>1
  <2> QED BY <2>2
<1>5. ASSUME R # {} PROVE i \in R /\ \A at \in R : i <= at
  <2>1. i = CHOOSE x \in R : \A y \in R : x <= y BY <1>5 DEF Min
  <2>2. \E x \in R : \A y \in R : x <= y
    <3>1. CASE d \in R BY <1>1, <3>1
    <3>2. CASE d \notin R BY <1>1, <1>5, <3>2
    <3> QED BY <3>1, <3>2
  <2> HIDE DEF i, R
  <2> QED BY <2>1, <2>2
<1>6. ASSUME R = {} PROVE i = s /\ s + OffsetAt(zone, s) = local + Hour
  <2>1. i = s BY <1>6
  <2>2. s + OffsetAt(zone, s) # local BY <1>6
  <2>3. OffsetAt(zone, s) \in {zone.offset, zone.offset + Hour} BY <1>1, Offsets
  <2> QED BY <1>1, <2>1, <2>2, <2>3
<1>7. \A at \in R : at \in Int BY <1>1
<1> HIDE DEF i
<1>8. i \in Int BY <1>1, <1>5, <1>6, <1>7
<1> HIDE DEF R
<1>9. Local(ToZoned(local, zone)) = i + OffsetAt(zone, i) BY <1>2 DEF Local
<1>10. ASSUME NEW at \in Int, Local(Zoned(at, zone)) = local PROVE Local(ToZoned(local, zone)) = local /\ i <= at
  <2>1. at \in R BY <1>4, <1>10
  <2>2. i \in R /\ i <= at BY <1>5, <2>1
  <2> QED BY <1>3, <1>4, <1>8, <1>9, <2>2
<1>11. ASSUME \A at \in Int : Local(Zoned(at, zone)) # local PROVE Local(ToZoned(local, zone)) = local + Hour
  <2>1. R = {} BY <1>4, <1>7, <1>11
  <2> QED BY <1>6, <1>9, <2>1
<1> QED BY <1>2, <1>8, <1>10, <1>11

\* Whole numbers are rationals.
LEMMA WholeIsRational ==
    ASSUME NEW n \in Int
    PROVE  Whole(n) \in Rationals
<1>1. n * 0 + 1 * 1 = 1 OBVIOUS
<1>2. Coprime(n, 1) BY <1>1 DEF Coprime
<1> QED BY <1>2, RationalIs DEF Whole

\* A rational that is so many units over one of them is a whole number.
LEMMA WholeIs ==
    ASSUME NEW n \in Int, NEW u \in Int, u # 0, NEW q \in Rationals, Equals(q, n * u, u)
    PROVE  q = Whole(n)
<1>1. Whole(n) \in Rationals /\ Whole(n) = <<n, 1>> BY WholeIsRational DEF Whole
<1>2. q[1] * u = n * u * q[2] /\ q[1] \in Int /\ q[2] \in Int BY DEF Equals, Rationals
<1>3. q[1] = n * q[2]
  <2> DEFINE a == q[1]  b == n * q[2]
  <2>1. a \in Int /\ b \in Int /\ u * a = u * b BY <1>2
  <2> HIDE DEF a, b
  <2>2. a = b BY <2>1, Cancel
  <2> QED BY <2>2 DEF a, b
<1>4. q[1] * Whole(n)[2] = Whole(n)[1] * q[2] BY <1>1, <1>2, <1>3
<1> QED BY <1>1, <1>4, OneForm

\* The greatest element of a set of integers.
LEMMA GreatestIs ==
    ASSUME NEW S \in SUBSET Int, NEW m \in S, \A x \in S : x <= m
    PROVE  Max(S) = m
<1>1. Max(S) = CHOOSE x \in S : \A y \in S : x >= y BY DEF Max
<1>2. \A x \in S : (\A y \in S : x >= y) <=> x = m OBVIOUS
<1> QED BY <1>1, <1>2

\* Where a clock is never changed, days and weeks move an instant as hours do.
LEMMA MovedBy ==
    ASSUME NEW at \in Int, NEW zone \in TimeZones, NEW k \in Int, NEW unit \in {"s", "min", "h", "day", "week"},
           unit \in {"day", "week"} => ~zone.city
    PROVE  Moved(Zoned(at, zone), k, unit) = Zoned(at + k * Seconds(unit), zone)
<1> DEFINE u == Seconds(unit)  a == Zoned(at, zone)
<1>1. a.at = at /\ a.zone = zone BY DEF Zoned
<1>2. CASE unit \in {"s", "min", "h"} BY <1>1, <1>2 DEF Moved
<1>3. CASE unit \in {"day", "week"}
  <2> DEFINE local == at + zone.offset + k * u  z == ToZoned(local, zone)
  <2>1. u \in Int BY <1>3 DEF Seconds, Day
  <2>2. ~zone.city /\ zone.offset \in Int BY <1>3, Offsets
  <2>3. \A i \in Int : OffsetAt(zone, i) = zone.offset BY <2>2, Offsets
  <2>4. Local(a) = at + zone.offset BY <1>1, <2>3 DEF Local
  <2>5. Moved(a, k, unit) = ToZoned(Local(a) + k * u, zone) BY <1>1, <1>3 DEF Moved
  <2> HIDE DEF u, a
  <2>6. local \in Int /\ at + k * u \in Int BY <2>1, <2>2
  <2>7. Moved(a, k, unit) = z BY <2>4, <2>5
  <2>8. \A i : Local(Zoned(i, zone)) = i + OffsetAt(zone, i) BY DEF Local, Zoned
  <2>9. Local(Zoned(at + k * u, zone)) = local BY <2>1, <2>2, <2>3, <2>6, <2>8
  <2> HIDE DEF local
  <2>10. z.at \in Int /\ Local(z) = local BY <2>6, <2>9, WallClocks
  <2>11. z = Zoned(z.at, zone)
    <3> DEFINE R == {i \in {local - zone.offset, local - zone.offset - Hour} : i + OffsetAt(zone, i) = local}
               i == IF R = {} THEN local - zone.offset ELSE Min(R)
    <3>1. z = Zoned(i, zone) BY DEF ToZoned
    <3> HIDE DEF i, z
    <3>2. z.at = i BY <3>1 DEF Zoned
    <3> QED BY <3>1, <3>2
  <2>12. z.at = at + k * u
    <3> DEFINE i == z.at
    <3>1. i \in Int BY <2>10
    <3>2. Local(Zoned(i, zone)) = local BY <2>10, <2>11
    <3> HIDE DEF i
    <3>3. i + zone.offset = local BY <2>3, <2>8, <3>1, <3>2
    <3>4. i = at + k * u BY <2>1, <2>2, <2>6, <3>1, <3>3 DEF local
    <3> QED BY <3>4 DEF i
  <2> QED BY <2>7, <2>11, <2>12 DEF a, u
<1> QED BY <1>2, <1>3

\* Where a day has its 24 hours, moving an instant by n units and asking for
\* the difference in these units gives n back, whole.
THEOREM DifferencesUndoSums ==
    \A at \in Int, zone \in TimeZones, n \in Int, unit \in {"s", "min", "h", "day", "week"} :
        (unit \in {"day", "week"} => ~zone.city)
        =>  DateDiff(Zoned(at, zone), Moved(Zoned(at, zone), n, unit), unit) = Whole(n)
<1> SUFFICES ASSUME NEW at \in Int, NEW zone \in TimeZones, NEW n \in Int,
                    NEW unit \in {"s", "min", "h", "day", "week"},
                    unit \in {"day", "week"} => ~zone.city
             PROVE  DateDiff(Zoned(at, zone), Moved(Zoned(at, zone), n, unit), unit) = Whole(n)
  OBVIOUS
<1> DEFINE u == Seconds(unit)  a == Zoned(at, zone)  b == Moved(a, n, unit)
<1>1. u \in Nat \ {0} BY DEF Seconds, Hour, Day
<1>2. a.at = at BY DEF Zoned
<1>3. \A k \in Int : Moved(a, k, unit).at = at + k * u
  <2> SUFFICES ASSUME NEW k \in Int PROVE Moved(a, k, unit).at = at + k * u OBVIOUS
  <2>1. Moved(a, k, unit) = Zoned(at + k * u, zone) BY MovedBy
  <2> QED BY <2>1 DEF Zoned
<1> HIDE DEF u, a
<1>4. b.at = at + n * u BY <1>3
<1> HIDE DEF b
<1>5. ASSUME n = 0 PROVE DateDiff(a, b, unit) = Whole(n)
  <2>1. b.at = at BY <1>1, <1>4, <1>5
  <2> QED BY <1>2, <1>5, <2>1 DEF DateDiff, Zero, Whole
<1>6. ASSUME n # 0 PROVE DateDiff(a, b, unit) = Whole(n)
  <2> DEFINE span == n * u
  <2>1. span \in Int /\ span # 0 /\ (n > 0 => span > 0) /\ (n < 0 => span < 0)
    <3>1. CASE n > 0
      <4>1. n * u > 0 BY <1>1, <3>1
      <4> QED BY <1>1, <3>1, <4>1
    <3>2. CASE n < 0
      <4>1. (-n) * u > 0 BY <1>1, <3>2
      <4>2. n * u = -((-n) * u) BY <1>1
      <4>3. (-n) * u \in Int BY <1>1
      <4> QED BY <1>1, <3>2, <4>1, <4>2, <4>3
    <3> QED BY <1>6, <3>1, <3>2
  <2>2. DateDiff(a, b, unit) = Total(span, unit, a)
    <3>1. a.at # b.at /\ b.at - a.at = span BY <1>2, <1>4, <2>1
    <3> QED BY <3>1 DEF DateDiff
  <2> HIDE DEF span
  <2>3. CASE unit \in {"s", "min", "h"}
    <3>1. Total(span, unit, a) = Ratio(span, u) BY <2>3 DEF Total, u
    <3>2. u \in Int /\ u # 0 BY <1>1
    <3>3. Ratio(span, u) \in Rationals /\ Equals(Ratio(span, u), n * u, u) BY <2>1, <3>2, LowestTerms DEF span
    <3>4. Ratio(span, u) = Whole(n) BY <3>2, <3>3, WholeIs
    <3> QED BY <2>2, <3>1, <3>4
  <2>4. CASE unit \in {"day", "week"}
    <3> DEFINE end == at + span  way == Sign(span)  guess == Magnitude(span) \div u
               W == {k \in guess - 1 .. guess + 1 : way * (end - Moved(a, way * k, unit).at) >= 0}
               whole == Max(W)
               from  == Moved(a, way * whole, unit).at
               to    == Moved(a, way * (whole + 1), unit).at
    <3>1. Total(span, unit, a) = Times(Whole(way), Plus(Whole(whole), Ratio(end - from, to - from)))
      BY <1>2, <2>4 DEF Total, u
    <3>2. way \in {-1, 1} /\ way * n = Magnitude(n) /\ way * Magnitude(n) = n /\ Magnitude(n) \in Nat /\ Magnitude(span) = Magnitude(n) * u
      <4>1. CASE n > 0 BY <1>1, <2>1, <4>1 DEF Sign, Magnitude, span
      <4>2. CASE n < 0 BY <1>1, <2>1, <4>2 DEF Sign, Magnitude, span
      <4> QED BY <1>6, <4>1, <4>2
    <3>3. guess = Magnitude(n)
      <4> DEFINE m == Magnitude(n)  s == Magnitude(span)
      <4>1. m \in Int /\ s \in Int /\ s = u * m + 0 /\ u \in Nat /\ u > 0 /\ 0 \in Int BY <1>1, <3>2
      <4> HIDE DEF m, s
      <4>2. m = s \div u BY <4>1, OneRemainder
      <4> QED BY <4>2 DEF m, s
    <3> HIDE DEF way, guess
    <3> DEFINE m == Magnitude(n)
    <3>4. m \in Nat /\ way \in Int /\ way * m = n BY <3>2
    <3> HIDE DEF m
    <3>5. ASSUME NEW k \in Int PROVE Moved(a, way * k, unit).at = at + way * k * u
      <4>1. way * k \in Int BY <3>4
      <4> QED BY <1>3, <4>1
    <3>6. ASSUME NEW k \in Int PROVE way * (end - Moved(a, way * k, unit).at) = (m - k) * u
      <4> DEFINE x == Moved(a, way * k, unit).at
      <4>1. x = at + way * k * u BY <3>5
      <4>2. way * (at + n * u - (at + way * k * u)) = (way * n - way * way * k) * u BY <1>1, <3>4
      <4>3. way * n = m /\ way * way = 1 BY <3>2 DEF m
      <4>4. way * n - way * way * k = m - k BY <3>4, <4>3
      <4>5. end = at + n * u BY DEF span
      <4> HIDE DEF end, x
      <4>6. way * (end - x) = way * (at + n * u - (at + way * k * u)) BY <1>1, <3>4, <4>1, <4>5
      <4> QED BY <4>2, <4>4, <4>6 DEF x
    <3>7. \A k \in guess - 1 .. guess + 1 : k \in W <=> k <= m
      <4> SUFFICES ASSUME NEW k \in m - 1 .. m + 1 PROVE (m - k) * u >= 0 <=> k <= m
        <5>1. \A k \in m - 1 .. m + 1 : k \in Int BY <3>4
        <5> QED BY <3>3, <3>6, <5>1 DEF m
      <4>1. k \in {m - 1, m, m + 1} BY <3>4
      <4> QED BY <1>1, <3>4, <4>1
    <3>8. whole = m
      <4>1. W \in SUBSET Int /\ m \in W /\ \A k \in W : k <= m BY <3>3, <3>4, <3>7 DEF m
      <4> HIDE DEF W
      <4> QED BY <4>1, GreatestIs
    <3> HIDE DEF whole
    <3>9. from = at + n * u /\ to - from = way * u
      <4>1. from = at + way * m * u
        <5>1. from = Moved(a, way * m, unit).at BY <3>8
        <5> HIDE DEF from
        <5>2. m \in Int BY <3>4
        <5> QED BY <3>5, <5>1, <5>2
      <4>2. m + 1 \in Int BY <3>4
      <4>3. to = at + way * (m + 1) * u BY <3>5, <3>8, <4>2
      <4>4. way * (m + 1) * u - way * m * u = way * u BY <1>1, <3>4
      <4>5. way * m * u \in Int /\ way * (m + 1) * u \in Int BY <1>1, <3>4
      <4> HIDE DEF from, to
      <4> QED BY <3>4, <4>1, <4>3, <4>4, <4>5
    <3> HIDE DEF from, to
    <3> DEFINE v == way * u
    <3>10. v \in Int /\ v # 0 /\ end - from = 0 * v
      <4>1. v \in Int /\ v # 0 BY <1>1, <3>2
      <4>2. end - from = 0 BY <2>1, <3>9 DEF span
      <4> QED BY <4>1, <4>2
    <3> HIDE DEF v, end
    <3>11. Ratio(end - from, to - from) = Whole(0)
      <4>1. end - from \in Int /\ to - from = v BY <3>9, <3>10 DEF v
      <4>2. Ratio(end - from, v) \in Rationals /\ Equals(Ratio(end - from, v), 0 * v, v) BY <3>10, <4>1, LowestTerms
      <4> QED BY <3>10, <4>1, <4>2, WholeIs
    <3>12. Plus(Whole(m), Whole(0)) = Whole(m)
      <4>1. Whole(m) \in Rationals /\ Whole(0) \in Rationals /\ Whole(m) = <<m, 1>> /\ Whole(0) = <<0, 1>> BY <3>4, WholeIsRational DEF Whole
      <4>2. Plus(Whole(m), Whole(0)) \in Rationals /\ Equals(Plus(Whole(m), Whole(0)), m * 1 + 0 * 1, 1 * 1) BY <4>1, SumsAreExact
      <4>3. m * 1 + 0 * 1 = m * 1 /\ 1 * 1 = 1 /\ m \in Int BY <3>4
      <4> QED BY <4>2, <4>3, WholeIs
    <3>13. Times(Whole(way), Whole(m)) = Whole(n)
      <4>1. Whole(m) \in Rationals /\ Whole(way) \in Rationals /\ Whole(m) = <<m, 1>> /\ Whole(way) = <<way, 1>> BY <3>4, WholeIsRational DEF Whole
      <4>2. Times(Whole(way), Whole(m)) \in Rationals /\ Equals(Times(Whole(way), Whole(m)), way * m, 1 * 1) BY <4>1, ProductsAreExact
      <4>3. way * m = n * 1 /\ 1 * 1 = 1 BY <3>4
      <4> QED BY <4>2, <4>3, WholeIs
    <3> QED BY <2>2, <3>1, <3>8, <3>11, <3>12, <3>13
  <2> QED BY <2>3, <2>4
<1> QED BY <1>5, <1>6 DEF a, b

-----------------------------------------------------------------------------
(* Rationals as an ordered field: fractions of the same value.             *)

LEMMA SameValue ==
    ASSUME NEW p \in Rationals, NEW q \in Rationals, NEW n \in Int, NEW m \in Int, NEW u \in Int, NEW v \in Int,
           u # 0, v # 0, Equals(p, n, u), Equals(q, m, v), n * v = m * u
    PROVE  p = q
<1> DEFINE a == p[1]  b == p[2]  c == q[1]  d == q[2]
<1>1. a \in Int /\ b \in Int /\ c \in Int /\ d \in Int /\ b # 0 /\ d # 0 BY DEF Rationals
<1>2. a * u = n * b /\ c * v = m * d BY DEF Equals
<1> HIDE DEF a, b, c, d
<1>3. u * (v * (a * d)) = u * (v * (c * b))
  <2>1. u * (v * (a * d)) = (a * u) * (d * v) BY <1>1
  <2>2. (n * b) * (d * v) = (n * v) * (b * d) BY <1>1
  <2>3. (m * u) * (b * d) = (m * d) * (b * u) BY <1>1
  <2>4. (c * v) * (b * u) = u * (v * (c * b)) BY <1>1
  <2> QED BY <1>2, <2>1, <2>2, <2>3, <2>4
<1>4. a * d = c * b
  <2>1. v * (a * d) = v * (c * b)
    <3> DEFINE x == v * (a * d)  y == v * (c * b)
    <3>1. x \in Int /\ y \in Int /\ u * x = u * y BY <1>1, <1>3
    <3> HIDE DEF x, y
    <3>2. x = y BY <3>1, Cancel
    <3> QED BY <3>2 DEF x, y
  <2> DEFINE x == a * d  y == c * b
  <2>2. x \in Int /\ y \in Int /\ v * x = v * y BY <1>1, <2>1
  <2> HIDE DEF x, y
  <2>3. x = y BY <2>2, Cancel
  <2> QED BY <2>3 DEF x, y
<1> QED BY <1>4, OneForm DEF a, b, c, d

\* A product of two sides, with what is known of each of them.
LEMMA SumIs ==
    ASSUME NEW p \in Rationals, NEW q \in Rationals, NEW n \in Int, NEW m \in Int, NEW u \in Int, NEW v \in Int,
           u # 0, v # 0, Equals(p, n, u), Equals(q, m, v)
    PROVE  /\ Plus(p, q) \in Rationals /\ Equals(Plus(p, q), n * v + m * u, u * v)
           /\ Minus(p, q) \in Rationals /\ Equals(Minus(p, q), n * v - m * u, u * v)
           /\ u * v \in Int /\ u * v # 0
<1> DEFINE a == p[1]  b == p[2]  c == q[1]  d == q[2]
<1>1. a \in Int /\ b \in Int /\ c \in Int /\ d \in Int /\ b # 0 /\ d # 0 BY DEF Rationals
<1>2. a * u = n * b /\ c * v = m * d BY DEF Equals
<1>3. /\ Plus(p, q) \in Rationals /\ Equals(Plus(p, q), a * d + c * b, b * d)
      /\ Minus(p, q) \in Rationals /\ Equals(Minus(p, q), a * d - c * b, b * d)
  BY SumsAreExact
<1> HIDE DEF a, b, c, d
<1>4. ASSUME NEW s \in Rationals, NEW k \in Int, NEW l \in Int, NEW t \in Int, NEW w \in Int,
             Equals(s, t, b * d), t = k * (a * d) + l * (c * b), w = k * (n * v) + l * (m * u)
      PROVE  Equals(s, w, u * v)
  <2> DEFINE x == s[1]  y == s[2]
  <2>1. x \in Int /\ y \in Int BY DEF Rationals
  <2>2. x * (b * d) = t * y BY <1>4 DEF Equals
  <2> HIDE DEF x, y
  <2>3. t * (u * v) = w * (b * d)
    <3>1. (a * d) * (u * v) = (n * v) * (b * d)
      <4>1. (a * d) * (u * v) = (a * u) * (d * v) BY <1>1
      <4>2. (n * b) * (d * v) = (n * v) * (b * d) BY <1>1
      <4> QED BY <1>2, <4>1, <4>2
    <3>2. (c * b) * (u * v) = (m * u) * (b * d)
      <4>1. (c * b) * (u * v) = (c * v) * (b * u) BY <1>1
      <4>2. (m * d) * (b * u) = (m * u) * (b * d) BY <1>1
      <4> QED BY <1>2, <4>1, <4>2
    <3> DEFINE e == a * d  f == c * b  g == n * v  h == m * u  i == u * v  j == b * d
    <3>3. e \in Int /\ f \in Int /\ g \in Int /\ h \in Int /\ i \in Int /\ j \in Int BY <1>1
    <3>4. e * i = g * j /\ f * i = h * j /\ t = k * e + l * f /\ w = k * g + l * h BY <1>4, <3>1, <3>2
    <3> HIDE DEF e, f, g, h, i, j
    <3>5. t * i = k * (e * i) + l * (f * i) BY <3>3, <3>4
    <3>6. k * (g * j) + l * (h * j) = w * j BY <3>3, <3>4
    <3>7. t * i = w * j BY <3>4, <3>5, <3>6
    <3> QED BY <3>7 DEF i, j
  <2>4. b * (d * (x * (u * v))) = b * (d * (w * y))
    <3> DEFINE i == u * v  j == b * d
    <3>1. i \in Int /\ j \in Int BY <1>1
    <3>2. x * j = t * y /\ t * i = w * j BY <2>2, <2>3
    <3>3. b * (d * (x * i)) = j * (x * i) /\ b * (d * (w * y)) = j * (w * y) BY <1>1, <2>1, <3>1
    <3> HIDE DEF i, j
    <3>4. j * (x * i) = (x * j) * i BY <2>1, <3>1
    <3>5. (t * y) * i = (t * i) * y BY <2>1, <3>1
    <3>6. (w * j) * y = j * (w * y) BY <2>1, <3>1
    <3>7. b * (d * (x * i)) = b * (d * (w * y)) BY <3>2, <3>3, <3>4, <3>5, <3>6
    <3> QED BY <3>7 DEF i
  <2>5. d * (x * (u * v)) = d * (w * y)
    <3> DEFINE e == d * (x * (u * v))  f == d * (w * y)
    <3>1. e \in Int /\ f \in Int /\ b * e = b * f BY <1>1, <2>1, <2>4
    <3> HIDE DEF e, f
    <3>2. e = f BY <1>1, <3>1, Cancel
    <3> QED BY <3>2 DEF e, f
  <2>6. x * (u * v) = w * y
    <3> DEFINE e == x * (u * v)  f == w * y
    <3>1. e \in Int /\ f \in Int /\ d * e = d * f BY <1>1, <2>1, <2>5
    <3> HIDE DEF e, f
    <3>2. e = f BY <1>1, <3>1, Cancel
    <3> QED BY <3>2 DEF e, f
  <2> QED BY <2>6 DEF Equals, x, y
<1>5. Equals(Plus(p, q), n * v + m * u, u * v)
  <2>1. a * d + c * b = 1 * (a * d) + 1 * (c * b) /\ n * v + m * u = 1 * (n * v) + 1 * (m * u) BY <1>1
  <2>2. a * d + c * b \in Int /\ n * v + m * u \in Int BY <1>1
  <2> QED BY <1>3, <1>4, <2>1, <2>2
<1>6. Equals(Minus(p, q), n * v - m * u, u * v)
  <2>1. a * d - c * b = 1 * (a * d) + (-1) * (c * b) /\ n * v - m * u = 1 * (n * v) + (-1) * (m * u) BY <1>1
  <2>2. a * d - c * b \in Int /\ n * v - m * u \in Int BY <1>1
  <2> QED BY <1>3, <1>4, <2>1, <2>2
<1>7. u * v \in Int /\ u * v # 0
  <2>1. ASSUME u * v = 0 PROVE FALSE
    <3>1. u * v = u * 0 BY <2>1
    <3>2. v = 0 BY <3>1, Cancel
    <3> QED BY <3>2
  <2> QED BY <2>1
<1> QED BY <1>3, <1>5, <1>6, <1>7

LEMMA ProductIs ==
    ASSUME NEW p \in Rationals, NEW q \in Rationals, NEW n \in Int, NEW m \in Int, NEW u \in Int, NEW v \in Int,
           u # 0, v # 0, Equals(p, n, u), Equals(q, m, v)
    PROVE  /\ Times(p, q) \in Rationals /\ Equals(Times(p, q), n * m, u * v)
           /\ q[1] # 0 => Over(p, q) \in Rationals /\ Equals(Over(p, q), n * v, u * m)
           /\ u * v \in Int /\ u * v # 0 /\ (q[1] # 0 => u * m # 0)
<1> DEFINE a == p[1]  b == p[2]  c == q[1]  d == q[2]
<1>1. a \in Int /\ b \in Int /\ c \in Int /\ d \in Int /\ b # 0 /\ d # 0 BY DEF Rationals
<1>2. a * u = n * b /\ c * v = m * d BY DEF Equals
<1>3. /\ Times(p, q) \in Rationals /\ Equals(Times(p, q), a * c, b * d)
      /\ c # 0 => Over(p, q) \in Rationals /\ Equals(Over(p, q), a * d, b * c)
  BY ProductsAreExact
<1>7. ASSUME NEW g \in Int, NEW h \in Int, g # 0, h # 0 PROVE g * h \in Int /\ g * h # 0
  <2>1. ASSUME g * h = 0 PROVE FALSE
    <3>1. g * h = g * 0 BY <2>1
    <3>2. h = 0 BY <1>7, <3>1, Cancel
    <3> QED BY <1>7, <3>2
  <2> QED BY <2>1
<1>8. ASSUME c # 0 PROVE m # 0
  <2>1. ASSUME m = 0 PROVE FALSE
    <3>1. c * v = 0 BY <1>1, <1>2, <2>1
    <3> QED BY <1>1, <1>7, <1>8, <3>1
  <2> QED BY <2>1
<1> HIDE DEF a, b, c, d
<1>4. ASSUME NEW s \in Rationals, NEW t \in Int, NEW r \in Int, NEW w \in Int, NEW z \in Int, r # 0,
             Equals(s, t, r), t * z = w * r
      PROVE  Equals(s, w, z)
  <2> DEFINE x == s[1]  y == s[2]
  <2>1. x \in Int /\ y \in Int BY DEF Rationals
  <2>2. x * r = t * y BY <1>4 DEF Equals
  <2> HIDE DEF x, y
  <2>3. r * (x * z) = r * (w * y)
    <3>1. r * (x * z) = (x * r) * z BY <2>1
    <3>2. (t * y) * z = (t * z) * y BY <2>1
    <3>3. (w * r) * y = r * (w * y) BY <2>1
    <3> QED BY <1>4, <2>2, <3>1, <3>2, <3>3
  <2>4. x * z = w * y
    <3> DEFINE e == x * z  f == w * y
    <3>1. e \in Int /\ f \in Int /\ r * e = r * f BY <2>1, <2>3
    <3> HIDE DEF e, f
    <3>2. e = f BY <1>4, <3>1, Cancel
    <3> QED BY <3>2 DEF e, f
  <2> QED BY <2>4 DEF Equals, x, y
<1>5. Equals(Times(p, q), n * m, u * v)
  <2>1. (a * c) * (u * v) = (n * m) * (b * d)
    <3>1. (a * c) * (u * v) = (a * u) * (c * v) BY <1>1
    <3>2. (n * b) * (m * d) = (n * m) * (b * d) BY <1>1
    <3> QED BY <1>2, <3>1, <3>2
  <2>2. a * c \in Int /\ b * d \in Int /\ b * d # 0 /\ n * m \in Int /\ u * v \in Int BY <1>1, <1>7
  <2> QED BY <1>3, <1>4, <2>1, <2>2
<1>6. ASSUME c # 0 PROVE Equals(Over(p, q), n * v, u * m)
  <2>1. (a * d) * (u * m) = (n * v) * (b * c)
    <3>1. (a * d) * (u * m) = (a * u) * (m * d) BY <1>1
    <3>2. (n * b) * (c * v) = (n * v) * (b * c) BY <1>1
    <3> QED BY <1>2, <3>1, <3>2
  <2>2. a * d \in Int /\ b * c \in Int /\ b * c # 0 /\ n * v \in Int /\ u * m \in Int BY <1>1, <1>6, <1>7
  <2> QED BY <1>3, <1>4, <1>6, <2>1, <2>2
<1>9. u * v \in Int /\ u * v # 0 /\ (c # 0 => u * m # 0) BY <1>7, <1>8
<1> QED BY <1>3, <1>5, <1>6, <1>9 DEF c

LEMMA PartsOf ==
    ASSUME NEW p \in Rationals
    PROVE  p[1] \in Int /\ p[2] \in Int /\ p[2] > 0 /\ p[2] # 0 /\ Equals(p, p[1], p[2]) /\ p = <<p[1], p[2]>>
BY DEF Rationals, Equals

LEMMA NothingIsRational == Zero \in Rationals /\ Equals(Zero, 0, 1) /\ Whole(1) \in Rationals /\ Equals(Whole(1), 1, 1)
<1>1. Zero = Whole(0) BY DEF Zero, Whole
<1>2. Whole(0) \in Rationals /\ Whole(1) \in Rationals BY WholeIsRational
<1> QED BY <1>1, <1>2 DEF Equals, Whole, Zero

\* The rationals of the precision domain, which every f64 stands for here, add,
\* subtract, multiply and divide as fractions do: reducing loses nothing.
THEOREM FieldLaws ==
    \A p \in Rationals, q \in Rationals, r \in Rationals :
        /\ Plus(p, q) = Plus(q, p) /\ Plus(Plus(p, q), r) = Plus(p, Plus(q, r))
        /\ Plus(p, Zero) = p /\ Plus(Minus(p, q), q) = p /\ Minus(Plus(p, q), q) = p
        /\ Times(p, q) = Times(q, p) /\ Times(Times(p, q), r) = Times(p, Times(q, r)) /\ Times(p, Whole(1)) = p
        /\ Times(p, Plus(q, r)) = Plus(Times(p, q), Times(p, r))
        /\ q[1] # 0 => Times(Over(p, q), q) = p /\ Over(Times(p, q), q) = p
<1> SUFFICES ASSUME NEW p \in Rationals, NEW q \in Rationals, NEW r \in Rationals
             PROVE  /\ Plus(p, q) = Plus(q, p) /\ Plus(Plus(p, q), r) = Plus(p, Plus(q, r))
                    /\ Plus(p, Zero) = p /\ Plus(Minus(p, q), q) = p /\ Minus(Plus(p, q), q) = p
                    /\ Times(p, q) = Times(q, p) /\ Times(Times(p, q), r) = Times(p, Times(q, r)) /\ Times(p, Whole(1)) = p
                    /\ Times(p, Plus(q, r)) = Plus(Times(p, q), Times(p, r))
                    /\ q[1] # 0 => Times(Over(p, q), q) = p /\ Over(Times(p, q), q) = p
  OBVIOUS
<1> DEFINE a == p[1]  b == p[2]  c == q[1]  d == q[2]  e == r[1]  f == r[2]
<1>1. /\ a \in Int /\ b \in Int /\ b # 0 /\ Equals(p, a, b)
      /\ c \in Int /\ d \in Int /\ d # 0 /\ Equals(q, c, d)
      /\ e \in Int /\ f \in Int /\ f # 0 /\ Equals(r, e, f)
  BY PartsOf
<1> HIDE DEF a, b, c, d, e, f
<1>2. Zero \in Rationals /\ Equals(Zero, 0, 1) /\ Whole(1) \in Rationals /\ Equals(Whole(1), 1, 1) BY NothingIsRational
\* the sums and products of two, and their fractions
<1>3. /\ Plus(p, q) \in Rationals /\ Equals(Plus(p, q), a * d + c * b, b * d)
      /\ Minus(p, q) \in Rationals /\ Equals(Minus(p, q), a * d - c * b, b * d)
      /\ b * d \in Int /\ b * d # 0
  BY <1>1, SumIs
<1>4. Plus(q, p) \in Rationals /\ Equals(Plus(q, p), c * b + a * d, d * b) BY <1>1, SumIs
<1>5. Plus(q, r) \in Rationals /\ Equals(Plus(q, r), c * f + e * d, d * f) /\ d * f \in Int /\ d * f # 0 BY <1>1, SumIs
<1>6. /\ Times(p, q) \in Rationals /\ Equals(Times(p, q), a * c, b * d)
      /\ c # 0 => Over(p, q) \in Rationals /\ Equals(Over(p, q), a * d, b * c) /\ b * c # 0
  BY <1>1, ProductIs DEF c
<1>7. Times(q, p) \in Rationals /\ Equals(Times(q, p), c * a, d * b) BY <1>1, ProductIs
<1>8. Times(q, r) \in Rationals /\ Equals(Times(q, r), c * e, d * f) BY <1>1, ProductIs
<1>9. Times(p, r) \in Rationals /\ Equals(Times(p, r), a * e, b * f) /\ b * f \in Int /\ b * f # 0 BY <1>1, ProductIs
<1> DEFINE s == a * d + c * b  t == b * d  u == c * f + e * d  v == d * f  w == a * c  x == c * e  y == a * e  z == b * f
           h == a * d - c * b  i == a * d  j == b * c
<1>10. /\ s \in Int /\ t \in Int /\ u \in Int /\ v \in Int /\ w \in Int /\ x \in Int /\ y \in Int /\ z \in Int
       /\ h \in Int /\ i \in Int /\ j \in Int
  BY <1>1
<1>11. /\ Equals(Plus(p, q), s, t) /\ Equals(Minus(p, q), h, t) /\ t # 0 /\ Equals(Plus(q, r), u, v) /\ v # 0
       /\ Equals(Times(p, q), w, t) /\ Equals(Times(q, r), x, v) /\ Equals(Times(p, r), y, z) /\ z # 0
       /\ c # 0 => Equals(Over(p, q), i, j) /\ j # 0
  BY <1>3, <1>5, <1>6, <1>8, <1>9
<1> HIDE DEF s, t, u, v, w, x, y, z, h, i, j
<1>12. Plus(p, q) = Plus(q, p)
  <2>1. s = c * b + a * d /\ t = d * b BY <1>1 DEF s, t
  <2> QED BY <1>3, <1>4, <1>10, <1>11, <2>1, SameValue
<1>13. Plus(Plus(p, q), r) = Plus(p, Plus(q, r))
  <2>1. Plus(Plus(p, q), r) \in Rationals /\ Equals(Plus(Plus(p, q), r), s * f + e * t, t * f) /\ t * f # 0
    BY <1>1, <1>3, <1>10, <1>11, SumIs
  <2>2. Plus(p, Plus(q, r)) \in Rationals /\ Equals(Plus(p, Plus(q, r)), a * v + u * b, b * v) /\ b * v # 0
    BY <1>1, <1>5, <1>10, <1>11, SumIs
  <2>3. s * f + e * t = a * v + u * b /\ t * f = b * v BY <1>1 DEF s, t, u, v
  <2>4. s * f + e * t \in Int /\ t * f \in Int BY <1>1, <1>10
  <2> QED BY <2>1, <2>2, <2>3, <2>4, SameValue
<1>14. Plus(p, Zero) = p
  <2>1. Plus(p, Zero) \in Rationals /\ Equals(Plus(p, Zero), a * 1 + 0 * b, b * 1) BY <1>1, <1>2, SumIs
  <2>2. a * 1 + 0 * b = a /\ b * 1 = b BY <1>1
  <2> QED BY <1>1, <2>1, <2>2, SameValue
<1>15. Plus(Minus(p, q), q) = p
  <2>1. Plus(Minus(p, q), q) \in Rationals /\ Equals(Plus(Minus(p, q), q), h * d + c * t, t * d) /\ t * d # 0
    BY <1>1, <1>3, <1>10, <1>11, SumIs
  <2>2. (h * d + c * t) * b = a * (t * d) BY <1>1 DEF h, t
  <2>3. h * d + c * t \in Int /\ t * d \in Int BY <1>1, <1>10
  <2> QED BY <1>1, <2>1, <2>2, <2>3, SameValue
<1>16. Minus(Plus(p, q), q) = p
  <2>1. Minus(Plus(p, q), q) \in Rationals /\ Equals(Minus(Plus(p, q), q), s * d - c * t, t * d) /\ t * d # 0
    BY <1>1, <1>3, <1>10, <1>11, SumIs
  <2>2. (s * d - c * t) * b = a * (t * d) BY <1>1 DEF s, t
  <2>3. s * d - c * t \in Int /\ t * d \in Int BY <1>1, <1>10
  <2> QED BY <1>1, <2>1, <2>2, <2>3, SameValue
<1>17. Times(p, q) = Times(q, p)
  <2>1. w = c * a /\ t = d * b BY <1>1 DEF w, t
  <2> QED BY <1>6, <1>7, <1>10, <1>11, <2>1, SameValue
<1>18. Times(Times(p, q), r) = Times(p, Times(q, r))
  <2>1. Times(Times(p, q), r) \in Rationals /\ Equals(Times(Times(p, q), r), w * e, t * f) /\ t * f # 0
    BY <1>1, <1>6, <1>10, <1>11, ProductIs
  <2>2. Times(p, Times(q, r)) \in Rationals /\ Equals(Times(p, Times(q, r)), a * x, b * v) /\ b * v # 0
    BY <1>1, <1>8, <1>10, <1>11, ProductIs
  <2>3. w * e = a * x /\ t * f = b * v BY <1>1 DEF w, x, t, v
  <2>4. w * e \in Int /\ t * f \in Int BY <1>1, <1>10
  <2> QED BY <2>1, <2>2, <2>3, <2>4, SameValue
<1>19. Times(p, Whole(1)) = p
  <2>1. Times(p, Whole(1)) \in Rationals /\ Equals(Times(p, Whole(1)), a * 1, b * 1) BY <1>1, <1>2, ProductIs
  <2>2. a * 1 = a /\ b * 1 = b BY <1>1
  <2> QED BY <1>1, <2>1, <2>2, SameValue
<1>20. Times(p, Plus(q, r)) = Plus(Times(p, q), Times(p, r))
  <2>1. Times(p, Plus(q, r)) \in Rationals /\ Equals(Times(p, Plus(q, r)), a * u, b * v) /\ b * v # 0
    BY <1>1, <1>5, <1>10, <1>11, ProductIs
  <2>2. Plus(Times(p, q), Times(p, r)) \in Rationals /\ Equals(Plus(Times(p, q), Times(p, r)), w * z + y * t, t * z) /\ t * z # 0
    BY <1>6, <1>9, <1>10, <1>11, SumIs
  <2>3. (a * u) * (t * z) = (w * z + y * t) * (b * v)
    <3>1. w * z + y * t = b * (a * u) BY <1>1 DEF w, z, y, t, u
    <3>2. t * z = b * (b * v) BY <1>1 DEF t, z, v
    <3>3. (a * u) * (b * (b * v)) = (b * (a * u)) * (b * v) BY <1>1, <1>10
    <3> QED BY <3>1, <3>2, <3>3
  <2>4. a * u \in Int /\ b * v \in Int /\ t * z \in Int /\ w * z + y * t \in Int BY <1>1, <1>10
  <2> QED BY <2>1, <2>2, <2>3, <2>4, SameValue
<1>21. ASSUME c # 0 PROVE Times(Over(p, q), q) = p /\ Over(Times(p, q), q) = p
  <2>1. Times(Over(p, q), q) \in Rationals /\ Equals(Times(Over(p, q), q), i * c, j * d) /\ j * d # 0
    BY <1>1, <1>6, <1>10, <1>11, <1>21, ProductIs
  <2>2. Over(Times(p, q), q) \in Rationals /\ Equals(Over(Times(p, q), q), w * d, t * c) /\ t * c # 0
    BY <1>1, <1>6, <1>10, <1>11, <1>21, ProductIs DEF c
  <2>3. (i * c) * b = a * (j * d) /\ (w * d) * b = a * (t * c) BY <1>1 DEF i, j, w, t
  <2>4. i * c \in Int /\ j * d \in Int /\ w * d \in Int /\ t * c \in Int BY <1>1, <1>10
  <2> QED BY <1>1, <2>1, <2>2, <2>3, <2>4, SameValue
<1> QED BY <1>12, <1>13, <1>14, <1>15, <1>16, <1>17, <1>18, <1>19, <1>20, <1>21 DEF c

LEMMA ScaledUp ==
    ASSUME NEW g \in Int, g > 0, NEW x \in Int, NEW y \in Int
    PROVE  x < y <=> g * x < g * y
<1>1. ASSUME NEW k \in Int, NEW l \in Int, k < l PROVE g * k < g * l
  <2> DEFINE h == l - k
  <2>1. h \in Int /\ h >= 1 /\ l = k + h BY <1>1
  <2> HIDE DEF h
  <2>2. g * h >= g * 1 BY <2>1
  <2>3. g * l = g * k + g * h BY <2>1
  <2>4. g * h \in Int /\ g * k \in Int BY <2>1
  <2> QED BY <2>2, <2>3, <2>4
<1>2. ASSUME ~(x < y) PROVE ~(g * x < g * y)
  <2>1. CASE x = y BY <2>1
  <2>2. CASE y < x
    <3>1. g * y < g * x BY <1>1, <2>2
    <3>2. g * x \in Int /\ g * y \in Int OBVIOUS
    <3> QED BY <3>1, <3>2
  <2> QED BY <1>2, <2>1, <2>2
<1> QED BY <1>1, <1>2

LEMMA BothPositive ==
    ASSUME NEW g \in Int, g > 0, NEW h \in Int, h > 0
    PROVE  g * h \in Int /\ g * h > 0
<1>1. g * 0 < g * h BY ScaledUp
<1> QED BY <1>1

\* Below compares the fractions, reduced or not.
LEMMA BelowIs ==
    ASSUME NEW p \in Rationals, NEW q \in Rationals, NEW n \in Int, NEW m \in Int, NEW u \in Int, NEW v \in Int,
           u > 0, v > 0, Equals(p, n, u), Equals(q, m, v)
    PROVE  Below(p, q) <=> n * v < m * u
<1> DEFINE a == p[1]  b == p[2]  c == q[1]  d == q[2]
<1>1. a \in Int /\ b \in Int /\ c \in Int /\ d \in Int /\ b > 0 /\ d > 0 BY PartsOf
<1>2. a * u = n * b /\ c * v = m * d BY DEF Equals
<1>3. Below(p, q) <=> a * d < c * b BY DEF Below
<1> HIDE DEF a, b, c, d
<1> DEFINE K == u * v  L == b * d  X == a * d  Y == c * b  N == n * v  M == m * u
<1>4. K \in Int /\ K > 0 /\ L \in Int /\ L > 0 BY <1>1, BothPositive
<1>5. X \in Int /\ Y \in Int /\ N \in Int /\ M \in Int BY <1>1
<1>6. K * X = L * N
  <2>1. K * X = (a * u) * (d * v) BY <1>1
  <2>2. (n * b) * (d * v) = L * N BY <1>1
  <2> QED BY <1>2, <2>1, <2>2
<1>7. K * Y = L * M
  <2>1. K * Y = (c * v) * (b * u) BY <1>1
  <2>2. (m * d) * (b * u) = L * M BY <1>1
  <2> QED BY <1>2, <2>1, <2>2
<1> HIDE DEF K, L, X, Y, N, M
<1>8. X < Y <=> K * X < K * Y BY <1>4, <1>5, ScaledUp
<1>9. N < M <=> L * N < L * M BY <1>4, <1>5, ScaledUp
<1>10. X < Y <=> N < M BY <1>6, <1>7, <1>8, <1>9
<1> QED BY <1>3, <1>10 DEF X, Y, N, M

\* They are in one order, which sums and positive factors keep.
THEOREM OrderLaws ==
    \A p \in Rationals, q \in Rationals, r \in Rationals :
        /\ Below(p, q) \/ p = q \/ Below(q, p)
        /\ ~Below(p, p) /\ ~(Below(p, q) /\ Below(q, p))
        /\ Below(p, q) /\ ~Below(r, q) => Below(p, r)
        /\ ~Below(q, p) /\ Below(q, r) => Below(p, r)
        /\ Below(Plus(p, r), Plus(q, r)) <=> Below(p, q)
        /\ Positive(r) => (Below(Times(p, r), Times(q, r)) <=> Below(p, q))
        /\ Positive(p) <=> Below(Zero, p)
<1> SUFFICES ASSUME NEW p \in Rationals, NEW q \in Rationals, NEW r \in Rationals
             PROVE  /\ Below(p, q) \/ p = q \/ Below(q, p)
                    /\ ~Below(p, p) /\ ~(Below(p, q) /\ Below(q, p))
                    /\ Below(p, q) /\ ~Below(r, q) => Below(p, r)
                    /\ ~Below(q, p) /\ Below(q, r) => Below(p, r)
                    /\ Below(Plus(p, r), Plus(q, r)) <=> Below(p, q)
                    /\ Positive(r) => (Below(Times(p, r), Times(q, r)) <=> Below(p, q))
                    /\ Positive(p) <=> Below(Zero, p)
  OBVIOUS
<1> DEFINE a == p[1]  b == p[2]  c == q[1]  d == q[2]  e == r[1]  f == r[2]
<1>1. /\ a \in Int /\ b \in Int /\ b > 0 /\ b # 0 /\ Equals(p, a, b)
      /\ c \in Int /\ d \in Int /\ d > 0 /\ d # 0 /\ Equals(q, c, d)
      /\ e \in Int /\ f \in Int /\ f > 0 /\ f # 0 /\ Equals(r, e, f)
  BY PartsOf
<1>2. /\ Below(p, q) <=> a * d < c * b
      /\ Below(q, p) <=> c * b < a * d
      /\ Below(p, r) <=> a * f < e * b
      /\ Below(r, q) <=> e * d < c * f
      /\ Below(q, r) <=> c * f < e * d
      /\ Below(p, p) <=> a * b < a * b
      /\ Below(Zero, p) <=> 0 * b < a * 1
      /\ Positive(p) <=> a > 0
      /\ Positive(r) <=> e > 0
  BY DEF Below, Positive, Zero
<1>3. a * d = c * b => p = q BY OneForm
<1> HIDE DEF a, b, c, d, e, f
<1> DEFINE ad == a * d  cb == c * b  af == a * f  eb == e * b  ed == e * d  cf == c * f  ab == a * b
<1>4. ad \in Int /\ cb \in Int /\ af \in Int /\ eb \in Int /\ ed \in Int /\ cf \in Int /\ ab \in Int BY <1>1
\* the three products by the denominator that is not in them
<1>5. f * ad = d * af /\ d * eb = b * ed /\ f * cb = b * cf BY <1>1
<1>6. /\ ad < cb <=> f * ad < f * cb
      /\ af < eb <=> d * af < d * eb
      /\ cf < ed <=> b * cf < b * ed
      /\ ed < cf <=> b * ed < b * cf
      /\ cb < ad <=> f * cb < f * ad
  BY <1>1, <1>4, ScaledUp
<1>7. Below(p, q) \/ p = q \/ Below(q, p)
  <2>1. ad < cb \/ ad = cb \/ cb < ad BY <1>4
  <2> QED BY <1>2, <1>3, <2>1
<1>8. ~Below(p, p) /\ ~(Below(p, q) /\ Below(q, p))
  <2>1. ~(ab < ab) /\ ~(ad < cb /\ cb < ad) BY <1>4
  <2> QED BY <1>2, <2>1
<1>9. /\ Below(p, q) /\ ~Below(r, q) => Below(p, r)
      /\ ~Below(q, p) /\ Below(q, r) => Below(p, r)
  <2> HIDE DEF ad, cb, af, eb, ed, cf
  <2> DEFINE A == f * ad  B == f * cb  C == b * ed
  <2>1. A \in Int /\ B \in Int /\ C \in Int BY <1>1, <1>4
  <2>2. d * af = A /\ d * eb = C /\ b * cf = B BY <1>5
  <2>3. (ad < cb <=> A < B) /\ (af < eb <=> A < C) /\ (cf < ed <=> B < C) /\ (ed < cf <=> C < B) /\ (cb < ad <=> B < A)
    BY <1>6, <2>2
  <2> HIDE DEF A, B, C
  <2>4. (ad < cb /\ ~(ed < cf) => af < eb) /\ (~(cb < ad) /\ cf < ed => af < eb) BY <2>1, <2>3
  <2> QED BY <1>2, <2>4 DEF ad, cb, af, eb, ed, cf
<1>10. Below(Plus(p, r), Plus(q, r)) <=> Below(p, q)
  <2> DEFINE s == a * f + e * b  t == c * f + e * d  u == b * f  v == d * f
  <2>1. /\ Plus(p, r) \in Rationals /\ Equals(Plus(p, r), s, u)
        /\ Plus(q, r) \in Rationals /\ Equals(Plus(q, r), t, v)
    BY <1>1, SumIs
  <2>2. u \in Int /\ u > 0 /\ v \in Int /\ v > 0 /\ s \in Int /\ t \in Int BY <1>1, BothPositive
  <2>3. s * v = f * (f * ad) + e * (b * v) /\ t * u = f * (f * cb) + e * (b * v) BY <1>1
  <2> HIDE DEF s, t, u, v
  <2>4. Below(Plus(p, r), Plus(q, r)) <=> s * v < t * u BY <2>1, <2>2, BelowIs
  <2> HIDE DEF ad, cb
  <2>5. ad < cb <=> f * (f * ad) < f * (f * cb)
    <3>1. f * ad \in Int /\ f * cb \in Int BY <1>1, <1>4
    <3>2. f * ad < f * cb <=> f * (f * ad) < f * (f * cb) BY <1>1, <3>1, ScaledUp
    <3> QED BY <1>6, <3>2
  <2> DEFINE g == f * (f * ad)  h == f * (f * cb)  i == e * (b * v)
  <2>6. g \in Int /\ h \in Int /\ i \in Int BY <1>1, <1>4, <2>2
  <2>7. s * v = g + i /\ t * u = h + i /\ (ad < cb <=> g < h) BY <2>3, <2>5
  <2> HIDE DEF g, h, i
  <2>8. s * v < t * u <=> ad < cb BY <2>6, <2>7
  <2> QED BY <1>2, <2>4, <2>8 DEF ad, cb
<1>11. ASSUME e > 0 PROVE Below(Times(p, r), Times(q, r)) <=> Below(p, q)
  <2> DEFINE s == a * e  t == c * e  u == b * f  v == d * f  g == e * f
  <2>1. /\ Times(p, r) \in Rationals /\ Equals(Times(p, r), s, u)
        /\ Times(q, r) \in Rationals /\ Equals(Times(q, r), t, v)
    BY <1>1, ProductIs
  <2>2. u \in Int /\ u > 0 /\ v \in Int /\ v > 0 /\ s \in Int /\ t \in Int /\ g \in Int /\ g > 0 BY <1>1, <1>11, BothPositive
  <2>3. s * v = g * ad /\ t * u = g * cb BY <1>1
  <2> HIDE DEF s, t, u, v, g
  <2>4. Below(Times(p, r), Times(q, r)) <=> s * v < t * u BY <2>1, <2>2, BelowIs
  <2> HIDE DEF ad, cb
  <2>5. ad < cb <=> g * ad < g * cb BY <1>4, <2>2, ScaledUp
  <2> QED BY <1>2, <2>3, <2>4, <2>5 DEF ad, cb
<1>12. Positive(p) <=> Below(Zero, p)
  <2>1. 0 * b = 0 /\ a * 1 = a BY <1>1
  <2> QED BY <1>1, <1>2, <2>1
<1> QED BY <1>2, <1>7, <1>8, <1>9, <1>10, <1>11, <1>12

-----------------------------------------------------------------------------
(* Units.                                                                  *)

LEMMA ReducedIs ==
    ASSUME NEW a \in Int, NEW b \in Int, b > 0, NEW x \in Int, NEW y \in Int, a * x + b * y = 1
    PROVE  <<a, b>> \in Rationals /\ Equals(<<a, b>>, a, b)
<1>1. Coprime(a, b) BY DEF Coprime
<1>2. b \in Nat \ {0} OBVIOUS
<1>3. <<a, b>> \in Rationals BY <1>1, <1>2, RationalIs
<1> QED BY <1>3 DEF Equals

\* p is n over c times b; two fractions over the same b are the same number.
Line(p, n, c, b)     == Equals(p, n, c * b)
Parallel(n, c, m, e) == n * e = m * c

LEMMA SameFraction ==
    ASSUME NEW p \in Rationals, NEW n \in Int, NEW c \in Int, NEW m \in Int, NEW e \in Int, NEW b \in Int,
           c # 0, b # 0, Line(p, n, c, b), Parallel(n, c, m, e)
    PROVE  Line(p, m, e, b)
<1> DEFINE x == p[1]  y == p[2]
<1>1. x \in Int /\ y \in Int /\ x * (c * b) = n * y BY PartsOf DEF Equals, Line
<1> HIDE DEF x, y
<1>2. c * (x * (e * b)) = c * (m * y)
  <2>1. c * (x * (e * b)) = (x * (c * b)) * e BY <1>1
  <2>2. (n * y) * e = (n * e) * y /\ n * e = m * c BY <1>1 DEF Parallel
  <2>3. (m * c) * y = c * (m * y) BY <1>1
  <2> QED BY <1>1, <2>1, <2>2, <2>3
<1>3. x * (e * b) = m * y
  <2> DEFINE k == x * (e * b)  l == m * y
  <2>1. k \in Int /\ l \in Int /\ c * k = c * l BY <1>1, <1>2
  <2> HIDE DEF k, l
  <2>2. k = l BY <2>1, Cancel
  <2> QED BY <2>2 DEF k, l
<1> QED BY <1>3 DEF Equals, Line, x, y

LEMMA SameLine ==
    ASSUME NEW p \in Rationals, NEW q \in Rationals, NEW n \in Int, NEW c \in Int, NEW m \in Int, NEW e \in Int, NEW b \in Int,
           c # 0, e # 0, b # 0, Line(p, n, c, b), Line(q, m, e, b), Parallel(n, c, m, e)
    PROVE  p = q
<1>1. Equals(p, m, e * b) /\ Equals(q, m, e * b) BY SameFraction DEF Line
<1>2. e * b \in Int /\ e * b # 0
  <2>1. ASSUME e * b = 0 PROVE FALSE
    <3>1. e * b = e * 0 BY <2>1
    <3>2. b = 0 BY <3>1, Cancel
    <3> QED BY <3>2
  <2> QED BY <2>1
<1>3. m * (e * b) = m * (e * b) OBVIOUS
<1> QED BY ONLY <1>1, <1>2, SameValue, p \in Rationals, q \in Rationals, m \in Int

LEMMA Scales ==
    /\ Freezing \in Rationals /\ Equals(Freezing, 5463, 20)
    /\ <<5, 9>> \in Rationals /\ Equals(<<5, 9>>, 5, 9)
    /\ <<9, 5>> \in Rationals /\ Equals(<<9, 5>>, 9, 5)
    /\ Whole(32) \in Rationals /\ Equals(Whole(32), 32, 1)
    /\ FixedPoints["C"] = <<<<0, 1>>, <<100, 1>>>> /\ FixedPoints["F"] = <<<<32, 1>>, <<212, 1>>>>
    /\ FixedPoints["K"] = <<<<5463, 20>>, <<7463, 20>>>> /\ FixedPoints["R"] = <<<<49167, 100>>, <<67167, 100>>>>
    /\ <<0, 1>> \in Rationals /\ Equals(<<0, 1>>, 0, 1) /\ <<100, 1>> \in Rationals /\ Equals(<<100, 1>>, 100, 1)
    /\ <<32, 1>> \in Rationals /\ Equals(<<32, 1>>, 32, 1) /\ <<212, 1>> \in Rationals /\ Equals(<<212, 1>>, 212, 1)
    /\ <<5463, 20>> \in Rationals /\ Equals(<<5463, 20>>, 5463, 20) /\ <<7463, 20>> \in Rationals /\ Equals(<<7463, 20>>, 7463, 20)
    /\ <<49167, 100>> \in Rationals /\ Equals(<<49167, 100>>, 49167, 100)
    /\ <<67167, 100>> \in Rationals /\ Equals(<<67167, 100>>, 67167, 100)
<1>1. 5463 * 7 + 20 * (-1912) = 1 /\ 7463 * 7 + 20 * (-2612) = 1 /\ 5 * 2 + 9 * (-1) = 1 /\ 9 * (-1) + 5 * 2 = 1
  OBVIOUS
<1>2. 49167 * 3 + 100 * (-1475) = 1 /\ 67167 * 3 + 100 * (-2015) = 1 OBVIOUS
<1>3. ASSUME NEW n \in Int PROVE n * 0 + 1 * 1 = 1 OBVIOUS
<1>4. <<5463, 20>> \in Rationals /\ Equals(<<5463, 20>>, 5463, 20) BY <1>1, ReducedIs
<1>5. <<7463, 20>> \in Rationals /\ Equals(<<7463, 20>>, 7463, 20) BY <1>1, ReducedIs
<1>6. <<5, 9>> \in Rationals /\ Equals(<<5, 9>>, 5, 9) BY <1>1, ReducedIs
<1>7. <<9, 5>> \in Rationals /\ Equals(<<9, 5>>, 9, 5) BY <1>1, ReducedIs
<1>8. <<49167, 100>> \in Rationals /\ Equals(<<49167, 100>>, 49167, 100) BY <1>2, ReducedIs
<1>9. <<67167, 100>> \in Rationals /\ Equals(<<67167, 100>>, 67167, 100) BY <1>2, ReducedIs
<1>10. \A n \in Int : <<n, 1>> \in Rationals /\ Equals(<<n, 1>>, n, 1) BY <1>3, ReducedIs
<1>11. Freezing = <<5463, 20>> /\ Whole(32) = <<32, 1>> BY DEF Freezing, Whole
<1>12. /\ FixedPoints["C"] = <<<<0, 1>>, <<100, 1>>>> /\ FixedPoints["F"] = <<<<32, 1>>, <<212, 1>>>>
       /\ FixedPoints["K"] = <<<<5463, 20>>, <<7463, 20>>>> /\ FixedPoints["R"] = <<<<49167, 100>>, <<67167, 100>>>>
  BY DEF FixedPoints
<1> QED BY <1>4, <1>5, <1>6, <1>7, <1>8, <1>9, <1>10, <1>11, <1>12

\* The scales, one by one.
LEMMA Kelvins ==
    ASSUME NEW q
    PROVE  /\ ToKelvin(q, "C") = Plus(q, Freezing)
           /\ ToKelvin(q, "F") = Plus(Times(Minus(q, Whole(32)), <<5, 9>>), Freezing)
           /\ ToKelvin(q, "K") = q
           /\ ToKelvin(q, "R") = Times(q, <<5, 9>>)
           /\ FromKelvin(q, "C") = Minus(q, Freezing)
           /\ FromKelvin(q, "F") = Plus(Times(Minus(q, Freezing), <<9, 5>>), Whole(32))
           /\ FromKelvin(q, "K") = q
           /\ FromKelvin(q, "R") = Times(q, <<9, 5>>)
<1>1. ToKelvin(q, "C") = Plus(q, Freezing) BY DEF ToKelvin
<1>2. ToKelvin(q, "F") = Plus(Times(Minus(q, Whole(32)), <<5, 9>>), Freezing) BY DEF ToKelvin
<1>3. ToKelvin(q, "K") = q BY DEF ToKelvin
<1>4. ToKelvin(q, "R") = Times(q, <<5, 9>>) BY DEF ToKelvin
<1>5. FromKelvin(q, "C") = Minus(q, Freezing) BY DEF FromKelvin
<1>6. FromKelvin(q, "F") = Plus(Times(Minus(q, Freezing), <<9, 5>>), Whole(32)) BY DEF FromKelvin
<1>7. FromKelvin(q, "K") = q BY DEF FromKelvin
<1>8. FromKelvin(q, "R") = Times(q, <<9, 5>>) BY DEF FromKelvin
<1> QED BY <1>1, <1>2, <1>3, <1>4, <1>5, <1>6, <1>7, <1>8

\* How far q is from freezing to boiling, and the kelvins of it.
PartOf(q, from) == Over(Minus(q, FixedPoints[from][1]), Minus(FixedPoints[from][2], FixedPoints[from][1]))

LEMMA SpanIs ==
    ASSUME NEW from \in TemperatureUnits
    PROVE  \E h \in {100, 180} :
              /\ h = (IF from \in {"C", "K"} THEN 100 ELSE 180)
              /\ Minus(FixedPoints[from][2], FixedPoints[from][1]) = Whole(h)
              /\ FixedPoints[from][1] \in Rationals
<1>1. ASSUME NEW p \in Rationals, NEW q \in Rationals, NEW n \in Int, NEW m \in Int, NEW c \in Int, NEW h \in Int, c # 0,
             Equals(p, n, c), Equals(q, m, c), n - m = h * c
      PROVE  Minus(p, q) = Whole(h)
  <2>1. Minus(p, q) \in Rationals /\ Equals(Minus(p, q), n * c - m * c, c * c) /\ c * c \in Int /\ c * c # 0 BY <1>1, SumIs
  <2>2. n * c - m * c = h * (c * c)
    <3>1. n * c - m * c = (n - m) * c BY <1>1
    <3>2. (h * c) * c = h * (c * c) BY <1>1
    <3> QED BY <1>1, <3>1, <3>2
  <2> DEFINE u == c * c
  <2>3. u \in Int /\ u # 0 /\ Equals(Minus(p, q), h * u, u) BY <2>1, <2>2
  <2> HIDE DEF u
  <2> QED BY <1>1, <2>1, <2>3, WholeIs
<1>2. CASE from = "C" BY <1>1, <1>2, Scales
<1>3. CASE from = "F" BY <1>1, <1>3, Scales
<1>4. CASE from = "K" BY <1>1, <1>4, Scales
<1>5. CASE from = "R" BY <1>1, <1>5, Scales
<1> QED BY <1>2, <1>3, <1>4, <1>5 DEF TemperatureUnits

\* What a hundredth of the way from freezing to boiling is in kelvins.
LEMMA KelvinIs ==
    ASSUME NEW q \in Rationals, NEW from \in TemperatureUnits
    PROVE  \E x \in Int, y \in Int :
              /\ y # 0 /\ PartOf(q, from) \in Rationals /\ Equals(PartOf(q, from), x, y)
              /\ ToKelvin(q, from) \in Rationals /\ Equals(ToKelvin(q, from), 5463 * y + 2000 * x, 20 * y)
<1> DEFINE a == q[1]  b == q[2]
<1>1. a \in Int /\ b \in Int /\ b # 0 /\ Equals(q, a, b) BY PartsOf
<1> HIDE DEF a, b
\* the part, from what freezing is on the scale
<1>2. ASSUME NEW k \in Int, NEW l \in Int, l # 0, NEW h \in {100, 180}, Equals(FixedPoints[from][1], k, l),
             FixedPoints[from][1] \in Rationals, Minus(FixedPoints[from][2], FixedPoints[from][1]) = Whole(h)
      PROVE  PartOf(q, from) \in Rationals /\ Equals(PartOf(q, from), a * l - k * b, (b * l) * h)
  <2> DEFINE p == FixedPoints[from][1]  s == Minus(q, p)
  <2>1. s \in Rationals /\ Equals(s, a * l - k * b, b * l) /\ b * l \in Int /\ b * l # 0 BY <1>1, <1>2, SumIs
  <2>2. Whole(h) \in Rationals /\ Equals(Whole(h), h, 1) /\ Whole(h)[1] # 0
    BY WholeIsRational DEF Equals, Whole
  <2>3. PartOf(q, from) = Over(s, Whole(h)) BY <1>2 DEF PartOf
  <2> HIDE DEF s
  <2> DEFINE n == a * l - k * b  u == b * l
  <2>4. n \in Int /\ u \in Int /\ u # 0 /\ Equals(s, n, u) BY <1>1, <2>1
  <2> HIDE DEF n, u
  <2>5. Over(s, Whole(h)) \in Rationals /\ Equals(Over(s, Whole(h)), n * 1, u * h) BY <2>1, <2>2, <2>4, ProductIs
  <2>6. n * 1 = n BY <2>4
  <2> QED BY <2>3, <2>5, <2>6 DEF n, u
<1>3. PICK h \in {100, 180} :
         /\ h = (IF from \in {"C", "K"} THEN 100 ELSE 180)
         /\ Minus(FixedPoints[from][2], FixedPoints[from][1]) = Whole(h)
         /\ FixedPoints[from][1] \in Rationals
  BY SpanIs
<1>4. CASE from = "C"
  <2>1. PartOf(q, from) \in Rationals /\ Equals(PartOf(q, from), a * 1 - 0 * b, (b * 1) * h)
    BY <1>2, <1>3, <1>4, Scales
  <2>2. Plus(q, Freezing) \in Rationals /\ Equals(Plus(q, Freezing), a * 20 + 5463 * b, b * 20) BY <1>1, Scales, SumIs
  <2>3. ToKelvin(q, from) = Plus(q, Freezing) BY <1>4, Kelvins
  <2> DEFINE n == a * 20 + 5463 * b  m == 546300 * b + 2000 * a
  <2>4. Line(Plus(q, Freezing), n, 20, b) /\ Parallel(n, 20, m, 2000) /\ n \in Int /\ m \in Int
    <3>1. b * 20 = 20 * b BY <1>1
    <3> QED BY <1>1, <2>2, <3>1 DEF Line, Parallel
  <2> HIDE DEF n, m
  <2>5. Line(Plus(q, Freezing), m, 2000, b) BY <1>1, <2>2, <2>4, SameFraction
  <2>6. h = 100 BY <1>3, <1>4
  <2>7. a * 1 - 0 * b = a /\ (b * 1) * h = 100 * b /\ 5463 * (100 * b) + 2000 * a = m /\ 20 * (100 * b) = 2000 * b
    BY <1>1, <2>6 DEF m
  <2>8. 100 * b \in Int /\ 100 * b # 0 BY <1>1
  <2> QED BY <1>1, <2>1, <2>2, <2>3, <2>5, <2>7, <2>8 DEF Line
<1>5. CASE from = "F"
  <2>1. PartOf(q, from) \in Rationals /\ Equals(PartOf(q, from), a * 1 - 32 * b, (b * 1) * h)
    BY <1>2, <1>3, <1>5, Scales
  <2> DEFINE d == Minus(q, Whole(32))  e == Times(d, <<5, 9>>)  i == a - 32 * b
  <2>2. d \in Rationals /\ Equals(d, a * 1 - 32 * b, b * 1) BY <1>1, Scales, SumIs
  <2>3. a * 1 - 32 * b = i /\ b * 1 = b /\ i \in Int BY <1>1
  <2> HIDE DEF d, i
  <2>4. e \in Rationals /\ Equals(e, i * 5, b * 9)
    <3>1. Equals(d, i, b) BY <2>2, <2>3
    <3>2. <<5, 9>> \in Rationals /\ Equals(<<5, 9>>, 5, 9) BY Scales
    <3> QED BY ONLY <1>1, <2>2, <2>3, <3>1, <3>2, ProductIs DEF e
  <2> HIDE DEF e
  <2>5. i * 5 \in Int /\ b * 9 \in Int /\ b * 9 # 0 BY <1>1, <2>3
  <2>6. Plus(e, Freezing) \in Rationals /\ Equals(Plus(e, Freezing), (i * 5) * 20 + 5463 * (b * 9), (b * 9) * 20)
    BY <2>4, <2>5, Scales, SumIs
  <2>7. ToKelvin(q, from) = Plus(e, Freezing) BY <1>5, Kelvins DEF d, e
  <2> DEFINE n == (i * 5) * 20 + 5463 * (b * 9)  m == 983340 * b + 2000 * i
  <2>8. Line(Plus(e, Freezing), n, 180, b) /\ Parallel(n, 180, m, 3600) /\ n \in Int /\ m \in Int
    <3>1. (b * 9) * 20 = 180 * b BY <1>1
    <3> QED BY <1>1, <2>3, <2>6, <3>1 DEF Line, Parallel
  <2> HIDE DEF n, m
  <2>9. Line(Plus(e, Freezing), m, 3600, b) BY <1>1, <2>6, <2>8, SameFraction
  <2>10. h = 180 BY <1>3, <1>5
  <2>11. (b * 1) * h = 180 * b /\ 5463 * (180 * b) + 2000 * i = m /\ 20 * (180 * b) = 3600 * b
    BY <1>1, <2>3, <2>10 DEF m
  <2>12. 180 * b \in Int /\ 180 * b # 0 BY <1>1
  <2> QED BY <2>1, <2>3, <2>6, <2>7, <2>9, <2>11, <2>12 DEF Line
<1>6. CASE from = "K"
  <2>1. PartOf(q, from) \in Rationals /\ Equals(PartOf(q, from), a * 20 - 5463 * b, (b * 20) * h)
    BY <1>2, <1>3, <1>6, Scales
  <2>2. ToKelvin(q, from) = q BY <1>6, Kelvins
  <2> DEFINE x == a * 20 - 5463 * b  m == 10926000 * b + 2000 * x
  <2>3. Line(q, a, 1, b) /\ Parallel(a, 1, m, 40000) /\ m \in Int /\ x \in Int
    <3>1. 1 * b = b BY <1>1
    <3> QED BY <1>1, <3>1 DEF Line, Parallel
  <2> HIDE DEF m, x
  <2>4. Line(q, m, 40000, b) BY <1>1, <2>3, SameFraction
  <2>5. h = 100 BY <1>3, <1>6
  <2>6. (b * 20) * h = 2000 * b /\ 5463 * (2000 * b) + 2000 * x = m /\ 20 * (2000 * b) = 40000 * b
    BY <1>1, <2>3, <2>5 DEF m
  <2>7. 2000 * b \in Int /\ 2000 * b # 0 BY <1>1
  <2> QED BY <2>1, <2>2, <2>3, <2>4, <2>6, <2>7 DEF x, Line
<1>7. CASE from = "R"
  <2>1. PartOf(q, from) \in Rationals /\ Equals(PartOf(q, from), a * 100 - 49167 * b, (b * 100) * h)
    BY <1>2, <1>3, <1>7, Scales
  <2>2. Times(q, <<5, 9>>) \in Rationals /\ Equals(Times(q, <<5, 9>>), a * 5, b * 9) BY <1>1, Scales, ProductIs
  <2>3. ToKelvin(q, from) = Times(q, <<5, 9>>) BY <1>7, Kelvins
  <2> DEFINE x == a * 100 - 49167 * b  n == a * 5  m == 98334000 * b + 2000 * x
  <2>4. Line(Times(q, <<5, 9>>), n, 9, b) /\ Parallel(n, 9, m, 360000) /\ n \in Int /\ m \in Int /\ x \in Int
    <3>1. b * 9 = 9 * b BY <1>1
    <3> QED BY <1>1, <2>2, <3>1 DEF Line, Parallel
  <2> HIDE DEF n, m, x
  <2>5. Line(Times(q, <<5, 9>>), m, 360000, b) BY <1>1, <2>2, <2>4, SameFraction
  <2>6. h = 180 BY <1>3, <1>7
  <2>7. (b * 100) * h = 18000 * b /\ 5463 * (18000 * b) + 2000 * x = m /\ 20 * (18000 * b) = 360000 * b
    BY <1>1, <2>4, <2>6 DEF m
  <2>8. 18000 * b \in Int /\ 18000 * b # 0 BY <1>1
  <2> QED BY <2>1, <2>2, <2>3, <2>4, <2>5, <2>7, <2>8 DEF x, Line
<1> QED BY <1>4, <1>5, <1>6, <1>7 DEF TemperatureUnits

LEMMA TemperatureIs ==
    ASSUME NEW q \in Rationals, NEW from \in TemperatureUnits, NEW to \in TemperatureUnits
    PROVE  FromKelvin(ToKelvin(q, from), to) = OnScale(q, from, to)
<1> DEFINE k == ToKelvin(q, from)  part == PartOf(q, from)
<1>1. PICK x \in Int, y \in Int :
         /\ y # 0 /\ part \in Rationals /\ Equals(part, x, y)
         /\ k \in Rationals /\ Equals(k, 5463 * y + 2000 * x, 20 * y)
  BY KelvinIs
<1>2. PICK h \in {100, 180} :
         /\ h = (IF to \in {"C", "K"} THEN 100 ELSE 180)
         /\ Minus(FixedPoints[to][2], FixedPoints[to][1]) = Whole(h)
         /\ FixedPoints[to][1] \in Rationals
  BY SpanIs
<1>3. OnScale(q, from, to) = Plus(FixedPoints[to][1], Times(part, Whole(h))) BY <1>2 DEF OnScale, PartOf
<1> HIDE DEF k, part
<1>4. Whole(h) \in Rationals /\ Equals(Whole(h), h, 1) BY WholeIsRational DEF Equals, Whole
<1>5. Times(part, Whole(h)) \in Rationals /\ Equals(Times(part, Whole(h)), x * h, y * 1) BY <1>1, <1>4, ProductIs
<1> DEFINE g == Times(part, Whole(h))  z == x * h
<1>6. z \in Int /\ y * 1 = y BY <1>1
<1>7. g \in Rationals /\ Equals(g, z, y) BY <1>5, <1>6
<1> HIDE DEF g
<1> DEFINE n == 5463 * y + 2000 * x  u == 20 * y
<1>8. n \in Int /\ u \in Int /\ u # 0 /\ Equals(k, n, u) BY <1>1
<1> HIDE DEF n, u, z
<1>9. Minus(k, Freezing) \in Rationals /\ Equals(Minus(k, Freezing), n * 20 - 5463 * u, u * 20) BY <1>1, <1>8, Scales, SumIs
<1> DEFINE d == Minus(k, Freezing)  i == n * 20 - 5463 * u  v == u * 20
<1>10. d \in Rationals /\ Equals(d, i, v) /\ i \in Int /\ v \in Int /\ v # 0 BY <1>8, <1>9
<1> HIDE DEF d, i, v
<1>11. CASE to = "C"
  <2>1. FromKelvin(k, to) = d /\ OnScale(q, from, to) = Plus(<<0, 1>>, g) /\ h = 100
    BY <1>2, <1>3, <1>11, Scales, Kelvins DEF d, g
  <2>2. Plus(<<0, 1>>, g) \in Rationals /\ Equals(Plus(<<0, 1>>, g), 0 * y + z * 1, 1 * y)
    <3>1. <<0, 1>> \in Rationals /\ Equals(<<0, 1>>, 0, 1) BY Scales
    <3> QED BY ONLY <1>1, <1>6, <1>7, <3>1, SumIs
  <2>3. Line(d, i, 400, y)
    <3>1. v = 400 * y BY <1>1 DEF v, u
    <3> QED BY <1>10, <3>1 DEF Line
  <2> DEFINE t == 0 * y + z * 1
  <2>4. t \in Int /\ Line(Plus(<<0, 1>>, g), t, 1, y) BY <1>1, <1>6, <2>2 DEF Line
  <2>5. Parallel(i, 400, t, 1) BY <1>1, <2>1 DEF Parallel, i, n, u, z
  <2> HIDE DEF t
  <2>6. d = Plus(<<0, 1>>, g)
    <3> DEFINE f == Plus(<<0, 1>>, g)
    <3>1. f \in Rationals /\ Line(f, t, 1, y) BY <2>2, <2>4
    <3> HIDE DEF f
    <3>2. d = f BY ONLY <1>1, <1>10, <2>3, <2>4, <2>5, <3>1, SameLine
    <3> QED BY <3>2 DEF f
  <2> QED BY <2>1, <2>6 DEF k
<1>12. CASE to = "F"
  <2> DEFINE e == Times(d, <<9, 5>>)
  <2>1. FromKelvin(k, to) = Plus(e, Whole(32)) /\ OnScale(q, from, to) = Plus(<<32, 1>>, g) /\ h = 180
    BY <1>2, <1>3, <1>12, Scales, Kelvins DEF d, g
  <2>2. Plus(<<32, 1>>, g) \in Rationals /\ Equals(Plus(<<32, 1>>, g), 32 * y + z * 1, 1 * y)
    <3>1. <<32, 1>> \in Rationals /\ Equals(<<32, 1>>, 32, 1) BY Scales
    <3> QED BY ONLY <1>1, <1>6, <1>7, <3>1, SumIs
  <2>3. e \in Rationals /\ Equals(e, i * 9, v * 5) BY <1>10, Scales, ProductIs
  <2> HIDE DEF e
  <2>4. i * 9 \in Int /\ v * 5 \in Int /\ v * 5 # 0 BY <1>10
  <2>5. Plus(e, Whole(32)) \in Rationals /\ Equals(Plus(e, Whole(32)), (i * 9) * 1 + 32 * (v * 5), (v * 5) * 1)
    BY <2>3, <2>4, Scales, SumIs
  <2> DEFINE s == (i * 9) * 1 + 32 * (v * 5)  t == 32 * y + z * 1
  <2>6. s \in Int /\ Line(Plus(e, Whole(32)), s, 2000, y)
    <3>1. (v * 5) * 1 = 2000 * y BY <1>1 DEF v, u
    <3> QED BY <1>10, <2>5, <3>1 DEF Line
  <2>7. t \in Int /\ Line(Plus(<<32, 1>>, g), t, 1, y) BY <1>1, <1>6, <2>2 DEF Line
  <2>8. Parallel(s, 2000, t, 1) BY <1>1, <2>1 DEF Parallel, i, n, u, v, z
  <2> HIDE DEF s, t
  <2>9. Plus(e, Whole(32)) = Plus(<<32, 1>>, g)
    <3> DEFINE f == Plus(<<32, 1>>, g)  l == Plus(e, Whole(32))
    <3>1. f \in Rationals /\ Line(f, t, 1, y) /\ l \in Rationals /\ Line(l, s, 2000, y) BY <2>2, <2>5, <2>6, <2>7
    <3> HIDE DEF f, l
    <3>2. l = f BY ONLY <1>1, <2>6, <2>7, <2>8, <3>1, SameLine
    <3> QED BY <3>2 DEF f, l
  <2> QED BY <2>1, <2>9 DEF k
<1>13. CASE to = "K"
  <2>1. FromKelvin(k, to) = k /\ OnScale(q, from, to) = Plus(<<5463, 20>>, g) /\ h = 100
    BY <1>2, <1>3, <1>13, Scales, Kelvins DEF g
  <2>2. Plus(<<5463, 20>>, g) \in Rationals /\ Equals(Plus(<<5463, 20>>, g), 5463 * y + z * 20, 20 * y)
    <3>1. <<5463, 20>> \in Rationals /\ Equals(<<5463, 20>>, 5463, 20) BY Scales
    <3> QED BY ONLY <1>1, <1>6, <1>7, <3>1, SumIs
  <2>3. Line(k, n, 20, y) BY <1>8 DEF u, Line
  <2> DEFINE t == 5463 * y + z * 20
  <2>4. t \in Int /\ Line(Plus(<<5463, 20>>, g), t, 20, y) BY <1>1, <1>6, <2>2 DEF Line
  <2>5. Parallel(n, 20, t, 20) BY <1>1, <2>1 DEF Parallel, n, z
  <2> HIDE DEF t
  <2>6. k = Plus(<<5463, 20>>, g)
    <3> DEFINE f == Plus(<<5463, 20>>, g)
    <3>1. f \in Rationals /\ Line(f, t, 20, y) BY <2>2, <2>4
    <3> HIDE DEF f
    <3>2. k = f BY ONLY <1>1, <1>8, <2>3, <2>4, <2>5, <3>1, SameLine
    <3> QED BY <3>2 DEF f
  <2> QED BY <2>1, <2>6 DEF k
<1>14. CASE to = "R"
  <2>1. FromKelvin(k, to) = Times(k, <<9, 5>>) /\ OnScale(q, from, to) = Plus(<<49167, 100>>, g) /\ h = 180
    BY <1>2, <1>3, <1>14, Scales, Kelvins DEF g
  <2>2. Plus(<<49167, 100>>, g) \in Rationals /\ Equals(Plus(<<49167, 100>>, g), 49167 * y + z * 100, 100 * y)
    <3>1. <<49167, 100>> \in Rationals /\ Equals(<<49167, 100>>, 49167, 100) BY Scales
    <3> QED BY ONLY <1>1, <1>6, <1>7, <3>1, SumIs
  <2>3. Times(k, <<9, 5>>) \in Rationals /\ Equals(Times(k, <<9, 5>>), n * 9, u * 5)
    <3>1. <<9, 5>> \in Rationals /\ Equals(<<9, 5>>, 9, 5) BY Scales
    <3> QED BY ONLY <1>1, <1>8, <3>1, ProductIs
  <2> DEFINE s == n * 9  t == 49167 * y + z * 100
  <2>4. s \in Int /\ Line(Times(k, <<9, 5>>), s, 100, y)
    <3>1. u * 5 = 100 * y BY <1>1 DEF u
    <3> QED BY <1>8, <2>3, <3>1 DEF Line
  <2>5. t \in Int /\ Line(Plus(<<49167, 100>>, g), t, 100, y) BY <1>1, <1>6, <2>2 DEF Line
  <2>6. Parallel(s, 100, t, 100) BY <1>1, <2>1 DEF Parallel, n, z
  <2> HIDE DEF s, t
  <2>7. Times(k, <<9, 5>>) = Plus(<<49167, 100>>, g)
    <3> DEFINE f == Plus(<<49167, 100>>, g)  l == Times(k, <<9, 5>>)
    <3>1. f \in Rationals /\ Line(f, t, 100, y) /\ l \in Rationals /\ Line(l, s, 100, y) BY <2>2, <2>3, <2>4, <2>5
    <3> HIDE DEF f, l
    <3>2. l = f BY ONLY <1>1, <2>4, <2>5, <2>6, <3>1, SameLine
    <3> QED BY <3>2 DEF f, l
  <2> QED BY <2>1, <2>7 DEF k
<1> QED BY <1>11, <1>12, <1>13, <1>14 DEF TemperatureUnits, k

\* Every factor of the table is a rational above zero, and a name has one row.
LEMMA FactorIs ==
    ASSUME NEW u \in LinearUnits
    PROVE  u[3] \in Rationals /\ Positive(u[3]) /\ u[2] # "Temperature" /\ u[1] \notin TemperatureUnits
<1>1. /\ <<127, 5000>> \in Rationals /\ <<5, 18>> \in Rationals /\ <<1, 100>> \in Rationals /\ <<1, 1000>> \in Rationals
      /\ \A n \in Int : <<n, 1>> \in Rationals
  <2>1. 127 * 1063 + 5000 * (-27) = 1 /\ 5 * 11 + 18 * (-3) = 1 /\ 1 * 1 + 100 * 0 = 1 /\ 1 * 1 + 1000 * 0 = 1
    OBVIOUS
  <2>2. <<127, 5000>> \in Rationals BY <2>1, ReducedIs
  <2>3. <<5, 18>> \in Rationals BY <2>1, ReducedIs
  <2>4. <<1, 100>> \in Rationals BY <2>1, ReducedIs
  <2>5. <<1, 1000>> \in Rationals BY <2>1, ReducedIs
  <2>6. ASSUME NEW n \in Int PROVE <<n, 1>> \in Rationals BY WholeIsRational DEF Whole
  <2> QED BY <2>2, <2>3, <2>4, <2>5, <2>6
<1>2. u[3] \in {<<1, 1>>, <<1000, 1>>, <<1, 100>>, <<127, 5000>>, <<1, 1000>>, <<10000, 1>>, <<5, 18>>, <<1024, 1>>, <<60, 1>>, <<86400, 1>>}
  BY SMTT(60) DEF LinearUnits
<1>3. u[2] # "Temperature" BY SMTT(60) DEF LinearUnits
<1>4. u[1] \notin TemperatureUnits BY SMTT(60) DEF LinearUnits, TemperatureUnits
<1>5. u[3] \in Rationals BY <1>1, <1>2
<1>6. Positive(u[3]) BY <1>2 DEF Positive
<1> QED BY <1>3, <1>4, <1>5, <1>6

LEMMA OneRow ==
    ASSUME NEW u \in LinearUnits, NEW w \in LinearUnits, u[1] = w[1]
    PROVE  u[2] = w[2]
BY SMTT(60) DEF LinearUnits

LEMMA LookedUp ==
    ASSUME NEW unit
    PROVE  Lookup(unit) # {} =>
              /\ TheOne(Lookup(unit)) \in LinearUnits /\ TheOne(Lookup(unit))[1] = unit
              /\ unit \notin TemperatureUnits /\ Dimension(unit) = {TheOne(Lookup(unit))[2]}
<1> SUFFICES ASSUME Lookup(unit) # {}
             PROVE  /\ TheOne(Lookup(unit)) \in LinearUnits /\ TheOne(Lookup(unit))[1] = unit
                    /\ unit \notin TemperatureUnits /\ Dimension(unit) = {TheOne(Lookup(unit))[2]}
  OBVIOUS
<1>1. TheOne(Lookup(unit)) \in Lookup(unit) BY DEF TheOne
<1> DEFINE f == TheOne(Lookup(unit))
<1>2. f \in LinearUnits /\ f[1] = unit BY <1>1 DEF Lookup
<1> HIDE DEF f
<1>3. unit \notin TemperatureUnits BY <1>2, FactorIs
<1>4. Dimension(unit) = {u[2] : u \in Lookup(unit)} BY <1>3 DEF Dimension
<1>5. \A u \in Lookup(unit) : u[2] = f[2] BY <1>2, OneRow DEF Lookup
<1>6. f \in Lookup(unit) BY <1>1 DEF f
<1>7. {u[2] : u \in Lookup(unit)} = {f[2]} BY <1>5, <1>6
<1> QED BY <1>2, <1>3, <1>4, <1>7 DEF f

\* Converting by factors: what a quotient by v, multiplied by v, becomes.
LEMMA OverTimes ==
    ASSUME NEW p \in Rationals, NEW q \in Rationals, Positive(q)
    PROVE  /\ Over(p, q) \in Rationals /\ Times(p, q) \in Rationals
           /\ Times(Over(p, q), q) = p /\ Over(Times(p, q), q) = p
<1>1. q[1] # 0 BY PartsOf DEF Positive
<1> QED BY <1>1, FieldLaws, ProductsAreExact

LEMMA LinearUnit ==
    ASSUME NEW q \in Rationals, NEW from, NEW to,
           Lookup(from) # {}, Lookup(to) # {}, Dimension(from) = Dimension(to)
    PROVE  /\ ConvertValue(q, from, to) = Ok(Over(Times(q, TheOne(Lookup(from))[3]), TheOne(Lookup(to))[3]))
           /\ ConvertValue(q, from, to).is \in Rationals
           /\ Times(ConvertValue(q, from, to).is, TheOne(Lookup(to))[3]) = Times(q, TheOne(Lookup(from))[3])
<1> DEFINE f == TheOne(Lookup(from))  t == TheOne(Lookup(to))
<1>1. /\ f \in LinearUnits /\ from \notin TemperatureUnits /\ Dimension(from) = {f[2]}
      /\ t \in LinearUnits /\ to \notin TemperatureUnits /\ Dimension(to) = {t[2]}
  BY LookedUp
<1>2. f[2] = t[2]
  <2> DEFINE x == f[2]  y == t[2]
  <2>1. {x} = {y} BY <1>1
  <2> HIDE DEF x, y
  <2>2. x = y BY <2>1
  <2> QED BY <2>2 DEF x, y
<1>3. ~({from, to} \subseteq TemperatureUnits) /\ ~((from \in TemperatureUnits) # (to \in TemperatureUnits)) BY <1>1
<1>4. ConvertValue(q, from, to) = (IF Lookup(from) = {} \/ Lookup(to) = {} THEN BadArguments
                                   ELSE LET x == TheOne(Lookup(from))  y == TheOne(Lookup(to))
                                        IN  IF x[2] # y[2] THEN BadArguments ELSE Ok(Over(Times(q, x[3]), y[3])))
  BY <1>3, Zenon DEF ConvertValue
<1>5. ConvertValue(q, from, to) = Ok(Over(Times(q, f[3]), t[3])) BY <1>2, <1>4
<1>6. f[3] \in Rationals /\ Positive(f[3]) /\ t[3] \in Rationals /\ Positive(t[3]) BY <1>1, FactorIs
<1>7. Times(q, f[3]) \in Rationals BY <1>6, OverTimes
<1>8. Over(Times(q, f[3]), t[3]) \in Rationals /\ Times(Over(Times(q, f[3]), t[3]), t[3]) = Times(q, f[3]) BY <1>6, <1>7, OverTimes
<1>9. ConvertValue(q, from, to).is = Over(Times(q, f[3]), t[3]) BY <1>5 DEF Ok
<1> QED BY <1>5, <1>8, <1>9

\* A conversion succeeds between units of one dimension and no others.
\* Temperatures keep their place between freezing and boiling; of the other
\* units every way back restores the amount and every detour over a third unit
\* leads to the same: for every rational amount and every text as a unit.
THEOREM UnitsAgree ==
    \A q \in Rationals, from \in STRING, to \in STRING : UnitRight(q, from, to, ConvertValue(q, from, to))
<1> SUFFICES ASSUME NEW q \in Rationals, NEW from \in STRING, NEW to \in STRING
             PROVE  UnitRight(q, from, to, ConvertValue(q, from, to))
  OBVIOUS
<1>1. CASE from \in TemperatureUnits /\ to \in TemperatureUnits
  <2>1. ConvertValue(q, from, to) = Ok(FromKelvin(ToKelvin(q, from), to))
    <3>1. {from, to} \subseteq TemperatureUnits /\ ~((from \in TemperatureUnits) # (to \in TemperatureUnits)) BY <1>1
    <3> QED BY <3>1, Zenon DEF ConvertValue
  <2>2. ConvertValue(q, from, to).ok /\ ConvertValue(q, from, to).is = OnScale(q, from, to)
    BY <1>1, <2>1, TemperatureIs DEF Ok
  <2>3. Dimension(from) = {"Temperature"} /\ Dimension(to) = {"Temperature"} BY <1>1 DEF Dimension
  <2> QED BY <1>1, <2>2, <2>3 DEF UnitRight
<1>2. CASE Lookup(from) # {} /\ Lookup(to) # {} /\ Dimension(from) = Dimension(to)
  <2> DEFINE r == ConvertValue(q, from, to)  f == TheOne(Lookup(from))[3]
  <2>1. from \notin TemperatureUnits /\ Dimension(from) # {} BY <1>2, LookedUp
  <2>2. f \in Rationals /\ Positive(f) BY <1>2, LookedUp, FactorIs
  <2>3. r = Ok(r.is) /\ r.ok /\ r.is \in Rationals /\ Times(r.is, TheOne(Lookup(to))[3]) = Times(q, f)
    BY <1>2, LinearUnit DEF Ok
  <2>4. ConvertValue(r.is, to, from) = Ok(q)
    <3>1. ConvertValue(r.is, to, from) = Ok(Over(Times(r.is, TheOne(Lookup(to))[3]), f)) BY <1>2, <2>3, LinearUnit
    <3>2. Over(Times(q, f), f) = q BY <2>2, OverTimes
    <3> QED BY <2>3, <3>1, <3>2
  <2>5. ASSUME NEW via \in UnitNames, Dimension(via) = Dimension(from)
        PROVE  ConvertValue(ConvertValue(q, from, via).is, via, to) = r
    <3>1. Lookup(via) # {}
      <4>1. CASE via \in TemperatureUnits
        <5>1. Dimension(via) = {"Temperature"} BY <4>1 DEF Dimension
        <5>2. Dimension(from) = {TheOne(Lookup(from))[2]} /\ TheOne(Lookup(from)) \in LinearUnits BY <1>2, LookedUp
        <5> QED BY <2>5, <5>1, <5>2, FactorIs
      <4>2. CASE via \notin TemperatureUnits
        <5>1. PICK u \in LinearUnits : via = u[1] BY <4>2 DEF UnitNames
        <5> QED BY <5>1 DEF Lookup
      <4> QED BY <4>1, <4>2
    <3> DEFINE m == ConvertValue(q, from, via).is
    <3>2. m \in Rationals /\ Times(m, TheOne(Lookup(via))[3]) = Times(q, f) BY <1>2, <2>5, <3>1, LinearUnit
    <3> HIDE DEF m
    <3>3. ConvertValue(m, via, to) = Ok(Over(Times(m, TheOne(Lookup(via))[3]), TheOne(Lookup(to))[3]))
      BY <1>2, <2>5, <3>1, <3>2, LinearUnit
    <3>4. r = Ok(Over(Times(q, f), TheOne(Lookup(to))[3])) BY <1>2, LinearUnit
    <3> QED BY <3>2, <3>3, <3>4 DEF m
  <2> HIDE DEF r
  <2>6. UnitRight(q, from, to, r) BY <1>2, <2>1, <2>3, <2>4, <2>5 DEF UnitRight
  <2> QED BY <2>6 DEF r
<1>3. CASE /\ ~(from \in TemperatureUnits /\ to \in TemperatureUnits)
           /\ ~(Lookup(from) # {} /\ Lookup(to) # {} /\ Dimension(from) = Dimension(to))
  <2>1. ConvertValue(q, from, to) = BadArguments
    <3>0. ~({from, to} \subseteq TemperatureUnits) BY <1>3
    <3>1. CASE (from \in TemperatureUnits) # (to \in TemperatureUnits) BY <3>0, <3>1, Zenon DEF ConvertValue
    <3>2. CASE ~((from \in TemperatureUnits) # (to \in TemperatureUnits))
      <4>1. ConvertValue(q, from, to) = (IF Lookup(from) = {} \/ Lookup(to) = {} THEN BadArguments
                                         ELSE LET x == TheOne(Lookup(from))  y == TheOne(Lookup(to))
                                              IN  IF x[2] # y[2] THEN BadArguments ELSE Ok(Over(Times(q, x[3]), y[3])))
        BY <3>0, <3>2, Zenon DEF ConvertValue
      <4>2. CASE Lookup(from) = {} \/ Lookup(to) = {} BY <4>1, <4>2
      <4>3. CASE Lookup(from) # {} /\ Lookup(to) # {}
        <5>1. Dimension(from) = {TheOne(Lookup(from))[2]} /\ Dimension(to) = {TheOne(Lookup(to))[2]} BY <4>3, LookedUp
        <5>2. TheOne(Lookup(from))[2] # TheOne(Lookup(to))[2] BY <1>3, <4>3, <5>1
        <5> QED BY <4>1, <4>3, <5>2
      <4> QED BY <4>2, <4>3
    <3> QED BY <3>1, <3>2
  <2>2. Dimension(from) # Dimension(to) \/ Dimension(from) = {}
    <3>1. ASSUME NEW unit, unit \notin TemperatureUnits, Lookup(unit) = {} PROVE Dimension(unit) = {} BY <3>1 DEF Dimension
    <3>2. ASSUME NEW unit, unit \in TemperatureUnits PROVE Dimension(unit) = {"Temperature"} BY <3>2 DEF Dimension
    <3>3. ASSUME NEW unit, Lookup(unit) # {} PROVE "Temperature" \notin Dimension(unit) /\ Dimension(unit) # {}
      <4>1. Dimension(unit) = {TheOne(Lookup(unit))[2]} /\ TheOne(Lookup(unit)) \in LinearUnits BY <3>3, LookedUp
      <4> QED BY <4>1, FactorIs
    <3> QED BY <1>3, <3>1, <3>2, <3>3
  <2>3. ~BadArguments.ok BY DEF BadArguments, Fail
  <2> QED BY <2>1, <2>2, <2>3 DEF UnitRight
<1> QED BY <1>1, <1>2, <1>3

-----------------------------------------------------------------------------
(* Currencies; budgets.                                                    *)

\* A table of rates as the providers give it: each above zero.
RateTables == [base : STRING, rates : UNION {[S -> {q \in Rationals : Positive(q)}] : S \in SUBSET STRING}]
\* What one unit of `from` is in `to`.
RateOf(from, to, t) == Convert(Whole(1), from, to, t).is

LEMMA NoneOf ==
    ASSUME NEW q \in Rationals
    PROVE  Times(Zero, q) = Zero
<1>1. Zero \in Rationals /\ Equals(Zero, 0, 1) BY NothingIsRational
<1> DEFINE c == q[1]  d == q[2]
<1>2. c \in Int /\ d \in Int /\ d # 0 /\ Equals(q, c, d) BY PartsOf
<1> HIDE DEF c, d
<1>3. Times(Zero, q) \in Rationals /\ Equals(Times(Zero, q), 0 * c, 1 * d) BY <1>1, <1>2, ProductIs
<1>4. 0 * c = 0 /\ 1 * d = d /\ 0 * 1 = 0 * d BY <1>2
<1> QED BY <1>1, <1>2, <1>3, <1>4, SameValue

LEMMA PositiveProducts ==
    ASSUME NEW p \in Rationals, NEW q \in Rationals, Positive(p), Positive(q)
    PROVE  Positive(Times(p, q)) /\ Positive(Over(p, q))
<1>1. Zero \in Rationals BY NothingIsRational
<1>2. Times(p, q) \in Rationals /\ Over(p, q) \in Rationals /\ Times(Over(p, q), q) = p BY OverTimes
<1>3. Times(Zero, q) = Zero BY NoneOf
<1>4. Below(Times(Zero, q), Times(p, q)) BY <1>1, OrderLaws
<1>5. Below(Times(Zero, q), Times(Over(p, q), q)) BY <1>2, <1>3, OrderLaws
<1>6. Below(Zero, Over(p, q)) BY <1>1, <1>2, <1>5, OrderLaws
<1> QED BY <1>2, <1>3, <1>4, <1>6, OrderLaws

LEMMA WholeIsPositive ==
    ASSUME NEW n \in Int, n > 0
    PROVE  Whole(n) \in Rationals /\ Positive(Whole(n))
BY WholeIsRational DEF Whole, Positive

LEMMA RateIs ==
    ASSUME NEW t \in RateTables, NEW code
    PROVE  /\ code \in CodesOf(t) => /\ GetRate(code, t).ok /\ GetRate(code, t) = Ok(GetRate(code, t).is)
                                     /\ GetRate(code, t).is \in Rationals /\ Positive(GetRate(code, t).is)
           /\ code \notin CodesOf(t) => GetRate(code, t) = BadArguments
<1>1. CASE code = t.base
  <2>1. GetRate(code, t) = Ok(Whole(1)) BY <1>1 DEF GetRate
  <2> QED BY <1>1, <2>1, WholeIsPositive DEF Ok, CodesOf
<1>2. CASE code # t.base /\ code \in DOMAIN t.rates
  <2>1. GetRate(code, t) = Ok(t.rates[code]) BY <1>2 DEF GetRate
  <2>2. t.rates[code] \in Rationals /\ Positive(t.rates[code])
    <3>1. PICK S \in SUBSET STRING : t.rates \in [S -> {q \in Rationals : Positive(q)}] BY DEF RateTables
    <3> QED BY <1>2, <3>1
  <2> QED BY <1>2, <2>1, <2>2 DEF Ok, CodesOf
<1>3. CASE code # t.base /\ code \notin DOMAIN t.rates
  <2>1. GetRate(code, t) = BadArguments BY <1>3 DEF GetRate
  <2> QED BY <1>3, <2>1 DEF CodesOf
<1> QED BY <1>1, <1>2, <1>3

LEMMA CollectedIs ==
    ASSUME NEW f, DOMAIN f \in SUBSET Nat
    PROVE  /\ (\A i \in DOMAIN f : f[i].ok) => Collected(f) = Ok([i \in DOMAIN f |-> f[i].is])
           /\ (\E i \in DOMAIN f : ~f[i].ok) => \E i \in DOMAIN f : ~f[i].ok /\ Collected(f) = f[i]
<1> DEFINE bad == {i \in DOMAIN f : ~f[i].ok}
<1>1. CASE bad = {} BY <1>1 DEF Collected
<1>2. CASE bad # {}
  <2> DEFINE i == CHOOSE i \in bad : \A j \in bad : i <= j
  <2>1. bad \in SUBSET Nat OBVIOUS
  <2>2. \E m \in bad : \A j \in bad : m <= j BY <1>2, <2>1, LeastOf
  <2>3. i \in bad BY <2>2
  <2>4. Collected(f) = f[i] BY <1>2 DEF Collected
  <2> HIDE DEF i
  <2> QED BY <2>3, <2>4
<1> QED BY <1>1, <1>2

LEMMA CollectedPair ==
    ASSUME NEW a, NEW b
    PROVE  /\ a.ok /\ b.ok => /\ Collected(<<a, b>>).ok
                              /\ Collected(<<a, b>>).is[1] = a.is /\ Collected(<<a, b>>).is[2] = b.is
           /\ ~a.ok \/ ~b.ok => ~Collected(<<a, b>>).ok
<1> DEFINE f == <<a, b>>
<1>1. DOMAIN f = 1 .. 2 /\ f[1] = a /\ f[2] = b /\ 1 .. 2 = {1, 2} OBVIOUS
<1> HIDE DEF f
<1>2. ASSUME a.ok, b.ok
      PROVE  Collected(f).ok /\ Collected(f).is[1] = a.is /\ Collected(f).is[2] = b.is
  <2>1. Collected(f) = Ok([i \in DOMAIN f |-> f[i].is]) BY <1>1, <1>2, CollectedIs
  <2>2. Collected(f).ok /\ Collected(f).is = [i \in DOMAIN f |-> f[i].is] BY <2>1 DEF Ok
  <2> QED BY <1>1, <2>2
<1>3. ASSUME ~a.ok \/ ~b.ok PROVE ~Collected(f).ok
  <2>1. \E i \in DOMAIN f : ~f[i].ok
    <3>1. 1 \in DOMAIN f /\ 2 \in DOMAIN f BY <1>1
    <3>2. CASE ~a.ok BY <1>1, <3>1, <3>2, Zenon
    <3>3. CASE ~b.ok BY <1>1, <3>1, <3>3, Zenon
    <3> QED BY <1>3, <3>2, <3>3
  <2>2. DOMAIN f \in SUBSET Nat BY <1>1
  <2>3. \E i \in DOMAIN f : ~f[i].ok /\ Collected(f) = f[i] BY <2>1, <2>2, CollectedIs, Zenon
  <2> QED BY <2>3
<1> QED BY <1>2, <1>3 DEF f

\* A conversion multiplies by one rate, and the conversion back undoes it.
LEMMA ConvertIs ==
    ASSUME NEW t \in RateTables, NEW from, NEW to, from = to \/ {from, to} \subseteq CodesOf(t)
    PROVE  /\ RateOf(from, to, t) \in Rationals /\ Positive(RateOf(from, to, t))
           /\ \A q \in Rationals : /\ Convert(q, from, to, t) = Ok(Times(q, RateOf(from, to, t)))
                                   /\ Convert(Times(q, RateOf(from, to, t)), to, from, t) = Ok(q)
<1>1. CASE from = to
  <2>1. \A q \in Rationals : Convert(q, from, to, t) = Ok(q) /\ Convert(q, to, from, t) = Ok(q) BY <1>1 DEF Convert
  <2>2. Whole(1) \in Rationals /\ Positive(Whole(1)) BY WholeIsPositive
  <2>3. RateOf(from, to, t) = Whole(1) BY <2>1, <2>2 DEF RateOf, Ok
  <2>4. \A q \in Rationals : Times(q, Whole(1)) = q BY NothingIsRational, FieldLaws
  <2> QED BY <2>1, <2>2, <2>3, <2>4
<1>2. CASE from # to /\ {from, to} \subseteq CodesOf(t)
  <2> DEFINE a == GetRate(from, t).is  b == GetRate(to, t).is
  <2>1. /\ GetRate(from, t) = Ok(a) /\ a \in Rationals /\ Positive(a) /\ GetRate(from, t).ok
        /\ GetRate(to, t) = Ok(b) /\ b \in Rationals /\ Positive(b) /\ GetRate(to, t).ok
    BY <1>2, RateIs
  <2>2. ASSUME NEW q
        PROVE  Convert(q, from, to, t) = Ok(Times(Over(q, a), b)) /\ Convert(q, to, from, t) = Ok(Times(Over(q, b), a))
    <3> DEFINE there == Collected(<<GetRate(from, t), GetRate(to, t)>>)  back == Collected(<<GetRate(to, t), GetRate(from, t)>>)
    <3>1. there.ok /\ there.is[1] = a /\ there.is[2] = b /\ back.ok /\ back.is[1] = b /\ back.is[2] = a BY <2>1, CollectedPair
    <3>2. /\ Convert(q, from, to, t) = (IF there.ok THEN Ok(Times(Over(q, there.is[1]), there.is[2])) ELSE there)
          /\ Convert(q, to, from, t) = (IF back.ok THEN Ok(Times(Over(q, back.is[1]), back.is[2])) ELSE back)
      BY <1>2 DEF Convert
    <3> HIDE DEF a, b, there, back
    <3> QED BY <3>1, <3>2
  <2> HIDE DEF a, b
  <2>3. Whole(1) \in Rationals /\ Positive(Whole(1)) BY WholeIsPositive
  <2> DEFINE one == Over(Whole(1), a)  rate == Times(one, b)
  <2>4. one \in Rationals /\ Positive(one) /\ Times(one, a) = Whole(1) BY <2>1, <2>3, OverTimes, PositiveProducts
  <2>5. rate \in Rationals /\ Positive(rate) BY <2>1, <2>4, OverTimes, PositiveProducts
  <2>6. RateOf(from, to, t) = rate BY <2>2 DEF RateOf, Ok
  <2> HIDE DEF one, rate
  <2>7. ASSUME NEW q \in Rationals
        PROVE  /\ Times(Over(q, a), b) = Times(q, rate)
               /\ Times(Over(Times(q, rate), b), a) = q
    <3>1. Times(q, one) \in Rationals /\ Times(Times(q, one), a) = q
      <4>1. Times(q, one) \in Rationals BY <2>4, ProductsAreExact
      <4>2. Times(Times(q, one), a) = Times(q, Times(one, a)) BY <2>1, <2>4, FieldLaws
      <4>3. Times(q, Whole(1)) = q BY NothingIsRational, FieldLaws
      <4> QED BY <2>4, <4>1, <4>2, <4>3
    <3>2. Over(q, a) = Times(q, one)
      <4>1. Over(Times(Times(q, one), a), a) = Times(q, one) BY <2>1, <3>1, OverTimes
      <4> QED BY <3>1, <4>1
    <3>3. Times(Times(q, one), b) = Times(q, rate) BY <2>1, <2>4, FieldLaws DEF rate
    <3>4. Over(Times(Times(q, one), b), b) = Times(q, one) BY <2>1, <3>1, OverTimes
    <3> QED BY <3>1, <3>2, <3>3, <3>4
  <2> QED BY <2>2, <2>5, <2>6, <2>7
<1> QED BY <1>1, <1>2

LEMMA ConvertFails ==
    ASSUME NEW t \in RateTables, NEW from, NEW to, NEW q, from # to, ~({from, to} \subseteq CodesOf(t))
    PROVE  ~Convert(q, from, to, t).ok
<1> DEFINE a == GetRate(from, t)  b == GetRate(to, t)
<1>1. ~BadArguments.ok BY DEF BadArguments, Fail
<1>2. ~a.ok \/ ~b.ok BY <1>1, RateIs
<1>3. ~Collected(<<a, b>>).ok BY <1>2, CollectedPair
<1> HIDE DEF a, b
<1>4. Convert(q, from, to, t) = Collected(<<a, b>>) BY <1>3 DEF Convert, a, b
<1> QED BY <1>3, <1>4

\* Rates are quotients of what one unit of the base is in each currency.
LEMMA RatesMeet ==
    ASSUME NEW t \in RateTables, NEW from \in CodesOf(t), NEW to \in CodesOf(t)
    PROVE  /\ GetRate(from, t).is \in Rationals /\ Positive(GetRate(from, t).is) /\ GetRate(to, t).is \in Rationals
           /\ GetRate(from, t) = Ok(GetRate(from, t).is) /\ GetRate(to, t) = Ok(GetRate(to, t).is)
           /\ RateOf(from, to, t) \in Rationals
           /\ Times(RateOf(from, to, t), GetRate(from, t).is) = GetRate(to, t).is
<1> DEFINE a == GetRate(from, t).is  b == GetRate(to, t).is
<1>1. /\ GetRate(from, t) = Ok(a) /\ a \in Rationals /\ Positive(a) /\ GetRate(from, t).ok
      /\ GetRate(to, t) = Ok(b) /\ b \in Rationals /\ Positive(b) /\ GetRate(to, t).ok
  BY RateIs
<1>2. CASE from = to
  <2>1. RateOf(from, to, t) = Whole(1) BY <1>2 DEF RateOf, Convert, Ok
  <2>2. a = b BY <1>2
  <2> HIDE DEF a, b
  <2>3. Whole(1) \in Rationals /\ Times(Whole(1), a) = Times(a, Whole(1)) /\ Times(a, Whole(1)) = a
    BY <1>1, NothingIsRational, FieldLaws
  <2> QED BY <1>1, <2>1, <2>2, <2>3 DEF a, b
<1>3. CASE from # to
  <2> DEFINE both == Collected(<<GetRate(from, t), GetRate(to, t)>>)
  <2>1. both.ok /\ both.is[1] = a /\ both.is[2] = b BY <1>1, CollectedPair
  <2>2. Convert(Whole(1), from, to, t) = (IF both.ok THEN Ok(Times(Over(Whole(1), both.is[1]), both.is[2])) ELSE both)
    BY <1>3 DEF Convert
  <2> HIDE DEF both
  <2>3. Convert(Whole(1), from, to, t) = Ok(Times(Over(Whole(1), a), b)) BY <2>1, <2>2
  <2> HIDE DEF a, b
  <2> DEFINE one == Over(Whole(1), a)
  <2>4. RateOf(from, to, t) = Times(one, b) BY <2>3 DEF RateOf, Ok
  <2>5. one \in Rationals /\ Times(one, a) = Whole(1) BY <1>1, NothingIsRational, OverTimes
  <2> HIDE DEF one
  <2>6. Times(one, b) \in Rationals BY <1>1, <2>5, ProductsAreExact
  <2>7. Times(Times(one, b), a) = b
    <3>1. Times(Times(one, b), a) = Times(one, Times(b, a)) BY <1>1, <2>5, FieldLaws
    <3>2. Times(b, a) = Times(a, b) BY <1>1, FieldLaws
    <3>3. Times(one, Times(a, b)) = Times(Times(one, a), b) BY <1>1, <2>5, FieldLaws
    <3>4. Times(Whole(1), b) = Times(b, Whole(1)) /\ Times(b, Whole(1)) = b BY <1>1, NothingIsRational, FieldLaws
    <3> QED BY <2>5, <3>1, <3>2, <3>3, <3>4
  <2> QED BY <1>1, <2>4, <2>6, <2>7 DEF a, b
<1> QED BY <1>2, <1>3

\* Of two rates on the way the product is the rate.
LEMMA RatesCompose ==
    ASSUME NEW t \in RateTables, NEW from \in CodesOf(t), NEW via \in CodesOf(t), NEW to \in CodesOf(t)
    PROVE  Times(RateOf(from, via, t), RateOf(via, to, t)) = RateOf(from, to, t)
<1> DEFINE a == GetRate(from, t).is  b == GetRate(via, t).is  c == GetRate(to, t).is
           x == RateOf(from, via, t)  y == RateOf(via, to, t)  z == RateOf(from, to, t)
<1>1. a \in Rationals /\ Positive(a) /\ b \in Rationals /\ c \in Rationals BY RatesMeet
<1>2. /\ x \in Rationals /\ y \in Rationals /\ z \in Rationals
      /\ Times(x, a) = b /\ Times(y, b) = c /\ Times(z, a) = c
  BY RatesMeet
<1> HIDE DEF a, b, c, x, y, z
<1>3. Times(x, y) \in Rationals BY <1>2, ProductsAreExact
<1>4. Times(Times(x, y), a) = c
  <2>1. Times(x, y) = Times(y, x) BY <1>2, FieldLaws
  <2>2. Times(Times(y, x), a) = Times(y, Times(x, a)) BY <1>1, <1>2, FieldLaws
  <2> QED BY <1>2, <2>1, <2>2
<1>5. Over(Times(Times(x, y), a), a) = Times(x, y) BY <1>1, <1>3, OverTimes
<1>6. Over(Times(z, a), a) = z BY <1>1, <1>2, OverTimes
<1>7. Times(x, y) = z BY <1>2, <1>4, <1>5, <1>6
<1> QED BY <1>7 DEF x, y, z

\* CurrencyRight and RateRight, which a run checks in one table: in every table
\* of positive rates a detour over any third currency changes nothing, the
\* rate of the API is what one unit converts to, and only a currency without a
\* rate refuses.
THEOREM CurrenciesAgree ==
    \A t \in RateTables, q \in Rationals, from \in STRING, to \in STRING :
        CurrencyRight(q, from, to, t, Convert(q, from, to, t)) /\ RateRight(from, to, t, FxRate(from, to, t))
<1> SUFFICES ASSUME NEW t \in RateTables, NEW q \in Rationals, NEW from \in STRING, NEW to \in STRING
             PROVE  CurrencyRight(q, from, to, t, Convert(q, from, to, t)) /\ RateRight(from, to, t, FxRate(from, to, t))
  OBVIOUS
<1>1. CurrencyRight(q, from, to, t, Convert(q, from, to, t))
  <2> DEFINE r == Convert(q, from, to, t)
  <2>1. CASE from = to
    <3>1. r = Ok(q) BY <2>1 DEF Convert
    <3>2. r.ok BY <3>1 DEF Ok
    <3> HIDE DEF r
    <3>3. CurrencyRight(q, from, to, t, r) BY <2>1, <3>2 DEF CurrencyRight
    <3> QED BY <3>3 DEF r
  <2>2. CASE from # to /\ ~({from, to} \subseteq CodesOf(t))
    <3>1. ~r.ok BY <2>2, ConvertFails
    <3> HIDE DEF r
    <3>2. CurrencyRight(q, from, to, t, r) BY <2>2, <3>1 DEF CurrencyRight
    <3> QED BY <3>2 DEF r
  <2>3. CASE from # to /\ {from, to} \subseteq CodesOf(t)
    <3>1. r = Ok(Times(q, RateOf(from, to, t))) BY <2>3, ConvertIs
    <3>2. r.ok BY <3>1 DEF Ok
    <3> HIDE DEF r
    <3>3. ASSUME NEW via \in CodesOf(t)
          PROVE  Convert(Convert(q, from, via, t).is, via, to, t) = r
      <4> DEFINE x == RateOf(from, via, t)  y == RateOf(via, to, t)  p == Times(q, x)
      <4>1. {from, via} \subseteq CodesOf(t) /\ {via, to} \subseteq CodesOf(t) BY <2>3
      <4>2. x \in Rationals /\ Convert(q, from, via, t) = Ok(p) BY <4>1, ConvertIs
      <4>3. p \in Rationals BY <4>2, ProductsAreExact
      <4>4. Convert(q, from, via, t).is = p BY <4>2 DEF Ok
      <4>5. y \in Rationals /\ Convert(p, via, to, t) = Ok(Times(p, y)) BY <4>1, <4>3, ConvertIs
      <4>6. Times(x, y) = RateOf(from, to, t) BY <2>3, RatesCompose
      <4> HIDE DEF x, y
      <4>7. Times(p, y) = Times(q, Times(x, y)) BY <4>2, <4>5, FieldLaws
      <4> QED BY <3>1, <4>4, <4>5, <4>6, <4>7
    <3>4. CurrencyRight(q, from, to, t, r) BY <2>3, <3>2, <3>3 DEF CurrencyRight
    <3> QED BY <3>4 DEF r
  <2> QED BY <2>1, <2>2, <2>3
<1>2. RateRight(from, to, t, FxRate(from, to, t))
  <2> DEFINE r == FxRate(from, to, t)  both == Collected(<<GetRate(from, t), GetRate(to, t)>>)
  <2>1. r = (IF both.ok THEN Ok(Over(both.is[2], both.is[1])) ELSE both) BY DEF FxRate
  <2>2. CASE ~({from, to} \subseteq CodesOf(t))
    <3>1. ~BadArguments.ok BY DEF BadArguments, Fail
    <3>2. ~GetRate(from, t).ok \/ ~GetRate(to, t).ok BY <2>2, <3>1, RateIs
    <3>3. ~both.ok BY <3>2, CollectedPair
    <3> HIDE DEF both, r
    <3>4. ~r.ok BY <2>1, <3>3
    <3>5. RateRight(from, to, t, r) BY <2>2, <3>4 DEF RateRight
    <3> QED BY <3>5 DEF r
  <2>3. CASE {from, to} \subseteq CodesOf(t)
    <3> DEFINE a == GetRate(from, t).is  b == GetRate(to, t).is  z == RateOf(from, to, t)
    <3>1. GetRate(from, t).ok /\ GetRate(to, t).ok BY <2>3, RateIs
    <3>2. both.ok /\ both.is[1] = a /\ both.is[2] = b BY <3>1, CollectedPair
    <3>3. a \in Rationals /\ Positive(a) /\ b \in Rationals /\ z \in Rationals /\ Times(z, a) = b BY <2>3, RatesMeet
    <3>4. Convert(Whole(1), from, to, t) = Ok(Times(Whole(1), z)) BY <2>3, NothingIsRational, ConvertIs
    <3> HIDE DEF both, r
    <3>5. r = Ok(Over(b, a)) BY <2>1, <3>2
    <3> HIDE DEF a, b, z
    <3>6. Over(b, a) = z BY <3>3, OverTimes
    <3>7. Times(Whole(1), z) = Times(z, Whole(1)) /\ Times(z, Whole(1)) = z BY <3>3, NothingIsRational, FieldLaws
    <3>8. r = Convert(Whole(1), from, to, t) BY <3>4, <3>5, <3>6, <3>7
    <3>9. r.ok BY <3>5 DEF Ok
    <3>10. RateRight(from, to, t, r) BY <3>8, <3>9 DEF RateRight
    <3> QED BY <3>10 DEF r
  <2> QED BY <2>2, <2>3
<1> QED BY <1>1, <1>2

BudgetQuestions == [tuition : Rationals, years : Int, currency : STRING, home : STRING, living : Rationals \cup {Missing}]
Living(r) == IF r.living # Missing /\ Positive(r.living) THEN <<r.living>> ELSE <<>>
Monthly(r) == IF r.living = Missing THEN Zero ELSE r.living

\* A living of zero is none.
LEMMA LivingIs ==
    ASSUME NEW r \in BudgetQuestions, r.living # Missing => ~Below(r.living, Zero)
    PROVE  \/ Living(r) = <<>> /\ Monthly(r) = Zero
           \/ Living(r) = <<r.living>> /\ Monthly(r) = r.living /\ r.living \in Rationals /\ Positive(r.living)
<1>1. CASE r.living = Missing BY <1>1 DEF Living, Monthly
<1>2. CASE r.living # Missing /\ Positive(r.living)
  <2>1. r.living \in Rationals BY <1>2 DEF BudgetQuestions
  <2>2. Living(r) = <<r.living>> /\ Monthly(r) = r.living BY <1>2 DEF Living, Monthly
  <2> QED BY <1>2, <2>1, <2>2
<1>3. CASE r.living # Missing /\ ~Positive(r.living)
  <2> DEFINE q == r.living
  <2>1. q \in Rationals BY <1>3 DEF BudgetQuestions
  <2>2. Living(r) = <<>> /\ Monthly(r) = q BY <1>3 DEF Living, Monthly
  <2>3. ~Below(q, Zero) /\ ~Positive(q) BY <1>3
  <2> HIDE DEF q
  <2>4. Zero \in Rationals BY NothingIsRational
  <2>5. q = Zero BY <2>1, <2>3, <2>4, OrderLaws
  <2> QED BY <2>2, <2>5
<1> QED BY <1>1, <1>2, <1>3

\* What the calculation puts together, with one rate for all of it.
LEMMA BudgetIs ==
    ASSUME NEW r \in BudgetQuestions, ValidBudget(r), NEW t \in RateTables,
           r.currency = r.home \/ {r.currency, r.home} \subseteq CodesOf(t)
    PROVE  LET rate  == RateOf(r.currency, r.home, t)
               fees  == Times(r.tuition, rate)
               spent == Times(Times(r.living, rate), Whole(12 * r.years))
               total == IF Living(r) = <<>> THEN fees ELSE Plus(fees, spent)
           IN  BudgetCalculation(r, t) =
                 Ok([rate |-> rate, tuition |-> fees, annual |-> Over(fees, Whole(r.years)),
                     living |-> IF Living(r) = <<>> THEN Missing ELSE spent,
                     total |-> IF Living(r) = <<>> THEN Missing ELSE total,
                     low |-> Times(total, <<97, 100>>), high |-> Times(total, <<103, 100>>)])
<1> DEFINE rate  == RateOf(r.currency, r.home, t)
           L     == Living(r)
           asked == <<Whole(1), r.tuition>> \o L
           f     == [i \in 1 .. 2 + Len(L) |-> Convert(asked[i], r.currency, r.home, t)]
           home  == Collected(f)
<1>1. /\ r.currency \in STRING /\ r.home \in STRING /\ r.tuition \in Rationals /\ r.years \in Int
      /\ Positive(r.tuition) /\ r.years \in 1 .. 10
  BY DEF BudgetQuestions, ValidBudget
<1>2. \A q \in Rationals : Convert(q, r.currency, r.home, t) = Ok(Times(q, rate)) BY <1>1, ConvertIs
<1>3. rate \in Rationals /\ Times(Whole(1), rate) = rate
  <2>1. rate \in Rationals BY <1>1, ConvertIs
  <2> HIDE DEF rate
  <2>2. Whole(1) \in Rationals BY NothingIsRational
  <2> QED BY <2>1, <2>2, FieldLaws
<1>4. (L = <<>>) \/ (L = <<r.living>> /\ r.living \in Rationals)
  BY LivingIs DEF ValidBudget
<1>5. BudgetCalculation(r, t) =
        (IF ~home.ok THEN home
         ELSE Ok([rate |-> home.is[1], tuition |-> home.is[2], annual |-> Over(home.is[2], Whole(r.years)),
                  living |-> IF L = <<>> THEN Missing ELSE Times(home.is[3], Whole(12 * r.years)),
                  total  |-> IF L = <<>> THEN Missing
                             ELSE IF L = <<>> THEN home.is[2] ELSE Plus(home.is[2], Times(home.is[3], Whole(12 * r.years))),
                  low    |-> Times(IF L = <<>> THEN home.is[2] ELSE Plus(home.is[2], Times(home.is[3], Whole(12 * r.years))), <<97, 100>>),
                  high   |-> Times(IF L = <<>> THEN home.is[2] ELSE Plus(home.is[2], Times(home.is[3], Whole(12 * r.years))), <<103, 100>>)]))
  BY <1>1 DEF BudgetCalculation, Living
<1>6. /\ Len(L) = (IF L = <<>> THEN 0 ELSE 1)
      /\ asked[1] = Whole(1) /\ asked[2] = r.tuition /\ (L # <<>> => asked[3] = r.living)
  <2>1. CASE L = <<>>
    <3>1. asked = <<Whole(1), r.tuition>> \o <<>> BY <2>1
    <3>2. Len(L) = 0 BY <2>1
    <3> HIDE DEF L
    <3> QED BY <2>1, <3>1, <3>2
  <2>2. CASE L = <<r.living>>
    <3>1. asked = <<Whole(1), r.tuition>> \o <<r.living>> BY <2>2
    <3>2. Len(L) = 1 /\ L # <<>> BY <2>2
    <3>3. Len(<<Whole(1), r.tuition>>) = 2 /\ Len(<<r.living>>) = 1 OBVIOUS
    <3> HIDE DEF L
    <3> QED BY <2>2, <3>1, <3>2, <3>3
  <2> QED BY <1>4, <2>1, <2>2
<1> HIDE DEF L, asked, rate
<1>7. /\ 1 .. 2 + Len(L) = (IF L = <<>> THEN {1, 2} ELSE {1, 2, 3})
      /\ \A i \in 1 .. 2 + Len(L) : asked[i] \in Rationals
  <2>1. 1 .. 2 + 0 = {1, 2} /\ 1 .. 2 + 1 = {1, 2, 3} OBVIOUS
  <2>2. Whole(1) \in Rationals BY NothingIsRational
  <2>3. CASE L = <<>> BY <1>1, <1>6, <2>1, <2>2, <2>3
  <2>4. CASE L # <<>>
    <3>1. r.living \in Rationals BY <1>4, <2>4
    <3> QED BY <1>1, <1>6, <2>1, <2>2, <2>4, <3>1
  <2> QED BY <2>3, <2>4
<1>8. DOMAIN f = 1 .. 2 + Len(L) /\ \A i \in DOMAIN f : f[i] = Ok(Times(asked[i], rate)) BY <1>2, <1>7
<1> HIDE DEF f
<1>9. home.ok /\ \A i \in DOMAIN f : home.is[i] = Times(asked[i], rate)
  <2>1. \A i \in DOMAIN f : f[i].ok /\ f[i].is = Times(asked[i], rate) BY <1>8 DEF Ok
  <2>2. DOMAIN f \in SUBSET Nat BY <1>7, <1>8
  <2>3. home = Ok([i \in DOMAIN f |-> f[i].is]) BY <2>1, <2>2, CollectedIs
  <2>4. home.ok /\ home.is = [i \in DOMAIN f |-> f[i].is] BY <2>3 DEF Ok
  <2> HIDE DEF home
  <2> QED BY <2>1, <2>4
<1>10. home.is[1] = rate /\ home.is[2] = Times(r.tuition, rate)
  <2>1. 1 \in DOMAIN f /\ 2 \in DOMAIN f BY <1>7, <1>8
  <2> HIDE DEF home
  <2> QED BY <1>3, <1>6, <1>9, <2>1
<1>11. L # <<>> => home.is[3] = Times(r.living, rate)
  <2>1. L # <<>> => 3 \in DOMAIN f BY <1>7, <1>8
  <2> HIDE DEF home
  <2> QED BY <1>6, <1>9, <2>1
<1> HIDE DEF home
<1>12. CASE L = <<>>
  <2>1. BudgetCalculation(r, t) =
          Ok([rate |-> rate, tuition |-> Times(r.tuition, rate), annual |-> Over(Times(r.tuition, rate), Whole(r.years)),
              living |-> Missing, total  |-> Missing,
              low |-> Times(Times(r.tuition, rate), <<97, 100>>), high |-> Times(Times(r.tuition, rate), <<103, 100>>)])
    BY <1>5, <1>9, <1>10, <1>12
  <2> QED BY <1>12, <2>1 DEF L, rate
<1>13. CASE L # <<>>
  <2> DEFINE total == Plus(Times(r.tuition, rate), Times(Times(r.living, rate), Whole(12 * r.years)))
  <2>1. BudgetCalculation(r, t) =
          Ok([rate |-> rate, tuition |-> Times(r.tuition, rate), annual |-> Over(Times(r.tuition, rate), Whole(r.years)),
              living |-> Times(Times(r.living, rate), Whole(12 * r.years)), total  |-> total,
              low |-> Times(total, <<97, 100>>), high |-> Times(total, <<103, 100>>)])
    BY <1>5, <1>9, <1>10, <1>11, <1>13
  <2> QED BY <1>13, <2>1 DEF L, rate
<1> QED BY <1>12, <1>13

\* The bill that comes within the promised bounds is the one whose change does.
LEMMA WithinIs ==
    ASSUME NEW total \in Rationals, Positive(total), NEW by \in Rationals, NEW k \in Int, Equals(by, k, 100)
    PROVE  Between(Times(total, <<97, 100>>), Times(total, Plus(Whole(1), by)), Times(total, <<103, 100>>))
             <=> -3 <= k /\ k <= 3
<1> DEFINE lo == <<97, 100>>  hi == <<103, 100>>  one == Whole(1)  f == Plus(one, by)
<1>1. /\ lo \in Rationals /\ Equals(lo, 97, 100) /\ hi \in Rationals /\ Equals(hi, 103, 100)
      /\ one \in Rationals /\ Equals(one, 1, 1)
  <2>1. lo \in Rationals /\ Equals(lo, 97, 100)
    <3>1. 97 * 33 + 100 * (-32) = 1 OBVIOUS
    <3> QED BY <3>1, ReducedIs
  <2>2. hi \in Rationals /\ Equals(hi, 103, 100)
    <3>1. 103 * 67 + 100 * (-69) = 1 OBVIOUS
    <3> QED BY <3>1, ReducedIs
  <2> QED BY <2>1, <2>2, NothingIsRational
<1> HIDE DEF lo, hi, one
<1>2. f \in Rationals /\ Equals(f, 100 + k, 100)
  <2>1. f \in Rationals /\ Equals(f, 1 * 100 + k * 1, 1 * 100) BY <1>1, SumIs
  <2>2. 1 * 100 + k * 1 = 100 + k /\ 1 * 100 = 100 OBVIOUS
  <2> QED BY ONLY <2>1, <2>2
<1> HIDE DEF f
<1>3. Below(f, lo) <=> (100 + k) * 100 < 97 * 100
  <2>1. 100 + k \in Int OBVIOUS
  <2> QED BY <1>1, <1>2, <2>1, BelowIs
<1>4. Below(hi, f) <=> 103 * 100 < (100 + k) * 100
  <2>1. 100 + k \in Int OBVIOUS
  <2> QED BY <1>1, <1>2, <2>1, BelowIs
<1>5. /\ Times(total, lo) = Times(lo, total) /\ Times(total, hi) = Times(hi, total)
      /\ Times(total, f) = Times(f, total)
  BY <1>1, <1>2, FieldLaws
<1>6. Below(Times(f, total), Times(lo, total)) <=> Below(f, lo) BY <1>1, <1>2, OrderLaws
<1>7. Below(Times(hi, total), Times(f, total)) <=> Below(hi, f) BY <1>1, <1>2, OrderLaws
<1>8. Between(Times(total, lo), Times(total, f), Times(total, hi)) <=> ~Below(f, lo) /\ ~Below(hi, f)
  BY <1>5, <1>6, <1>7 DEF Between
<1>9. Between(Times(total, lo), Times(total, f), Times(total, hi)) <=> -3 <= k /\ k <= 3
  BY ONLY <1>3, <1>4, <1>8, k \in Int
<1> QED BY <1>9 DEF lo, hi, f, one

LEMMA Changes ==
    /\ <<-3, 100>> \in Rationals /\ Equals(<<-3, 100>>, -3, 100)
    /\ <<-1, 100>> \in Rationals /\ Equals(<<-1, 100>>, -1, 100)
    /\ <<3, 100>> \in Rationals /\ Equals(<<3, 100>>, 3, 100)
    /\ <<1, 25>> \in Rationals /\ Equals(<<1, 25>>, 4, 100)
    /\ <<-1, 25>> \in Rationals /\ Equals(<<-1, 25>>, -4, 100)
    /\ Zero \in Rationals /\ Equals(Zero, 0, 100)
<1>1. <<-3, 100>> \in Rationals /\ Equals(<<-3, 100>>, -3, 100)
  <2>1. (-3) * 33 + 100 * 1 = 1 OBVIOUS
  <2> QED BY <2>1, ReducedIs
<1>2. <<-1, 100>> \in Rationals /\ Equals(<<-1, 100>>, -1, 100)
  <2>1. (-1) * (-1) + 100 * 0 = 1 OBVIOUS
  <2> QED BY <2>1, ReducedIs
<1>3. <<3, 100>> \in Rationals /\ Equals(<<3, 100>>, 3, 100)
  <2>1. 3 * (-33) + 100 * 1 = 1 OBVIOUS
  <2> QED BY <2>1, ReducedIs
<1>4. <<1, 25>> \in Rationals /\ Equals(<<1, 25>>, 4, 100)
  <2>1. 1 * 1 + 25 * 0 = 1 OBVIOUS
  <2>2. <<1, 25>> \in Rationals BY <2>1, ReducedIs
  <2> QED BY <2>2 DEF Equals
<1>5. <<-1, 25>> \in Rationals /\ Equals(<<-1, 25>>, -4, 100)
  <2>1. (-1) * (-1) + 25 * 0 = 1 OBVIOUS
  <2>2. <<-1, 25>> \in Rationals BY <2>1, ReducedIs
  <2> QED BY <2>2 DEF Equals
<1>6. Zero \in Rationals /\ Equals(Zero, 0, 100)
  <2>1. Zero \in Rationals BY NothingIsRational
  <2> QED BY <2>1 DEF Zero, Equals
<1> QED BY <1>1, <1>2, <1>3, <1>4, <1>5, <1>6

\* The whole bill is what is owed abroad, at the rate.
LEMMA TotalIs ==
    ASSUME NEW r \in BudgetQuestions, ValidBudget(r), NEW rate \in Rationals, Positive(rate)
    PROVE  LET fees  == Times(r.tuition, rate)
               total == IF Living(r) = <<>> THEN fees ELSE Plus(fees, Times(Times(r.living, rate), Whole(12 * r.years)))
           IN  /\ total \in Rationals /\ Positive(total) /\ fees \in Rationals
               /\ \A by : BillAt(r, rate, by) = Times(total, Plus(Whole(1), by))
<1> DEFINE fees  == Times(r.tuition, rate)
           w     == Whole(12 * r.years)
           spent == Times(Times(r.living, rate), w)
           owed  == Plus(r.tuition, Times(Monthly(r), w))
<1>1. r.tuition \in Rationals /\ Positive(r.tuition) /\ r.years \in Int /\ 12 * r.years \in Int /\ 12 * r.years > 0
  BY DEF BudgetQuestions, ValidBudget
<1>2. w \in Rationals /\ Positive(w) BY <1>1, WholeIsPositive
<1>3. fees \in Rationals /\ Positive(fees) BY <1>1, PositiveProducts, OverTimes
<1>4. \A by : BillAt(r, rate, by) = Times(Times(owed, rate), Plus(Whole(1), by)) BY DEF BillAt, Monthly
<1>5. \/ Living(r) = <<>> /\ Monthly(r) = Zero
      \/ Living(r) = <<r.living>> /\ Monthly(r) = r.living /\ r.living \in Rationals /\ Positive(r.living)
  BY LivingIs DEF ValidBudget
<1> HIDE DEF w
<1>6. CASE Living(r) = <<>> /\ Monthly(r) = Zero
  <2>1. Times(Zero, w) = Zero BY <1>2, NoneOf
  <2>2. Plus(r.tuition, Zero) = r.tuition BY <1>1, NothingIsRational, FieldLaws
  <2>3. Times(owed, rate) = fees BY <1>6, <2>1, <2>2
  <2> HIDE DEF fees, owed
  <2> QED BY <1>3, <1>4, <1>6, <2>3 DEF fees
<1>7. CASE Living(r) = <<r.living>> /\ Monthly(r) = r.living /\ r.living \in Rationals /\ Positive(r.living)
  <2> DEFINE l == r.living  u == r.tuition
  <2>1. Living(r) # <<>> BY <1>7
  <2>2. l \in Rationals /\ Positive(l) /\ u \in Rationals /\ owed = Plus(u, Times(l, w)) BY <1>1, <1>7
  <2>3. fees = Times(u, rate) /\ spent = Times(Times(l, rate), w) OBVIOUS
  <2> HIDE DEF l, u, owed, fees, spent
  <2>4. Times(l, w) \in Rationals /\ Times(l, rate) \in Rationals /\ Positive(Times(l, rate)) BY <1>2, <2>2, PositiveProducts, OverTimes
  <2>5. spent \in Rationals /\ Positive(spent) BY <1>2, <2>3, <2>4, PositiveProducts, OverTimes
  <2>6. Times(Times(l, w), rate) = spent
    <3>1. Times(Times(l, w), rate) = Times(l, Times(w, rate)) BY <1>2, <2>2, FieldLaws
    <3>2. Times(w, rate) = Times(rate, w) BY <1>2, FieldLaws
    <3>3. Times(Times(l, rate), w) = Times(l, Times(rate, w)) BY <1>2, <2>2, FieldLaws
    <3> QED BY <2>3, <3>1, <3>2, <3>3
  <2>7. Plus(u, Times(l, w)) \in Rationals /\ Plus(fees, spent) \in Rationals BY <1>3, <2>2, <2>4, <2>5, SumsAreExact
  <2>8. Times(owed, rate) = Plus(fees, spent)
    <3>1. Times(owed, rate) = Times(rate, owed) BY <2>2, <2>7, FieldLaws
    <3>2. Times(rate, Plus(u, Times(l, w))) = Plus(Times(rate, u), Times(rate, Times(l, w))) BY <2>2, <2>4, FieldLaws
    <3>3. Times(rate, u) = fees /\ Times(rate, Times(l, w)) = spent BY <2>2, <2>3, <2>4, <2>6, FieldLaws
    <3> QED BY <2>2, <3>1, <3>2, <3>3
  <2>9. Positive(Plus(fees, spent))
    <3>1. Zero \in Rationals /\ Below(Zero, spent) BY <2>5, NothingIsRational, OrderLaws
    <3>2. Below(Plus(Zero, fees), Plus(spent, fees)) BY <1>3, <2>5, <3>1, OrderLaws
    <3>3. Plus(Zero, fees) = fees /\ Plus(spent, fees) = Plus(fees, spent) BY <1>3, <2>5, <3>1, FieldLaws
    <3>4. Below(Zero, fees) BY <1>3, OrderLaws
    <3>5. Below(Zero, Plus(fees, spent)) BY <1>3, <2>7, <3>1, <3>2, <3>3, <3>4, OrderLaws
    <3> QED BY <2>7, <3>5, OrderLaws
  <2>10. \A by : BillAt(r, rate, by) = Times(Plus(fees, spent), Plus(Whole(1), by)) BY <1>4, <2>8
  <2>11. fees = Times(r.tuition, rate) /\ spent = Times(Times(r.living, rate), Whole(12 * r.years)) BY DEF fees, spent, w
  <2> QED BY <1>3, <2>1, <2>7, <2>9, <2>10, <2>11
<1> QED BY <1>5, <1>6, <1>7

\* A budget that calculates.
LEMMA GoodBudget ==
    ASSUME NEW r \in BudgetQuestions, ValidBudget(r), NEW t \in RateTables,
           r.currency = r.home \/ {r.currency, r.home} \subseteq CodesOf(t)
    PROVE  BudgetCalculation(r, t).ok /\ BudgetRight(r, {t}, BudgetCalculation(r, t))
<1> DEFINE rate  == RateOf(r.currency, r.home, t)
           fees  == Times(r.tuition, rate)
           spent == Times(Times(r.living, rate), Whole(12 * r.years))
           total == IF Living(r) = <<>> THEN fees ELSE Plus(fees, spent)
           a     == BudgetCalculation(r, t)
           b     == a.is
<1>1. /\ r.currency \in STRING /\ r.home \in STRING /\ r.tuition \in Rationals /\ r.years \in Int
      /\ Positive(r.tuition) /\ r.years > 0
  BY DEF BudgetQuestions, ValidBudget
<1>2. rate \in Rationals /\ Positive(rate) /\ Convert(fees, r.home, r.currency, t) = Ok(r.tuition)
  BY <1>1, ConvertIs
<1>3. /\ total \in Rationals /\ Positive(total) /\ fees \in Rationals
      /\ \A by : BillAt(r, rate, by) = Times(total, Plus(Whole(1), by))
  BY <1>2, TotalIs
<1>4. a = Ok([rate |-> rate, tuition |-> fees, annual |-> Over(fees, Whole(r.years)),
              living |-> IF Living(r) = <<>> THEN Missing ELSE spent,
              total |-> IF Living(r) = <<>> THEN Missing ELSE total,
              low |-> Times(total, <<97, 100>>), high |-> Times(total, <<103, 100>>)])
  BY BudgetIs
<1>5. /\ a.ok /\ b.rate = rate /\ b.tuition = fees /\ b.annual = Over(fees, Whole(r.years))
      /\ b.low = Times(total, <<97, 100>>) /\ b.high = Times(total, <<103, 100>>)
      /\ b.total # Missing => b.total = Plus(fees, spent) /\ b.living = spent
  <2>1. CASE Living(r) = <<>> BY <1>4, <2>1 DEF Ok
  <2>2. CASE Living(r) # <<>> BY <1>4, <2>2 DEF Ok
  <2> QED BY <2>1, <2>2
<1>6. Times(Over(fees, Whole(r.years)), Whole(r.years)) = fees
  <2>1. Whole(r.years) \in Rationals /\ Positive(Whole(r.years)) BY <1>1, WholeIsPositive
  <2> QED BY <1>3, <2>1, OverTimes
<1> HIDE DEF rate, fees, spent, total, a
<1>7. ASSUME NEW by \in Rationals, NEW k \in Int, Equals(by, k, 100)
      PROVE  Between(b.low, BillAt(r, b.rate, by), b.high) <=> -3 <= k /\ k <= 3
  BY <1>3, <1>5, <1>7, WithinIs
<1>8. /\ Between(b.low, BillAt(r, b.rate, <<-3, 100>>), b.high) /\ Between(b.low, BillAt(r, b.rate, <<-1, 100>>), b.high)
      /\ Between(b.low, BillAt(r, b.rate, Zero), b.high) /\ Between(b.low, BillAt(r, b.rate, <<3, 100>>), b.high)
      /\ ~Between(b.low, BillAt(r, b.rate, <<1, 25>>), b.high) /\ ~Between(b.low, BillAt(r, b.rate, <<-1, 25>>), b.high)
  BY <1>7, Changes
<1>9. TheOne({t}) = t BY DEF TheOne
<1>10. BudgetRight(r, {t}, a)
  BY <1>2, <1>5, <1>6, <1>8, <1>9 DEF BudgetRight
<1> QED BY <1>5, <1>10 DEF a

\* A budget in a currency the table does not have.
LEMMA NoBudget ==
    ASSUME NEW r \in BudgetQuestions, ValidBudget(r), NEW t \in RateTables,
           r.currency # r.home, ~({r.currency, r.home} \subseteq CodesOf(t))
    PROVE  ~BudgetCalculation(r, t).ok
<1> DEFINE L     == Living(r)
           f     == [i \in 1 .. 2 + Len(L) |-> Convert((<<Whole(1), r.tuition>> \o L)[i], r.currency, r.home, t)]
           home  == Collected(f)
<1>1. r.currency \in STRING /\ r.home \in STRING /\ r.tuition \in Rationals /\ Positive(r.tuition) /\ r.years \in 1 .. 10
  BY DEF BudgetQuestions, ValidBudget
<1>2. ~home.ok => BudgetCalculation(r, t) = home BY <1>1 DEF BudgetCalculation, Living
<1>3. Len(L) \in Nat BY DEF Living
<1> HIDE DEF L
<1>4. DOMAIN f \in SUBSET Nat /\ 1 \in DOMAIN f BY <1>3
<1>5. ~f[1].ok BY <1>1, <1>4, ConvertFails
<1> HIDE DEF f
<1>6. \E i \in DOMAIN f : ~f[i].ok BY <1>4, <1>5, Zenon
<1>7. \E i \in DOMAIN f : ~f[i].ok /\ Collected(f) = f[i] BY <1>4, <1>6, CollectedIs, Zenon
<1>8. ~home.ok BY <1>7
<1> HIDE DEF home
<1> QED BY <1>2, <1>8

\* BudgetRight, which a run checks on a few requests and tables: whatever is
\* asked, the answer comes back to the fee, its bounds hold for a rate that
\* moves by three percent and not for four, its years add up; and a budget is
\* refused only for its form, for want of a table or of a currency in it.
THEOREM BudgetsHold ==
    \A r \in BudgetQuestions, t \in RateTables :
        BudgetRight(r, {t}, RunFxBudget(r, {t})) /\ BudgetRight(r, {}, RunFxBudget(r, {}))
<1> SUFFICES ASSUME NEW r \in BudgetQuestions, NEW t \in RateTables
             PROVE  BudgetRight(r, {t}, RunFxBudget(r, {t})) /\ BudgetRight(r, {}, RunFxBudget(r, {}))
  OBVIOUS
<1>1. CASE ~ValidBudget(r)
  <2>1. ASSUME NEW s PROVE BudgetRight(r, s, RunFxBudget(r, s))
    <3>1. RunFxBudget(r, s) = Fail("validation") BY <1>1 DEF RunFxBudget
    <3> DEFINE answer == RunFxBudget(r, s)
    <3>2. ~answer.ok /\ answer.is = "validation" BY <3>1 DEF Fail
    <3> HIDE DEF answer
    <3>3. BudgetRight(r, s, answer) BY <1>1, <3>2 DEF BudgetRight
    <3> QED BY <3>3 DEF answer
  <2> QED BY <2>1
<1>2. CASE ValidBudget(r)
  <2>1. BudgetRight(r, {}, RunFxBudget(r, {}))
    <3>1. RunFxBudget(r, {}) = Fail("unavailable") BY <1>2 DEF RunFxBudget
    <3> DEFINE answer == RunFxBudget(r, {})
    <3>2. ~answer.ok /\ answer.is = "unavailable" BY <3>1 DEF Fail
    <3> HIDE DEF answer
    <3>3. BudgetRight(r, {}, answer) BY <3>2 DEF BudgetRight
    <3> QED BY <3>3 DEF answer
  <2>2. TheOne({t}) = t /\ {t} # {} BY DEF TheOne
  <2> DEFINE a == BudgetCalculation(r, t)
  <2>3. RunFxBudget(r, {t}) = (IF a.ok THEN a ELSE Fail("invalid_input")) BY <1>2, <2>2 DEF RunFxBudget
  <2>4. CASE r.currency = r.home \/ {r.currency, r.home} \subseteq CodesOf(t)
    <3>1. a.ok /\ BudgetRight(r, {t}, a) BY <1>2, <2>4, GoodBudget
    <3> HIDE DEF a
    <3>2. RunFxBudget(r, {t}) = a BY <2>3, <3>1
    <3> QED BY <2>1, <3>1, <3>2
  <2>5. CASE r.currency # r.home /\ ~({r.currency, r.home} \subseteq CodesOf(t))
    <3>1. ~a.ok BY <1>2, <2>5, NoBudget
    <3> HIDE DEF a
    <3>2. RunFxBudget(r, {t}) = Fail("invalid_input") BY <2>3, <3>1
    <3> DEFINE answer == RunFxBudget(r, {t})
    <3>3. ~answer.ok /\ answer.is = "invalid_input" BY <3>2 DEF Fail
    <3> HIDE DEF answer
    <3>4. BudgetRight(r, {t}, answer) BY <2>5, <3>3 DEF BudgetRight, CodesOf
    <3> QED BY <2>1, <3>4 DEF answer
  <2> QED BY <2>4, <2>5
<1> QED BY <1>1, <1>2

-----------------------------------------------------------------------------
(* Prices: what adding, multiplying and rounding do to a bound.            *)
AtMost(p, q) == ~Below(q, p)

LEMMA BoundsChain ==
    ASSUME NEW p \in Rationals, NEW q \in Rationals, NEW r \in Rationals, AtMost(p, q), AtMost(q, r)
    PROVE  AtMost(p, r)
<1>1. ~Below(q, p) /\ ~Below(r, q) BY DEF AtMost
<1>2. Below(r, p) => Below(q, p)
  <2>1. ASSUME Below(r, p) PROVE Below(q, p)
    <3>1. ~Below(r, q) /\ Below(r, p) BY <1>1, <2>1
    <3> QED BY <3>1, OrderLaws
  <2> QED BY <2>1
<1> QED BY <1>1, <1>2 DEF AtMost

LEMMA BoundsAdd ==
    ASSUME NEW p \in Rationals, NEW q \in Rationals, NEW r \in Rationals, NEW s \in Rationals, AtMost(p, q), AtMost(r, s)
    PROVE  AtMost(Plus(p, r), Plus(q, s))
<1>1. /\ Plus(p, r) \in Rationals /\ Plus(q, r) \in Rationals /\ Plus(q, s) \in Rationals
      /\ Plus(q, r) = Plus(r, q) /\ Plus(q, s) = Plus(s, q)
  BY SumsAreExact, FieldLaws
<1>2. AtMost(Plus(p, r), Plus(q, r)) BY OrderLaws DEF AtMost
<1>3. AtMost(Plus(r, q), Plus(s, q)) BY OrderLaws DEF AtMost
<1> QED BY <1>1, <1>2, <1>3, BoundsChain

LEMMA BoundsScale ==
    ASSUME NEW p \in Rationals, NEW q \in Rationals, NEW r \in Rationals, Positive(r)
    PROVE  AtMost(Times(p, r), Times(q, r)) <=> AtMost(p, q)
BY OrderLaws DEF AtMost

LEMMA EqualIsAtMost ==
    ASSUME NEW p \in Rationals
    PROVE  AtMost(p, p)
BY OrderLaws DEF AtMost

LEMMA MovedOver ==
    ASSUME NEW p \in Rationals, NEW q \in Rationals, NEW e \in Rationals, AtMost(p, Plus(q, e))
    PROVE  AtMost(Minus(p, q), e)
<1>1. Minus(p, q) \in Rationals /\ Plus(q, e) = Plus(e, q) /\ Plus(Minus(p, q), q) = p
  BY SumsAreExact, FieldLaws
<1>2. Below(Plus(e, q), Plus(Minus(p, q), q)) <=> Below(e, Minus(p, q)) BY <1>1, OrderLaws
<1> QED BY <1>1, <1>2 DEF AtMost

LEMMA TimesMinus ==
    ASSUME NEW p \in Rationals, NEW q \in Rationals, NEW r \in Rationals
    PROVE  /\ Minus(q, r) \in Rationals /\ Times(p, q) \in Rationals /\ Times(p, r) \in Rationals
           /\ Times(p, Minus(q, r)) = Minus(Times(p, q), Times(p, r))
<1> DEFINE d == Minus(q, r)
<1>1. d \in Rationals /\ Times(p, q) \in Rationals /\ Times(p, r) \in Rationals /\ Plus(d, r) = q
  BY SumsAreExact, ProductsAreExact, FieldLaws
<1> HIDE DEF d
<1>2. Times(p, d) \in Rationals /\ Times(p, Plus(d, r)) = Plus(Times(p, d), Times(p, r)) BY <1>1, ProductsAreExact, FieldLaws
<1>3. Minus(Plus(Times(p, d), Times(p, r)), Times(p, r)) = Times(p, d) BY <1>1, <1>2, FieldLaws
<1> QED BY <1>1, <1>2, <1>3 DEF d

LEMMA NegatedIs ==
    ASSUME NEW x \in Rationals
    PROVE  <<-x[1], x[2]>> \in Rationals
<1>1. x[1] \in Int /\ x[2] \in Nat \ {0} /\ GcdOf(x[1], x[2]) = 1 BY DEF Rationals
<1>2. Magnitude(-x[1]) = Magnitude(x[1]) BY <1>1 DEF Magnitude
<1>3. GcdOf(-x[1], x[2]) = 1 BY <1>1, <1>2 DEF GcdOf
<1> QED BY <1>1, <1>3 DEF Rationals

\* A magnitude is bounded if the number is from both sides.
LEMMA AbsIsBounded ==
    ASSUME NEW p \in Rationals, NEW q \in Rationals, NEW e \in Rationals, AtMost(p, Plus(q, e)), AtMost(q, Plus(p, e))
    PROVE  AbsOf(Minus(p, q)) \in Rationals /\ AtMost(AbsOf(Minus(p, q)), e)
<1> DEFINE x == Minus(p, q)  y == Minus(q, p)
<1>1. x \in Rationals /\ y \in Rationals BY SumsAreExact
<1>2. AtMost(x, e) /\ AtMost(y, e) BY MovedOver
<1>3. x[1] \in Int /\ x[2] \in Int /\ x[2] # 0 /\ Equals(x, x[1], x[2]) /\ x[2] > 0 /\ x = <<x[1], x[2]>> BY <1>1, PartsOf
<1>4. AbsOf(x) = x \/ AbsOf(x) = y
  <2>1. CASE x[1] >= 0 BY <1>3, <2>1 DEF AbsOf, Magnitude
  <2>2. CASE x[1] < 0
    <3>1. AbsOf(x) = <<-x[1], x[2]>> BY <1>3, <2>2 DEF AbsOf, Magnitude
    <3> DEFINE a == p[1]  b == p[2]  c == q[1]  d == q[2]
    <3>2. a \in Int /\ b \in Int /\ b # 0 /\ Equals(p, a, b) /\ c \in Int /\ d \in Int /\ d # 0 /\ Equals(q, c, d) BY PartsOf
    <3> HIDE DEF a, b, c, d
    <3>3. /\ Equals(x, a * d - c * b, b * d) /\ Equals(y, c * b - a * d, d * b)
          /\ a * d \in Int /\ c * b \in Int /\ b * d = d * b /\ b * d \in Int /\ b * d # 0
      <4>1. Equals(x, a * d - c * b, b * d) /\ b * d \in Int /\ b * d # 0 BY <3>2, SumIs
      <4>2. Equals(y, c * b - a * d, d * b) BY <3>2, SumIs
      <4>3. a * d \in Int /\ c * b \in Int /\ b * d = d * b BY <3>2
      <4> QED BY <4>1, <4>2, <4>3
    <3> DEFINE z == <<-x[1], x[2]>>
    <3>4. z \in Rationals /\ z[1] = -x[1] /\ z[2] = x[2] BY <1>1, NegatedIs
    <3> DEFINE u == a * d  v == c * b  w == b * d
    <3>5. Equals(z, v - u, w)
      <4>1. x[1] * w = (u - v) * x[2] BY <3>3 DEF Equals
      <4> HIDE DEF u, v, w
      <4>2. u \in Int /\ v \in Int /\ w \in Int BY <3>3 DEF u, v, w
      <4>3. (-x[1]) * w = (v - u) * x[2] BY ONLY <1>3, <4>1, <4>2
      <4> QED BY <3>4, <4>3 DEF Equals
    <3>6. z = y
      <4>1. v - u \in Int /\ w \in Int /\ w # 0 /\ Equals(y, v - u, w) BY <3>3
      <4> HIDE DEF z, u, v, w
      <4> QED BY <1>1, <3>4, <3>5, <4>1, SameValue
    <3> QED BY <3>1, <3>6
  <2> QED BY <1>3, <2>1, <2>2
<1> QED BY <1>1, <1>2, <1>4

Cent == <<1, 200>>

\* Rounding to cents moves a number by half a cent at most.
LEMMA WithinACent ==
    ASSUME NEW q \in Rationals
    PROVE  /\ RoundedTo(q, 100) \in Rationals /\ Cent \in Rationals
           /\ AtMost(RoundedTo(q, 100), Plus(q, Cent)) /\ AtMost(q, Plus(RoundedTo(q, 100), Cent))
<1> DEFINE r == RoundedTo(q, 100)  h == Cent  a == q[1]  b == q[2]
<1>1. a \in Int /\ b \in Int /\ b > 0 /\ b # 0 /\ Equals(q, a, b) BY PartsOf
<1>2. h \in Rationals /\ Equals(h, 1, 200)
  <2>1. 1 * 1 + 200 * 0 = 1 OBVIOUS
  <2> QED BY <2>1, ReducedIs DEF Cent
<1>3. r \in Rationals /\ \E k \in Int :
        /\ Equals(r, k, 100) /\ (k # 0 => Sign(k) = Sign(a))
        /\ -b < 2 * (Magnitude(k) * b - Magnitude(a) * 100) /\ 2 * (Magnitude(k) * b - Magnitude(a) * 100) <= b
  <2>1. 100 \in Nat \ {0} OBVIOUS
  <2> QED BY <2>1, RoundsToNearest
<1> HIDE DEF r, h, a, b
<1>4. PICK k \in Int :
        /\ Equals(r, k, 100) /\ (k # 0 => Sign(k) = Sign(a))
        /\ -b < 2 * (Magnitude(k) * b - Magnitude(a) * 100) /\ 2 * (Magnitude(k) * b - Magnitude(a) * 100) <= b
  BY <1>3
<1> DEFINE u == k * b
<1>5. u \in Int /\ (-k) * b = -u /\ (k = 0 => u = 0) BY <1>1
<1>6. 2 * u <= 200 * a + b /\ 200 * a <= 2 * u + b
  <2>1. CASE k = 0
    <3>1. Magnitude(k) = 0 /\ Magnitude(k) * b = 0 BY <1>1, <2>1 DEF Magnitude
    <3> DEFINE m == Magnitude(a)
    <3>2. m \in Int /\ (m = a \/ m = -a) BY <1>1 DEF Magnitude
    <3>3. -b < 2 * (0 - m * 100) /\ 2 * (0 - m * 100) <= b BY <1>4, <3>1
    <3>4. m >= 0 BY <1>1 DEF Magnitude
    <3> HIDE DEF u, m
    <3> QED BY <1>1, <1>5, <2>1, <3>2, <3>3, <3>4
  <2>2. CASE k > 0
    <3>1. a > 0 BY <1>1, <1>4, <2>2 DEF Sign
    <3>2. Magnitude(k) = k /\ Magnitude(a) = a BY <1>1, <2>2, <3>1 DEF Magnitude
    <3>3. -b < 2 * (u - a * 100) /\ 2 * (u - a * 100) <= b BY <1>4, <3>2
    <3> HIDE DEF u
    <3> QED BY <1>1, <1>5, <3>3
  <2>3. CASE k < 0
    <3>1. a < 0 BY <1>1, <1>4, <2>3 DEF Sign
    <3>2. Magnitude(k) = -k /\ Magnitude(a) = -a BY <1>1, <2>3, <3>1 DEF Magnitude
    <3>3. -b < 2 * (-u - (-a) * 100) /\ 2 * (-u - (-a) * 100) <= b BY <1>4, <1>5, <3>2
    <3> HIDE DEF u
    <3> QED BY <1>1, <1>5, <3>3
  <2> QED BY <2>1, <2>2, <2>3
<1>7. ~Below(Plus(q, h), r)
  <2>1. Plus(q, h) \in Rationals /\ Equals(Plus(q, h), a * 200 + 1 * b, b * 200) BY <1>1, <1>2, SumIs
  <2>2. b * 200 \in Int /\ b * 200 > 0 /\ a * 200 + 1 * b \in Int BY <1>1
  <2>3. Below(Plus(q, h), r) <=> (a * 200 + 1 * b) * 100 < k * (b * 200)
    <3>1. 100 \in Int /\ 100 > 0 OBVIOUS
    <3> QED BY <1>3, <1>4, <2>1, <2>2, <3>1, BelowIs
  <2>4. k * (b * 200) = 200 * u BY <1>1
  <2> HIDE DEF u
  <2> QED BY <1>1, <1>5, <1>6, <2>3, <2>4
<1>8. ~Below(Plus(r, h), q)
  <2>1. Plus(r, h) \in Rationals /\ Equals(Plus(r, h), k * 200 + 1 * 100, 100 * 200)
    <3>1. 100 \in Int /\ 100 # 0 /\ 200 \in Int /\ 200 # 0 OBVIOUS
    <3> QED BY <1>2, <1>3, <1>4, <3>1, SumIs
  <2>2. 100 * 200 \in Int /\ 100 * 200 > 0 /\ k * 200 + 1 * 100 \in Int OBVIOUS
  <2>3. Below(Plus(r, h), q) <=> (k * 200 + 1 * 100) * b < a * (100 * 200)
    BY <1>1, <2>1, <2>2, BelowIs
  <2>4. (k * 200 + 1 * 100) * b = 200 * u + 100 * b BY <1>1
  <2> HIDE DEF u
  <2> QED BY <1>1, <1>5, <1>6, <2>3, <2>4
<1> QED BY <1>2, <1>3, <1>7, <1>8 DEF r, h, AtMost

\* Of two numbers above zero the smaller is not rounded to more.
LEMMA RoundedApart ==
    ASSUME NEW a \in Int, NEW b \in Int, b > 0, NEW c \in Int, NEW d \in Int, d > 0, NEW g \in Int, g > 0,
           NEW k \in Int, NEW l \in Int, a * d <= c * b, k > l,
           2 * (k * b - a * g) <= b, -d < 2 * (l * d - c * g)
    PROVE  FALSE
<1> DEFINE kb == k * b  ag == a * g  ld == l * d  cg == c * g  w == b * d
<1>1. kb \in Int /\ ag \in Int /\ ld \in Int /\ cg \in Int /\ w \in Int /\ w > 0 BY BothPositive
<1>2. 2 * kb <= 2 * ag + b /\ 2 * cg < 2 * ld + d
  <2>1. 2 * (kb - ag) <= b /\ -d < 2 * (ld - cg) OBVIOUS
  <2> HIDE DEF kb, ag, ld, cg, w
  <2> QED BY <1>1, <2>1
<1>3. d * (2 * kb) <= d * (2 * ag + b)
  <2> DEFINE s == 2 * kb  t == 2 * ag + b
  <2>1. s \in Int /\ t \in Int /\ s <= t BY <1>1, <1>2
  <2> HIDE DEF s, t
  <2>2. t < s <=> d * t < d * s BY <2>1, ScaledUp
  <2>3. d * t \in Int /\ d * s \in Int BY <2>1
  <2>4. d * s <= d * t BY <2>1, <2>2, <2>3
  <2> QED BY <2>4 DEF s, t
<1>4. b * (2 * cg) < b * (2 * ld + d)
  <2> DEFINE s == 2 * cg  t == 2 * ld + d
  <2>1. s \in Int /\ t \in Int /\ s < t BY <1>1, <1>2
  <2> HIDE DEF s, t
  <2>2. b * s < b * t BY <2>1, ScaledUp
  <2> QED BY <2>2 DEF s, t
<1>5. d * (2 * kb) = 2 * (w * k) /\ b * (2 * ld) = 2 * (w * l) /\ w * k \in Int /\ w * l \in Int OBVIOUS
<1>6. d * (2 * ag) = 2 * (g * (a * d)) /\ b * (2 * cg) = 2 * (g * (c * b)) /\ g * (a * d) \in Int /\ g * (c * b) \in Int OBVIOUS
<1>7. d * (2 * ag + b) = d * (2 * ag) + w /\ b * (2 * ld + d) = b * (2 * ld) + w
  <2> DEFINE s == 2 * ag  t == 2 * ld
  <2>1. s \in Int /\ t \in Int BY <1>1
  <2> HIDE DEF s, t
  <2>2. d * (s + b) = d * s + b * d /\ b * (t + d) = b * t + b * d BY <2>1
  <2> QED BY <2>2 DEF s, t
<1>8. g * (a * d) <= g * (c * b)
  <2> DEFINE s == a * d  t == c * b
  <2>1. s \in Int /\ t \in Int /\ s <= t OBVIOUS
  <2> HIDE DEF s, t
  <2>2. t < s <=> g * t < g * s BY <2>1, ScaledUp
  <2>3. g * t \in Int /\ g * s \in Int BY <2>1
  <2>4. g * s <= g * t BY <2>1, <2>2, <2>3
  <2> QED BY <2>4 DEF s, t
<1>9. w * k >= w * l + w
  <2>1. k >= l + 1 OBVIOUS
  <2> HIDE DEF w
  <2>2. k < l + 1 <=> w * k < w * (l + 1)
    <3>1. l + 1 \in Int OBVIOUS
    <3> QED BY <1>1, <3>1, ScaledUp
  <2>3. w * (l + 1) = w * l + w /\ w * k \in Int /\ w * l \in Int BY <1>1
  <2> QED BY <1>1, <2>1, <2>2, <2>3
<1> DEFINE wk == w * k  wl == w * l  gad == g * (a * d)  gcb == g * (c * b)
<1>10. 2 * wk <= 2 * gad + w /\ 2 * gcb < 2 * wl + w
  <2>1. d * (2 * kb) = 2 * wk /\ d * (2 * ag + b) = 2 * gad + w BY <1>5, <1>6, <1>7
  <2>2. b * (2 * cg) = 2 * gcb /\ b * (2 * ld + d) = 2 * wl + w BY <1>5, <1>6, <1>7
  <2> QED BY <1>3, <1>4, <2>1, <2>2
<1>11. wk \in Int /\ wl \in Int /\ gad \in Int /\ gcb \in Int /\ w \in Int /\ gad <= gcb /\ wk >= wl + w
  BY <1>1, <1>5, <1>6, <1>8, <1>9
<1> HIDE DEF wk, wl, gad, gcb, w
<1> QED BY ONLY <1>10, <1>11

\* Rounding keeps an order, on any grid.
LEMMA RoundingKeepsOrder ==
    ASSUME NEW p \in Rationals, NEW q \in Rationals, NEW g \in Nat \ {0}, AtMost(p, q)
    PROVE  /\ AtMost(RoundedTo(p, g), RoundedTo(q, g))
           /\ RoundedTo(p, g) \in Rationals /\ RoundedTo(q, g) \in Rationals
<1> DEFINE x == RoundedTo(p, g)  y == RoundedTo(q, g)  a == p[1]  b == p[2]  c == q[1]  d == q[2]
<1>1. /\ a \in Int /\ b \in Int /\ b > 0 /\ Equals(p, a, b)
      /\ c \in Int /\ d \in Int /\ d > 0 /\ Equals(q, c, d) /\ g \in Int /\ g > 0
  BY PartsOf
<1>2. a * d <= c * b
  <2>1. Below(q, p) <=> c * b < a * d BY <1>1, BelowIs
  <2>2. a * d \in Int /\ c * b \in Int BY <1>1
  <2> QED BY <2>1, <2>2 DEF AtMost
<1>3. x \in Rationals /\ \E k \in Int :
        /\ Equals(x, k, g) /\ (k # 0 => Sign(k) = Sign(a))
        /\ -b < 2 * (Magnitude(k) * b - Magnitude(a) * g) /\ 2 * (Magnitude(k) * b - Magnitude(a) * g) <= b
  BY RoundsToNearest
<1>4. y \in Rationals /\ \E k \in Int :
        /\ Equals(y, k, g) /\ (k # 0 => Sign(k) = Sign(c))
        /\ -d < 2 * (Magnitude(k) * d - Magnitude(c) * g) /\ 2 * (Magnitude(k) * d - Magnitude(c) * g) <= d
  BY RoundsToNearest
<1> HIDE DEF x, y, a, b, c, d
<1>5. PICK k \in Int :
        /\ Equals(x, k, g) /\ (k # 0 => Sign(k) = Sign(a))
        /\ -b < 2 * (Magnitude(k) * b - Magnitude(a) * g) /\ 2 * (Magnitude(k) * b - Magnitude(a) * g) <= b
  BY <1>3
<1>6. PICK l \in Int :
        /\ Equals(y, l, g) /\ (l # 0 => Sign(l) = Sign(c))
        /\ -d < 2 * (Magnitude(l) * d - Magnitude(c) * g) /\ 2 * (Magnitude(l) * d - Magnitude(c) * g) <= d
  BY <1>4
<1>7. k <= l
  <2>1. ASSUME k > 0, a > 0, c > 0, k > l PROVE FALSE
    <3>1. Magnitude(k) = k /\ Magnitude(a) = a /\ Magnitude(c) = c BY <1>1, <2>1 DEF Magnitude
    <3>2. 2 * (k * b - a * g) <= b BY <1>5, <3>1
    <3>3. l >= 0
      <4>1. l < 0 => FALSE BY <1>1, <1>6, <2>1 DEF Sign
      <4> QED BY <4>1
    <3>4. Magnitude(l) = l BY <3>3 DEF Magnitude
    <3>5. -d < 2 * (l * d - c * g) BY <1>6, <3>1, <3>4
    <3> QED BY ONLY <1>1, <1>2, <2>1, <3>2, <3>5, k \in Int, l \in Int, RoundedApart
  <2>2. ASSUME l < 0, a < 0, c < 0, k > l PROVE FALSE
    <3> DEFINE m == -l  n == -k  u == -c  v == -a
    <3>1. Magnitude(l) = m /\ Magnitude(a) = v /\ Magnitude(c) = u BY <1>1, <2>2 DEF Magnitude
    <3>2. 2 * (m * d - u * g) <= d BY <1>6, <3>1
    <3>3. k <= 0
      <4>1. k > 0 => FALSE BY <1>1, <1>5, <2>2 DEF Sign
      <4> QED BY <4>1
    <3>4. Magnitude(k) = n BY <3>3 DEF Magnitude
    <3>5. -b < 2 * (n * b - v * g) BY <1>5, <3>1, <3>4
    <3>6. u * b <= v * d
      <4>1. u * b = -(c * b) /\ v * d = -(a * d) /\ c * b \in Int /\ a * d \in Int BY <1>1
      <4> HIDE DEF u, v
      <4> QED BY <1>2, <4>1
    <3>7. m \in Int /\ n \in Int /\ u \in Int /\ v \in Int /\ m > n BY <1>1, <2>2
    <3> HIDE DEF m, n, u, v
    <3> QED BY ONLY <1>1, <3>2, <3>5, <3>6, <3>7, RoundedApart
  <2>3. ASSUME k > l PROVE FALSE
    <3>1. k > 0 \/ l < 0 BY <2>3
    <3>2. CASE k > 0
      <4>1. a > 0 BY <1>1, <1>5, <3>2 DEF Sign
      <4>2. c > 0
        <5>1. a * d > 0 /\ a * d \in Int /\ c * b \in Int BY <1>1, <4>1, BothPositive
        <5>2. c * b > 0 BY <1>2, <5>1
        <5>3. ASSUME c <= 0 PROVE FALSE
          <6>1. c * b <= 0
            <7>1. (-c) * b >= 0 /\ (-c) * b = -(c * b)
              <8>1. CASE c = 0 BY <1>1, <8>1
              <8>2. CASE c < 0
                <9>1. -c \in Int /\ -c > 0 BY <1>1, <8>2
                <9>2. (-c) * b > 0 BY <1>1, <9>1, BothPositive
                <9> QED BY <1>1, <9>2
              <8> QED BY <1>1, <5>3, <8>1, <8>2
            <7> QED BY <5>1, <7>1
          <6> QED BY <5>1, <5>2, <6>1
        <5> QED BY <1>1, <5>3
      <4> QED BY <2>1, <2>3, <3>2, <4>1, <4>2
    <3>3. CASE l < 0
      <4>1. c < 0 BY <1>1, <1>6, <3>3 DEF Sign
      <4>2. a < 0
        <5>1. -c \in Int /\ -c > 0 /\ (-c) * b > 0 /\ (-c) * b = -(c * b) /\ c * b \in Int /\ a * d \in Int
          BY <1>1, <4>1, BothPositive
        <5>2. a * d < 0 BY <1>2, <5>1
        <5>3. ASSUME a >= 0 PROVE FALSE
          <6>1. a * d >= 0
            <7>1. CASE a = 0 BY <1>1, <7>1
            <7>2. CASE a > 0 BY <1>1, <7>2, BothPositive
            <7> QED BY <1>1, <5>3, <7>1, <7>2
          <6> QED BY <5>1, <5>2, <6>1
        <5> QED BY <1>1, <5>3
      <4> QED BY <2>2, <2>3, <3>3, <4>1, <4>2
    <3> QED BY <3>1, <3>2, <3>3
  <2> QED BY <2>3
<1>8. Below(y, x) <=> l * g < k * g BY <1>1, <1>3, <1>4, <1>5, <1>6, BelowIs
<1>9. l * g < k * g <=> l < k
  <2>1. g * l = l * g /\ g * k = k * g BY <1>1
  <2> QED BY <1>1, <2>1, ScaledUp
<1> QED BY <1>3, <1>4, <1>7, <1>8, <1>9 DEF x, y, AtMost

\* p and q are no more than e apart.
Near(p, q, e) == AtMost(p, Plus(q, e)) /\ AtMost(q, Plus(p, e))

LEMMA NearAdds ==
    ASSUME NEW p \in Rationals, NEW q \in Rationals, NEW r \in Rationals, NEW s \in Rationals,
           NEW d \in Rationals, NEW e \in Rationals, Near(p, q, d), Near(r, s, e)
    PROVE  Near(Plus(p, r), Plus(q, s), Plus(d, e))
<1>1. ASSUME NEW a \in Rationals, NEW b \in Rationals, NEW u \in Rationals, NEW v \in Rationals,
             AtMost(a, Plus(b, d)), AtMost(u, Plus(v, e))
      PROVE  AtMost(Plus(a, u), Plus(Plus(b, v), Plus(d, e)))
  <2> DEFINE bd == Plus(b, d)  ve == Plus(v, e)  bv == Plus(b, v)  de == Plus(d, e)
  <2>1. bd \in Rationals /\ ve \in Rationals /\ bv \in Rationals /\ de \in Rationals BY SumsAreExact
  <2>2. AtMost(Plus(a, u), Plus(bd, ve)) BY <1>1, <2>1, BoundsAdd
  <2>3. Plus(bd, ve) = Plus(b, Plus(d, ve)) BY <2>1, FieldLaws
  <2>4. Plus(d, ve) = Plus(v, de)
    <3>1. Plus(d, ve) = Plus(Plus(d, v), e) BY FieldLaws
    <3>2. Plus(d, v) = Plus(v, d) BY FieldLaws
    <3>3. Plus(Plus(v, d), e) = Plus(v, de) BY FieldLaws
    <3> QED BY <3>1, <3>2, <3>3
  <2>5. Plus(bv, de) = Plus(b, Plus(v, de)) BY <2>1, FieldLaws
  <2> QED BY <2>2, <2>3, <2>4, <2>5
<1> QED BY <1>1 DEF Near

LEMMA NearChain ==
    ASSUME NEW p \in Rationals, NEW q \in Rationals, NEW r \in Rationals,
           NEW d \in Rationals, NEW e \in Rationals, Near(p, q, d), Near(q, r, e)
    PROVE  Near(p, r, Plus(d, e))
<1>1. ASSUME NEW a \in Rationals, NEW b \in Rationals, NEW c \in Rationals, NEW u \in Rationals, NEW v \in Rationals,
             AtMost(a, Plus(b, u)), AtMost(b, Plus(c, v))
      PROVE  AtMost(a, Plus(c, Plus(u, v)))
  <2> DEFINE bu == Plus(b, u)  cv == Plus(c, v)  uv == Plus(u, v)
  <2>1. bu \in Rationals /\ cv \in Rationals /\ uv \in Rationals /\ Plus(cv, u) \in Rationals BY SumsAreExact
  <2>2. AtMost(bu, Plus(cv, u)) BY <1>1, <2>1, EqualIsAtMost, BoundsAdd
  <2>3. AtMost(a, Plus(cv, u)) BY <1>1, <2>1, <2>2, BoundsChain
  <2>4. Plus(cv, u) = Plus(c, Plus(v, u)) /\ Plus(v, u) = uv BY FieldLaws
  <2> QED BY <2>3, <2>4
<1>2. Plus(d, e) = Plus(e, d) BY FieldLaws
<1> QED BY <1>1, <1>2 DEF Near

LEMMA NothingTimes ==
    ASSUME NEW p \in Rationals
    PROVE  Times(p, Zero) = Zero
<1>1. Times(p, Zero) = Times(Zero, p) BY NothingIsRational, FieldLaws
<1> QED BY <1>1, NoneOf

LEMMA BoundsScaleUp ==
    ASSUME NEW p \in Rationals, NEW q \in Rationals, NEW r \in Rationals, AtMost(Zero, r), AtMost(p, q)
    PROVE  AtMost(Times(p, r), Times(q, r))
<1>1. Zero \in Rationals BY NothingIsRational
<1>2. r = Zero \/ Positive(r) BY <1>1, OrderLaws DEF AtMost
<1>3. CASE r = Zero
  <2>1. Times(p, r) = Zero /\ Times(q, r) = Zero BY <1>3, NothingTimes
  <2> QED BY <1>1, <2>1, EqualIsAtMost
<1>4. CASE Positive(r) BY <1>4, BoundsScale
<1> QED BY <1>2, <1>3, <1>4

LEMMA NearScales ==
    ASSUME NEW p \in Rationals, NEW q \in Rationals, NEW r \in Rationals, NEW e \in Rationals, AtMost(Zero, r), Near(p, q, e)
    PROVE  Near(Times(p, r), Times(q, r), Times(e, r))
<1>1. ASSUME NEW a \in Rationals, NEW b \in Rationals, AtMost(a, Plus(b, e))
      PROVE  AtMost(Times(a, r), Plus(Times(b, r), Times(e, r)))
  <2> DEFINE s == Plus(b, e)
  <2>1. s \in Rationals BY SumsAreExact
  <2>2. AtMost(Times(a, r), Times(s, r)) BY <1>1, <2>1, BoundsScaleUp
  <2>3. Times(s, r) = Times(r, s) BY <2>1, FieldLaws
  <2>4. Times(r, s) = Plus(Times(r, b), Times(r, e)) BY FieldLaws
  <2>5. Times(r, b) = Times(b, r) /\ Times(r, e) = Times(e, r) BY FieldLaws
  <2> QED BY <2>2, <2>3, <2>4, <2>5
<1> QED BY <1>1 DEF Near

LEMMA NearWidens ==
    ASSUME NEW p \in Rationals, NEW q \in Rationals, NEW d \in Rationals, NEW e \in Rationals, AtMost(d, e), Near(p, q, d)
    PROVE  Near(p, q, e)
<1>1. ASSUME NEW a \in Rationals, NEW b \in Rationals, AtMost(a, Plus(b, d))
      PROVE  AtMost(a, Plus(b, e))
  <2>1. Plus(b, d) \in Rationals /\ Plus(b, e) \in Rationals BY SumsAreExact
  <2>2. AtMost(Plus(b, d), Plus(b, e)) BY EqualIsAtMost, BoundsAdd
  <2> QED BY <1>1, <2>1, <2>2, BoundsChain
<1> QED BY <1>1 DEF Near

LEMMA NearItself ==
    ASSUME NEW p \in Rationals
    PROVE  Near(p, p, Zero)
<1>1. Plus(p, Zero) = p BY NothingIsRational, FieldLaws
<1> QED BY <1>1, EqualIsAtMost DEF Near

LEMMA TakenAway ==
    ASSUME NEW p \in Rationals, NEW q \in Rationals, NEW r \in Rationals, AtMost(Plus(p, q), r)
    PROVE  AtMost(p, Minus(r, q))
<1>1. Minus(r, q) \in Rationals /\ Plus(Minus(r, q), q) = r BY SumsAreExact, FieldLaws
<1>2. Below(Plus(Minus(r, q), q), Plus(p, q)) <=> Below(Minus(r, q), p) BY <1>1, OrderLaws
<1> QED BY <1>1, <1>2 DEF AtMost

\* What is left of one.
LEMMA RestOfOne ==
    ASSUME NEW q \in Rationals, AtMost(Zero, q), Below(q, Whole(1))
    PROVE  LET m == Minus(Whole(1), q) IN m \in Rationals /\ Positive(m) /\ AtMost(m, Whole(1))
<1> DEFINE one == Whole(1)  m == Minus(one, q)
<1>1. one \in Rationals /\ Zero \in Rationals BY NothingIsRational
<1> HIDE DEF one
<1>2. m \in Rationals /\ Plus(m, q) = one BY <1>1, SumsAreExact, FieldLaws
<1> HIDE DEF m
<1>3. Plus(Zero, q) = q /\ Plus(m, Zero) = m
  <2>1. Plus(Zero, q) = Plus(q, Zero) /\ Plus(q, Zero) = q BY <1>1, FieldLaws
  <2> QED BY <1>1, <1>2, <2>1, FieldLaws
<1>4. Below(Plus(Zero, q), Plus(m, q)) BY <1>2, <1>3 DEF one
<1>5. Below(Zero, m) BY <1>1, <1>2, <1>4, OrderLaws
<1>6. AtMost(Plus(m, Zero), Plus(m, q)) BY <1>1, <1>2, EqualIsAtMost, BoundsAdd
<1>7. Positive(m) BY <1>2, <1>5, OrderLaws
<1> QED BY <1>2, <1>3, <1>6, <1>7 DEF m, one

\* The tolerance of the prices: a cent's half twice, and once the currency's.
Slack(rate) == Plus(Plus(Cent, Cent), Times(Cent, rate))

LEMMA SlackIs ==
    ASSUME NEW rate \in Rationals
    PROVE  /\ Cent \in Rationals /\ Positive(Cent) /\ Slack(rate) \in Rationals /\ Plus(Cent, Cent) \in Rationals
           /\ Times(Cent, rate) \in Rationals
           /\ Times(Slack(rate), Whole(200)) = Plus(Whole(2), rate)
<1> DEFINE h == Cent  w == Whole(200)  one == Whole(1)  two == Whole(2)
<1>1. h \in Rationals BY WithinACent
<1>2. Positive(h) BY DEF Positive, Cent
<1>3. w \in Rationals /\ one \in Rationals /\ two \in Rationals BY WholeIsRational
<1>4. Times(h, w) = one
  <2>1. Equals(h, 1, 200) /\ Equals(w, 200, 1) /\ Equals(one, 1, 1) BY DEF Equals, Cent, Whole
  <2>2. 1 \in Int /\ 1 # 0 /\ 200 \in Int /\ 200 # 0 /\ 1 * 200 = 200 /\ 200 * 1 = 200 /\ 200 * 1 = 1 * 200 OBVIOUS
  <2>3. Times(h, w) \in Rationals /\ Equals(Times(h, w), 1 * 200, 200 * 1) BY <1>1, <1>3, <2>1, <2>2, ProductIs
  <2> HIDE DEF h, w, one
  <2>4. Equals(Times(h, w), 200, 200) BY <2>2, <2>3
  <2> QED BY <1>3, <2>1, <2>2, <2>3, <2>4, SameValue
<1>5. Plus(one, one) = two
  <2>1. Equals(one, 1, 1) /\ Equals(two, 2, 1) BY DEF Equals, Whole
  <2>2. 1 \in Int /\ 1 # 0 /\ 2 \in Int /\ 1 * 1 + 1 * 1 = 2 /\ 1 * 1 = 1 /\ 2 * 1 = 2 * 1 OBVIOUS
  <2>3. Plus(one, one) \in Rationals /\ Equals(Plus(one, one), 1 * 1 + 1 * 1, 1 * 1) BY <1>3, <2>1, <2>2, SumIs
  <2> HIDE DEF one, two
  <2>4. Equals(Plus(one, one), 2, 1) BY <2>2, <2>3
  <2> QED BY <1>3, <2>1, <2>2, <2>3, <2>4, SameValue
<1> HIDE DEF h, w, one, two
<1> DEFINE hh == Plus(h, h)  hr == Times(h, rate)  e == Plus(hh, hr)
<1>6. hh \in Rationals /\ hr \in Rationals /\ e \in Rationals BY <1>1, SumsAreExact, ProductsAreExact
<1>7. Times(w, hh) = two
  <2>1. Times(w, hh) = Plus(Times(w, h), Times(w, h)) BY <1>1, <1>3, FieldLaws
  <2>2. Times(w, h) = one BY <1>1, <1>3, <1>4, FieldLaws
  <2> QED BY <1>5, <2>1, <2>2
<1>8. Times(w, hr) = rate
  <2>1. Times(w, hr) = Times(Times(w, h), rate) BY <1>1, <1>3, FieldLaws
  <2>2. Times(w, h) = one BY <1>1, <1>3, <1>4, FieldLaws
  <2>3. Times(one, rate) = Times(rate, one) /\ Times(rate, one) = rate BY <1>3, FieldLaws DEF one
  <2> QED BY <2>1, <2>2, <2>3
<1>9. Times(w, e) = Plus(Times(w, hh), Times(w, hr)) /\ Times(e, w) = Times(w, e)
  <2> HIDE DEF hh, hr
  <2>1. Times(w, e) = Plus(Times(w, hh), Times(w, hr)) BY <1>3, <1>6, FieldLaws
  <2> HIDE DEF e
  <2> QED BY <1>3, <1>6, <2>1, FieldLaws
<1>10. Times(e, w) = Plus(two, rate) BY <1>7, <1>8, <1>9
<1> QED BY <1>1, <1>2, <1>6, <1>10 DEF h, w, two, Slack

LEMMA UpToCentsIs ==
    ASSUME NEW p \in Rationals, NEW q \in Rationals, NEW rate \in Rationals, Near(p, q, Slack(rate))
    PROVE  UpToCents(p, q, rate)
<1> DEFINE e == Slack(rate)  a == AbsOf(Minus(p, q))  w == Whole(200)
<1>1. e \in Rationals /\ Times(e, w) = Plus(Whole(2), rate) BY SlackIs
<1>2. w \in Rationals /\ Positive(w) BY WholeIsPositive
<1>3. AtMost(p, Plus(q, e)) /\ AtMost(q, Plus(p, e)) BY DEF Near
<1> HIDE DEF e
<1>4. a \in Rationals /\ AtMost(a, e) BY <1>1, <1>3, AbsIsBounded
<1> HIDE DEF a, w
<1>5. AtMost(Times(a, w), Times(e, w)) BY <1>1, <1>2, <1>4, BoundsScale
<1>6. Times(a, w) = Times(w, a) BY <1>2, <1>4, FieldLaws
<1> QED BY <1>1, <1>5, <1>6 DEF UpToCents, AtMost, a, w

PricingQuestions == [cost : Rationals, profit : Rationals, platform : Rationals, buffer : Rationals, currencies : Seq(STRING)]

Margin(r) == Minus(Whole(1), r.profit)
Held(r)   == Minus(Whole(1), r.buffer)
Left(r)   == Minus(Whole(1), r.platform)
Goal(r)   == Over(r.cost, Margin(r))
\* What is left of a price of p when the currency has lost the buffer.
Kept(r, rate, p) == Times(Times(p, Times(rate, Held(r))), Left(r))

\* Cost and shares as they are once validated.
LEMMA SharesAre ==
    ASSUME NEW r \in PricingQuestions, ValidPricing(r)
    PROVE  /\ r.cost \in Rationals /\ Positive(r.cost) /\ r.profit \in Rationals /\ Positive(r.profit)
           /\ r.platform \in Rationals /\ AtMost(Zero, r.platform) /\ AtMost(r.platform, Whole(1)) /\ r.buffer \in Rationals
           /\ Margin(r) \in Rationals /\ Positive(Margin(r))
           /\ Held(r) \in Rationals /\ Positive(Held(r)) /\ AtMost(Held(r), Whole(1))
           /\ Left(r) \in Rationals /\ Positive(Left(r))
           /\ Goal(r) \in Rationals /\ Positive(Goal(r)) /\ Times(Goal(r), Margin(r)) = r.cost
<1> DEFINE cost == r.cost  profit == r.profit  platform == r.platform  buffer == r.buffer  half == <<1, 2>>
<1>1. cost \in Rationals /\ profit \in Rationals /\ platform \in Rationals /\ buffer \in Rationals BY DEF PricingQuestions
<1>2. /\ Positive(cost) /\ Positive(profit) /\ Below(profit, Whole(1)) /\ AtMost(Zero, platform) /\ Below(platform, Whole(1))
      /\ AtMost(Zero, buffer) /\ ~Below(half, buffer)
  BY DEF ValidPricing, Between, AtMost
<1>3. Zero \in Rationals /\ Whole(1) \in Rationals BY NothingIsRational
<1>4. half \in Rationals /\ Below(half, Whole(1))
  <2>1. 1 * 1 + 2 * 0 = 1 OBVIOUS
  <2>2. half \in Rationals BY <2>1, ReducedIs
  <2> QED BY <2>2 DEF Below, Whole
<1> HIDE DEF cost, profit, platform, buffer, half
<1>5. Below(buffer, Whole(1)) BY <1>1, <1>2, <1>3, <1>4, OrderLaws
<1>6. AtMost(Zero, profit) BY <1>1, <1>2, <1>3, OrderLaws DEF AtMost
<1>7. AtMost(platform, Whole(1)) BY <1>1, <1>2, <1>3, OrderLaws DEF AtMost
<1>8. Margin(r) \in Rationals /\ Positive(Margin(r)) BY <1>1, <1>2, <1>6, RestOfOne DEF Margin, profit
<1>9. Held(r) \in Rationals /\ Positive(Held(r)) /\ AtMost(Held(r), Whole(1)) BY <1>1, <1>2, <1>5, RestOfOne DEF Held, buffer
<1>10. Left(r) \in Rationals /\ Positive(Left(r)) BY <1>1, <1>2, RestOfOne DEF Left, platform
<1>11. Goal(r) \in Rationals /\ Positive(Goal(r)) /\ Times(Goal(r), Margin(r)) = cost
  BY <1>1, <1>2, <1>8, OverTimes, PositiveProducts DEF Goal, cost
<1> QED BY <1>1, <1>2, <1>7, <1>8, <1>9, <1>10, <1>11 DEF cost, profit, platform, buffer

\* The price before it is rounded keeps the goal to the full, and a higher
\* price keeps more.
LEMMA PriceIs ==
    ASSUME NEW r \in PricingQuestions, ValidPricing(r), NEW rate \in Rationals, Positive(rate)
    PROVE  /\ Price(r, rate) \in Rationals /\ Positive(Price(r, rate))
           /\ Kept(r, rate, Price(r, rate)) = Goal(r)
           /\ \A p \in Rationals, q \in Rationals : AtMost(p, q) => AtMost(Kept(r, rate, p), Kept(r, rate, q))
<1> DEFINE W == Times(rate, Held(r))  F == Left(r)  g == Goal(r)  x == Over(g, W)  y == Over(x, F)
<1>1. W \in Rationals /\ Positive(W) /\ F \in Rationals /\ Positive(F) /\ g \in Rationals /\ Positive(g)
  BY SharesAre, OverTimes, PositiveProducts
<1>2. Price(r, rate) = y /\ \A p : Kept(r, rate, p) = Times(Times(p, W), F)
  BY DEF Price, Kept, Goal, Margin, Held, Left
<1> HIDE DEF W, F, g
<1>3. x \in Rationals /\ Positive(x) /\ Times(x, W) = g BY <1>1, OverTimes, PositiveProducts
<1> HIDE DEF x
<1>4. y \in Rationals /\ Positive(y) /\ Times(y, F) = x BY <1>1, <1>3, OverTimes, PositiveProducts
<1> HIDE DEF y
<1>5. Times(Times(y, W), F) = g
  <2>1. Times(Times(y, W), F) = Times(y, Times(W, F)) BY <1>1, <1>4, FieldLaws
  <2>2. Times(W, F) = Times(F, W) BY <1>1, FieldLaws
  <2>3. Times(y, Times(F, W)) = Times(Times(y, F), W) BY <1>1, <1>4, FieldLaws
  <2> QED BY <1>3, <1>4, <2>1, <2>2, <2>3
<1>6. ASSUME NEW p \in Rationals, NEW q \in Rationals, AtMost(p, q)
      PROVE  AtMost(Times(Times(p, W), F), Times(Times(q, W), F))
  <2>1. AtMost(Times(p, W), Times(q, W)) BY <1>1, <1>6, BoundsScale
  <2>2. Times(p, W) \in Rationals /\ Times(q, W) \in Rationals BY <1>1, ProductsAreExact
  <2> QED BY <1>1, <2>1, <2>2, BoundsScale
<1> QED BY <1>2, <1>4, <1>5, <1>6 DEF g

\* Fee, profit and cost make up what is taken; and what is left over the cost
\* is at least the margin asked for.
LEMMA ProfitIs ==
    ASSUME NEW r \in PricingQuestions, ValidPricing(r), NEW rate \in Rationals, Positive(rate)
    PROVE  LET gross  == Times(Price(r, rate), rate)
               fee    == Times(gross, r.platform)
               profit == Minus(Minus(gross, fee), r.cost)
           IN  /\ gross \in Rationals /\ fee \in Rationals /\ profit \in Rationals
               /\ Plus(Plus(profit, fee), r.cost) = gross
               /\ Over(profit, r.cost) \in Rationals /\ AtMost(r.profit, Over(profit, r.cost))
<1> DEFINE P == Price(r, rate)  B == Held(r)  F == Left(r)  M == Margin(r)  g == Goal(r)  c == r.cost  m == r.profit  f == r.platform
           one == Whole(1)  G == Times(P, rate)  fee == Times(G, f)  net == Minus(G, fee)  profit == Minus(net, c)
<1>1. /\ c \in Rationals /\ Positive(c) /\ m \in Rationals /\ Positive(m) /\ f \in Rationals
      /\ B \in Rationals /\ Positive(B) /\ AtMost(B, one) /\ F \in Rationals /\ Positive(F)
      /\ g \in Rationals /\ Positive(g) /\ Times(g, M) = c
  BY SharesAre
<1>2. P \in Rationals /\ Positive(P) /\ Times(Times(P, Times(rate, B)), F) = g BY PriceIs DEF Kept
<1>3. one \in Rationals /\ Zero \in Rationals BY NothingIsRational
<1>4. F = Minus(one, f) /\ M = Minus(one, m) BY DEF Left, Margin
<1>5. \A q \in Rationals : Times(q, one) = q BY <1>3, FieldLaws
<1> HIDE DEF P, B, F, M, g, c, m, f, one
<1>6. G \in Rationals /\ Positive(G) /\ fee \in Rationals BY <1>1, <1>2, OverTimes, PositiveProducts, ProductsAreExact
<1>7. net = Times(G, F)
  <2>1. Times(G, Minus(one, f)) = Minus(Times(G, one), fee) BY <1>1, <1>3, <1>6, TimesMinus
  <2> QED BY <1>4, <1>5, <1>6, <2>1
<1> HIDE DEF G
<1>8. net \in Rationals /\ Positive(net) BY <1>1, <1>6, <1>7, OverTimes, PositiveProducts
<1>9. profit \in Rationals /\ Plus(profit, c) = net /\ Plus(net, fee) = G
  <2>1. Plus(net, fee) = G BY <1>6, FieldLaws
  <2> HIDE DEF net
  <2> QED BY <1>1, <1>8, <2>1, SumsAreExact, FieldLaws
<1> HIDE DEF fee, net, profit
<1>10. Plus(Plus(profit, fee), c) = G
  <2>1. Plus(Plus(profit, fee), c) = Plus(profit, Plus(fee, c)) BY <1>1, <1>6, <1>9, FieldLaws
  <2>2. Plus(fee, c) = Plus(c, fee) BY <1>1, <1>6, FieldLaws
  <2>3. Plus(Plus(profit, c), fee) = Plus(profit, Plus(c, fee)) BY <1>1, <1>6, <1>9, FieldLaws
  <2> QED BY <1>9, <2>1, <2>2, <2>3
\* the goal is what is left after the buffer
<1>11. AtMost(g, net)
  <2>1. Times(P, Times(rate, B)) = Times(G, B) BY <1>1, <1>2, FieldLaws DEF G
  <2>2. Times(Times(G, B), F) = Times(G, Times(B, F)) BY <1>1, <1>6, FieldLaws
  <2>3. Times(B, F) = Times(F, B) BY <1>1, FieldLaws
  <2>4. Times(Times(G, F), B) = Times(G, Times(F, B)) BY <1>1, <1>6, FieldLaws
  <2>5. g = Times(net, B) BY <1>2, <1>7, <2>1, <2>2, <2>3, <2>4
  <2>6. Times(net, B) = Times(B, net) /\ net = Times(one, net) BY <1>1, <1>3, <1>5, <1>8, FieldLaws
  <2>7. AtMost(Times(B, net), Times(one, net)) BY <1>1, <1>3, <1>8, BoundsScale
  <2> QED BY <2>5, <2>6, <2>7
<1> DEFINE gm == Times(g, m)  cm == Times(m, c)
<1>12. gm \in Rationals /\ Positive(gm) /\ cm \in Rationals BY <1>1, OverTimes, PositiveProducts
<1>13. Plus(c, gm) = g
  <2>1. Times(g, Minus(one, m)) = Minus(Times(g, one), gm) BY <1>1, <1>3, TimesMinus
  <2>2. c = Minus(g, gm) BY <1>1, <1>4, <1>5, <2>1
  <2> HIDE DEF gm
  <2> QED BY <1>1, <1>12, <2>2, FieldLaws
<1> HIDE DEF gm
<1>14. AtMost(c, g)
  <2>1. AtMost(Zero, gm) BY <1>3, <1>12, OrderLaws DEF AtMost
  <2>2. AtMost(Plus(c, Zero), Plus(c, gm)) BY <1>1, <1>3, <1>12, <2>1, EqualIsAtMost, BoundsAdd
  <2>3. Plus(c, Zero) = c BY <1>1, FieldLaws
  <2> QED BY <1>13, <2>2, <2>3
<1>15. AtMost(cm, gm)
  <2>1. AtMost(Times(c, m), Times(g, m)) BY <1>1, <1>14, BoundsScale
  <2>2. Times(c, m) = cm BY <1>1, FieldLaws
  <2> QED BY <2>1, <2>2 DEF gm
<1>16. AtMost(cm, profit)
  <2>1. AtMost(Plus(cm, c), Plus(gm, c)) BY <1>1, <1>12, <1>15, EqualIsAtMost, BoundsAdd
  <2>2. Plus(gm, c) = g BY <1>1, <1>12, <1>13, FieldLaws
  <2>3. Plus(cm, c) \in Rationals BY <1>1, <1>12, SumsAreExact
  <2>4. AtMost(Plus(cm, c), net) BY <1>1, <1>8, <1>11, <2>1, <2>2, <2>3, BoundsChain
  <2>5. AtMost(cm, Minus(net, c)) BY <1>1, <1>8, <1>12, <2>4, TakenAway
  <2> QED BY <2>5 DEF profit
<1> DEFINE share == Over(profit, c)
<1>17. share \in Rationals /\ Times(share, c) = profit BY <1>1, <1>9, OverTimes
<1> HIDE DEF share
<1>18. AtMost(m, share) BY <1>1, <1>16, <1>17, BoundsScale DEF cm
<1> QED BY <1>6, <1>9, <1>10, <1>17, <1>18 DEF share, profit, net, fee, G, P, c, m, f

\* One line of the answer.
LEMMA GoodItem ==
    ASSUME NEW r \in PricingQuestions, ValidPricing(r), NEW rate \in Rationals, Positive(rate)
    PROVE  ItemRight(r, rate, PricingItem(r, rate))
<1> DEFINE P == Price(r, rate)  G == Times(P, rate)  fee == Times(G, r.platform)  profit == Minus(Minus(G, fee), r.cost)
           share == Over(profit, r.cost)
           item == PricingItem(r, rate)  p == RoundedTo(P, 100)  f == RoundedTo(fee, 100)  w == RoundedTo(profit, 100)
           gross == Times(p, rate)  h == Cent
<1>1. item = [price |-> p, actual |-> RoundedTo(share, 10000), profit |-> w, fee |-> f] BY DEF PricingItem
<1>2. item.price = p /\ item.actual = RoundedTo(share, 10000) /\ item.profit = w /\ item.fee = f BY <1>1
<1> HIDE DEF item
<1>3. /\ G \in Rationals /\ fee \in Rationals /\ profit \in Rationals /\ Plus(Plus(profit, fee), r.cost) = G
      /\ share \in Rationals /\ AtMost(r.profit, share)
  BY ProfitIs
<1>4. P \in Rationals /\ Kept(r, rate, P) = Goal(r) BY PriceIs
<1>5. /\ r.cost \in Rationals /\ r.profit \in Rationals /\ r.platform \in Rationals
      /\ AtMost(Zero, r.platform) /\ AtMost(r.platform, Whole(1))
  BY SharesAre
<1>6. fee = Times(G, r.platform) /\ G = Times(P, rate) OBVIOUS
<1> HIDE DEF P, G, fee, profit, share
<1>7. /\ p \in Rationals /\ Near(p, P, h) /\ f \in Rationals /\ Near(f, fee, h) /\ w \in Rationals /\ Near(w, profit, h)
      /\ h \in Rationals
  BY <1>3, <1>4, WithinACent DEF Near
<1> HIDE DEF p, f, w
<1>8. /\ Positive(h) /\ Plus(h, h) \in Rationals /\ Times(h, rate) \in Rationals /\ Slack(rate) = Plus(Plus(h, h), Times(h, rate))
      /\ Slack(rate) \in Rationals
  BY SlackIs DEF Slack
<1> HIDE DEF h
<1>9. gross \in Rationals /\ Zero \in Rationals /\ Whole(1) \in Rationals BY <1>7, NothingIsRational, ProductsAreExact
\* a cent more keeps the goal, a cent less does not keep more
<1>10. AtMost(Goal(r), Kept(r, rate, Plus(p, h))) /\ AtMost(Kept(r, rate, Minus(p, h)), Goal(r))
  <2>1. Plus(p, h) \in Rationals /\ Minus(p, h) \in Rationals BY <1>7, SumsAreExact
  <2>2. AtMost(P, Plus(p, h)) BY <1>7 DEF Near
  <2>3. AtMost(Minus(p, h), P)
    <3>1. AtMost(p, Plus(P, h)) BY <1>7 DEF Near
    <3>2. Plus(P, h) = Plus(h, P) BY <1>4, <1>7, FieldLaws
    <3> QED BY <1>4, <1>7, <3>1, <3>2, MovedOver
  <2>4. /\ AtMost(Kept(r, rate, P), Kept(r, rate, Plus(p, h)))
        /\ AtMost(Kept(r, rate, Minus(p, h)), Kept(r, rate, P))
    BY <1>4, <2>1, <2>2, <2>3, PriceIs
  <2> QED BY <1>4, <2>4
\* what is taken at the rounded price
<1>11. Near(G, gross, Times(h, rate))
  <2>1. Near(P, p, h) BY <1>7 DEF Near
  <2>2. AtMost(Zero, rate) BY <1>9, OrderLaws DEF AtMost
  <2>3. Near(Times(P, rate), Times(p, rate), Times(h, rate)) BY <1>4, <1>7, <2>1, <2>2, NearScales
  <2> QED BY <1>6, <2>3
<1> HIDE DEF gross
<1> DEFINE s == Plus(Plus(w, f), r.cost)
<1>12. UpToCents(s, gross, rate)
  <2> DEFINE wf == Plus(w, f)  pf == Plus(profit, fee)  hh == Plus(h, h)
  <2>1. wf \in Rationals /\ pf \in Rationals /\ hh \in Rationals BY <1>3, <1>7, SumsAreExact
  <2>2. Near(wf, pf, hh) BY <1>3, <1>7, NearAdds
  <2> HIDE DEF wf, pf
  <2>3. Near(r.cost, r.cost, Zero) BY <1>5, NearItself
  <2>4. Near(Plus(wf, r.cost), Plus(pf, r.cost), Plus(hh, Zero)) BY <1>5, <1>9, <2>1, <2>2, <2>3, NearAdds
  <2>5. Plus(hh, Zero) = hh BY <2>1, FieldLaws
  <2>6. Near(s, G, hh) /\ s \in Rationals
    <3>1. s \in Rationals BY <1>5, <2>1, SumsAreExact DEF wf
    <3> QED BY <1>3, <2>4, <2>5, <3>1 DEF wf, pf
  <2> HIDE DEF s
  <2> DEFINE hr == Times(h, rate)
  <2>7. hr \in Rationals /\ Near(G, gross, hr) /\ G \in Rationals /\ Slack(rate) = Plus(hh, hr) BY <1>3, <1>8, <1>11
  <2> HIDE DEF hh, hr
  <2>8. Near(s, gross, Slack(rate)) BY <1>9, <2>1, <2>6, <2>7, NearChain
  <2> QED BY <1>9, <2>6, <2>8, UpToCentsIs
<1>13. UpToCents(f, Times(gross, r.platform), rate)
  <2> DEFINE hr == Times(h, rate)  hrf == Times(hr, r.platform)  hh == Plus(h, h)
  <2>1. hr \in Rationals /\ hrf \in Rationals /\ hh \in Rationals BY <1>5, <1>8, ProductsAreExact
  <2>2. Near(fee, Times(gross, r.platform), hrf) BY <1>3, <1>5, <1>6, <1>9, <1>11, <2>1, NearScales
  <2>3. Times(gross, r.platform) \in Rationals BY <1>5, <1>9, ProductsAreExact
  <2>4. Near(f, Times(gross, r.platform), Plus(h, hrf)) BY <1>3, <1>7, <2>1, <2>2, <2>3, NearChain
  <2>5. AtMost(hrf, hr)
    <3>1. Positive(hr) BY <1>7, <1>8, PositiveProducts
    <3> HIDE DEF hr
    <3>2. AtMost(Times(r.platform, hr), Times(Whole(1), hr)) BY <1>5, <1>9, <2>1, <3>1, BoundsScale
    <3>3. Times(r.platform, hr) = hrf BY <1>5, <2>1, FieldLaws
    <3>4. Times(Whole(1), hr) = Times(hr, Whole(1)) /\ Times(hr, Whole(1)) = hr BY <1>9, <2>1, FieldLaws
    <3> QED BY <3>2, <3>3, <3>4
  <2>6. AtMost(h, hh)
    <3>1. AtMost(Zero, h) BY <1>7, <1>8, <1>9, OrderLaws DEF AtMost
    <3>2. AtMost(Plus(h, Zero), Plus(h, h)) BY <1>7, <1>9, <3>1, EqualIsAtMost, BoundsAdd
    <3>3. Plus(h, Zero) = h BY <1>7, FieldLaws
    <3> QED BY <3>2, <3>3
  <2>7. AtMost(Plus(h, hrf), Slack(rate))
    <3>1. AtMost(Plus(h, hrf), Plus(hh, hr)) BY <1>7, <2>1, <2>5, <2>6, BoundsAdd
    <3> QED BY <1>8, <3>1
  <2>8. Plus(h, hrf) \in Rationals BY <1>7, <2>1, SumsAreExact
  <2> HIDE DEF hrf
  <2>9. Near(f, Times(gross, r.platform), Slack(rate)) BY <1>7, <1>8, <2>3, <2>4, <2>7, <2>8, NearWidens
  <2> QED BY <1>7, <2>3, <2>9, UpToCentsIs
<1>14. AtMost(RoundedTo(r.profit, 10000), RoundedTo(share, 10000))
  <2>1. 10000 \in Nat \ {0} OBVIOUS
  <2> QED BY <1>3, <1>5, <2>1, RoundingKeepsOrder
<1>15. /\ ~Below(Kept(r, rate, Plus(p, h)), Goal(r)) /\ ~Below(Goal(r), Kept(r, rate, Minus(p, h)))
       /\ UpToCents(Plus(Plus(item.profit, item.fee), r.cost), gross, rate)
       /\ UpToCents(item.fee, Times(gross, r.platform), rate)
       /\ ~Below(item.actual, RoundedTo(r.profit, 10000))
  BY <1>2, <1>10, <1>12, <1>13, <1>14 DEF AtMost
<1>16. gross = Times(item.price, rate) /\ h = <<1, 200>> /\ item.price = p BY <1>2 DEF gross, h, Cent
<1>17. ItemRight(r, rate, item) BY <1>15, <1>16 DEF ItemRight, Kept, Goal, Held, Left, Margin
<1> QED BY <1>17 DEF item

\* Prices that calculate: every currency has a rate.
LEMMA GoodPrices ==
    ASSUME NEW r \in PricingQuestions, ValidPricing(r), NEW t \in RateTables,
           \A i \in DOMAIN r.currencies : r.currencies[i] = "CNY" \/ {r.currencies[i], "CNY"} \subseteq CodesOf(t)
    PROVE  PricingCalculation(r, t).ok /\ PricingRight(r, {t}, PricingCalculation(r, t))
<1> DEFINE D     == DOMAIN r.currencies
           f     == [i \in D |-> Convert(Whole(1), r.currencies[i], "CNY", t)]
           rates == Collected(f)
           a     == PricingCalculation(r, t)
<1>1. r.currencies \in Seq(STRING) BY DEF PricingQuestions
<1>2. D \in SUBSET Nat BY <1>1
<1>3. ~(\/ ~Positive(r.cost) \/ ~Positive(r.profit) \/ ~Below(r.profit, Whole(1))
        \/ Below(r.platform, Zero) \/ ~Below(r.platform, Whole(1)) \/ ~Between(Zero, r.buffer, <<1, 2>>)
        \/ Len(r.currencies) \notin 1 .. 10)
  BY DEF ValidPricing
<1>4. a = (IF rates.ok THEN Ok([i \in D |-> PricingItem(r, rates.is[i])]) ELSE rates)
  BY <1>3 DEF PricingCalculation
<1> HIDE DEF a
<1>5. ASSUME NEW i \in D
      PROVE  /\ f[i].ok /\ f[i].is = RateOf(r.currencies[i], "CNY", t)
             /\ RateOf(r.currencies[i], "CNY", t) \in Rationals /\ Positive(RateOf(r.currencies[i], "CNY", t))
  <2> DEFINE cur == r.currencies[i]
  <2>1. cur = "CNY" \/ {cur, "CNY"} \subseteq CodesOf(t) BY Zenon
  <2>2. f[i] = Convert(Whole(1), cur, "CNY", t) OBVIOUS
  <2> HIDE DEF cur, f
  <2>3. RateOf(cur, "CNY", t) \in Rationals /\ Positive(RateOf(cur, "CNY", t)) BY <2>1, ConvertIs
  <2>4. Convert(Whole(1), cur, "CNY", t) = Ok(Times(Whole(1), RateOf(cur, "CNY", t)))
    <3>1. Whole(1) \in Rationals BY NothingIsRational
    <3> QED BY <2>1, <3>1, ConvertIs
  <2>5. f[i].ok BY <2>2, <2>4 DEF Ok
  <2>6. f[i].is = RateOf(cur, "CNY", t) BY <2>2 DEF RateOf
  <2> QED BY <2>3, <2>5, <2>6 DEF cur
<1>6. DOMAIN f = D OBVIOUS
<1> HIDE DEF f
<1>7. rates = Ok([i \in D |-> f[i].is]) BY <1>2, <1>5, <1>6, CollectedIs
<1>8. rates.ok /\ \A i \in D : rates.is[i] = RateOf(r.currencies[i], "CNY", t) BY <1>5, <1>7 DEF Ok
<1> HIDE DEF rates
<1>9. a = Ok([i \in D |-> PricingItem(r, rates.is[i])]) BY <1>4, <1>8
<1>10. a.ok /\ \A i \in D : a.is[i] = PricingItem(r, RateOf(r.currencies[i], "CNY", t)) BY <1>8, <1>9 DEF Ok
<1>11. \A i \in D : ItemRight(r, RateOf(r.currencies[i], "CNY", t), a.is[i]) BY <1>5, <1>10, GoodItem
<1>12. TheOne({t}) = t BY DEF TheOne
<1>13. PricingRight(r, {t}, a) BY <1>10, <1>11, <1>12 DEF PricingRight, RateOf
<1> QED BY <1>10, <1>13 DEF a

\* Prices in a currency the table does not have.
LEMMA NoPrices ==
    ASSUME NEW r \in PricingQuestions, ValidPricing(r), NEW t \in RateTables, NEW i \in DOMAIN r.currencies,
           r.currencies[i] # "CNY", ~({r.currencies[i], "CNY"} \subseteq CodesOf(t))
    PROVE  ~PricingCalculation(r, t).ok
<1> DEFINE D     == DOMAIN r.currencies
           f     == [j \in D |-> Convert(Whole(1), r.currencies[j], "CNY", t)]
           rates == Collected(f)
<1>1. r.currencies \in Seq(STRING) BY DEF PricingQuestions
<1>2. D \in SUBSET Nat BY <1>1
<1>3. ~rates.ok => PricingCalculation(r, t) = rates BY DEF PricingCalculation, ValidPricing
<1>4. ~f[i].ok
  <2> DEFINE cur == r.currencies[i]
  <2>1. f[i] = Convert(Whole(1), cur, "CNY", t) OBVIOUS
  <2>2. cur # "CNY" /\ ~({cur, "CNY"} \subseteq CodesOf(t)) BY Zenon
  <2> HIDE DEF cur, f
  <2>3. ~Convert(Whole(1), cur, "CNY", t).ok BY <2>2, ConvertFails
  <2> QED BY <2>1, <2>3
<1>5. DOMAIN f = D OBVIOUS
<1> HIDE DEF f
<1>6. DOMAIN f \in SUBSET Nat /\ i \in DOMAIN f BY <1>2, <1>5
<1>7. \E j \in DOMAIN f : ~f[j].ok BY <1>4, <1>6, Zenon
<1>8. \E j \in DOMAIN f : ~f[j].ok /\ Collected(f) = f[j] BY <1>6, <1>7, CollectedIs, Zenon
<1>9. ~rates.ok BY <1>8
<1> HIDE DEF rates
<1> QED BY <1>3, <1>9

\* PricingRight, which a run checks on a few requests and tables: whatever is
\* asked and whatever the rates are, the price of each currency, up to the half
\* cent it is rounded by, is the least that keeps the cost and its margin after
\* the platform's share should the currency lose the buffer; cost, profit and
\* fee add up to what is taken; and prices are refused only for their form, for
\* want of a table or of a currency in it.
THEOREM PricesHold ==
    \A r \in PricingQuestions, t \in RateTables :
        PricingRight(r, {t}, RunFxPricing(r, {t})) /\ PricingRight(r, {}, RunFxPricing(r, {}))
<1> SUFFICES ASSUME NEW r \in PricingQuestions, NEW t \in RateTables
             PROVE  PricingRight(r, {t}, RunFxPricing(r, {t})) /\ PricingRight(r, {}, RunFxPricing(r, {}))
  OBVIOUS
<1>1. CASE ~ValidPricing(r)
  <2>1. ASSUME NEW s PROVE PricingRight(r, s, RunFxPricing(r, s))
    <3>1. RunFxPricing(r, s) = Fail("validation") BY <1>1 DEF RunFxPricing
    <3> DEFINE answer == RunFxPricing(r, s)
    <3>2. ~answer.ok /\ answer.is = "validation" BY <3>1 DEF Fail
    <3> HIDE DEF answer
    <3>3. PricingRight(r, s, answer) BY <1>1, <3>2 DEF PricingRight
    <3> QED BY <3>3 DEF answer
  <2> QED BY <2>1
<1>2. CASE ValidPricing(r)
  <2>1. PricingRight(r, {}, RunFxPricing(r, {}))
    <3>1. RunFxPricing(r, {}) = Fail("unavailable") BY <1>2 DEF RunFxPricing
    <3> DEFINE answer == RunFxPricing(r, {})
    <3>2. ~answer.ok /\ answer.is = "unavailable" BY <3>1 DEF Fail
    <3> HIDE DEF answer
    <3>3. PricingRight(r, {}, answer) BY <3>2 DEF PricingRight
    <3> QED BY <3>3 DEF answer
  <2>2. TheOne({t}) = t /\ {t} # {} BY DEF TheOne
  <2> DEFINE a == PricingCalculation(r, t)
  <2>3. RunFxPricing(r, {t}) = (IF a.ok THEN a ELSE Fail("invalid_input")) BY <1>2, <2>2 DEF RunFxPricing
  <2>4. CASE \A i \in DOMAIN r.currencies : r.currencies[i] = "CNY" \/ {r.currencies[i], "CNY"} \subseteq CodesOf(t)
    <3>1. a.ok /\ PricingRight(r, {t}, a) BY <1>2, <2>4, GoodPrices
    <3> HIDE DEF a
    <3>2. RunFxPricing(r, {t}) = a BY <2>3, <3>1
    <3> QED BY <2>1, <3>1, <3>2
  <2>5. CASE \E i \in DOMAIN r.currencies : r.currencies[i] # "CNY" /\ ~({r.currencies[i], "CNY"} \subseteq CodesOf(t))
    <3>1. PICK i \in DOMAIN r.currencies : r.currencies[i] # "CNY" /\ ~({r.currencies[i], "CNY"} \subseteq CodesOf(t)) BY <2>5
    <3>2. ~a.ok BY <1>2, <3>1, NoPrices
    <3> HIDE DEF a
    <3>3. RunFxPricing(r, {t}) = Fail("invalid_input") BY <2>3, <3>2
    <3> DEFINE answer == RunFxPricing(r, {t})
    <3>4. ~answer.ok /\ answer.is = "invalid_input" BY <3>3 DEF Fail
    <3> HIDE DEF answer
    <3>5. r.currencies[i] \in ToSet(r.currencies) BY <3>1 DEF ToSet
    <3>6. ~(ToSet(r.currencies) \cup {"CNY"} \subseteq CodesOf(t)) BY <3>1, <3>5
    <3>7. PricingRight(r, {t}, answer) BY <3>4, <3>6 DEF PricingRight, CodesOf
    <3> QED BY <2>1, <3>7 DEF answer
  <2> QED BY <2>4, <2>5
<1> QED BY <1>1, <1>2
=============================================================================
