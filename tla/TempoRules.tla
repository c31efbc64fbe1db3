----------------------------- MODULE TempoRules -----------------------------
(***************************************************************************)
(* The Tempo calendar and RTE's rule: backend/src/tempo/rules.rs.          *)
(*                                                                         *)
(* A date is its day number (1 is Monday 1 January of year 1).  The        *)
(* thresholds and the consumption they are compared with are thousandths.  *)
(***************************************************************************)
EXTENDS Integers, FiniteSets

\* The calendar (chrono, external).
Leap(y) == y % 4 = 0 /\ (y % 100 # 0 \/ y % 400 = 0)
YearEnds(y) == 365 * y + y \div 4 - y \div 100 + y \div 400
MonthStarts == <<0, 31, 59, 90, 120, 151, 181, 212, 243, 273, 304, 334>>
Ymd(y, m, d) == YearEnds(y - 1) + MonthStarts[m] + (IF m > 2 /\ Leap(y) THEN 1 ELSE 0) + d
Year(n) == LET guess == n \div 366 IN CHOOSE y \in guess .. guess + 10 : YearEnds(y - 1) < n /\ n <= YearEnds(y)
Month(n) == LET y == Year(n) IN CHOOSE m \in 1 .. 12 : Ymd(y, m, 1) <= n /\ (m = 12 \/ n < Ymd(y, m + 1, 1))
Saturday == 5
Sunday == 6
Weekday(n) == (n - 1) % 7

-----------------------------------------------------------------------------
(* Seasons and holidays.                                                   *)

RedDays == 22
WhiteDays == 43
MaxRedRun == 5

SeasonStartYear(n) == IF Month(n) >= 9 THEN Year(n) ELSE Year(n) - 1
SeasonBounds(year) == [first |-> Ymd(year, 9, 1), last |-> Ymd(year + 1, 8, 31)]
TempoDay(n) == n - SeasonBounds(SeasonStartYear(n)).first + 1

\* easter: the anonymous Gregorian computus.
Easter(year) ==
    LET a == year % 19
        b == year \div 100
        c == year % 100
        g == (b - (b + 8) \div 25 + 1) \div 3
        h == (19 * a + b - b \div 4 - g + 15) % 30
        l == (32 + 2 * (b % 4) + 2 * (c \div 4) - h - (c % 4)) % 7
        m == (a + 11 * h + 22 * l) \div 451
        at == h + l - 7 * m + 114
    IN  Ymd(year, at \div 31, (at % 31) + 1)

IsHoliday(n) ==
    \/ \E f \in {<<1, 1>>, <<5, 1>>, <<5, 8>>, <<7, 14>>, <<8, 15>>, <<11, 1>>, <<11, 11>>, <<12, 25>>} : n = Ymd(Year(n), f[1], f[2])
    \/ n - Easter(Year(n)) \in {1, 39, 50}

IsWinter(n) == Month(n) \in {11, 12, 1, 2, 3}
RedAllowed(n) == IsWinter(n) /\ Weekday(n) \notin {Saturday, Sunday} /\ ~IsHoliday(n)
WhiteAllowed(n) == Weekday(n) # Sunday

-----------------------------------------------------------------------------
(* The stock of days and the rule.                                         *)

\* Stock::before, from the colours of some of the days before it.
Before(history, quotas, day) ==
    LET first == SeasonBounds(SeasonStartYear(day)).first
        used(color) == Cardinality({d \in DOMAIN history : first <= d /\ d < day /\ history[d] = color})
        left(quota, n) == IF n > quota THEN 0 ELSE quota - n
        redSince(back) == \A k \in 1 .. back : day - k \in DOMAIN history /\ history[day - k] = "red"
    IN  [red |-> left(quotas.red, used("red")), white |-> left(quotas.white, used("white")),
         run |-> CHOOSE r \in 0 .. MaxRedRun : redSince(r) /\ (r < MaxRedRun => ~redSince(r + 1))]

\* Stock::take.
Take(stock, color) ==
    LET less(n) == IF n = 0 THEN 0 ELSE n - 1 IN
      CASE color = "red" -> [stock EXCEPT !.red = less(@), !.run = @ + 1]
        [] color = "white" -> [stock EXCEPT !.white = less(@), !.run = 0]
        [] OTHER -> [stock EXCEPT !.run = 0]

\* Mutant: the weekends before the end of March count as days left for red.
RedLeftAny(n) == Ymd(SeasonStartYear(n) + 1, 3, 31) - n + 1

\* Days that may still be red, this one included.
RedLeft(n) == Cardinality({d \in n .. Ymd(SeasonStartYear(n) + 1, 3, 31) : RedAllowed(d)})

\* DayRules::new.
DayRules(n) ==
    [redOk |-> RedAllowed(n), whiteOk |-> WhiteAllowed(n), day |-> TempoDay(n),
     redLeft |-> IF RedAllowed(n) THEN RedLeft(n) ELSE 0,
     whiteLeft |-> Cardinality({d \in n .. SeasonBounds(SeasonStartYear(n)).last : WhiteAllowed(d)})]

RedThreshold(rules, stock) == 3150 - 10 * rules.day - 31 * stock.red
WhiteThreshold(rules, stock) == 4000 - 15 * rules.day - 26 * (stock.red + stock.white)

\* DayRules::decide.
Decide(rules, x, stock) ==
    LET canRed == rules.redOk /\ stock.red > 0 /\ stock.run < MaxRedRun
        canWhite == rules.whiteOk /\ stock.white > 0
    IN  CASE canRed /\ stock.red >= rules.redLeft -> "red"
          [] ~(canRed /\ stock.red >= rules.redLeft) /\ canWhite /\ ~rules.redOk /\ stock.white >= rules.whiteLeft -> "white"
          [] OTHER -> IF canRed /\ x > RedThreshold(rules, stock) THEN "red"
                      ELSE IF canWhite /\ x > WhiteThreshold(rules, stock) THEN "white"
                      ELSE "blue"

=============================================================================
