------------------------------ MODULE MCTempo ------------------------------
(***************************************************************************)
(* Three machines that share nothing, one to a behaviour: the formats of   *)
(* MCValues, a Tempo season decided day by day, and the Tempo service.     *)
(***************************************************************************)
EXTENDS MCValues, TLC

CONSTANTS Requests, LastDay, Days, Horizon, Faults, Events, Parts, SeasonYears

VARIABLES part, day, stock,
          today, published, memory, asked, weather, weatherAsked, lastToday, lastForecast,
          file, lock, req, faults, asks, shown, excused

\* The season ends on a day; what is absent is no request and no season.
ASSUME TempoAssumption ==
    /\ LastDay \in Nat /\ Days \subseteq Nat
    /\ Nil \notin Requests /\ \A season \in SUBSET Days : season # Nil

T == INSTANCE Tempo

serviceVars == <<today, published, memory, asked, weather, weatherAsked, lastToday, lastForecast,
                 file, lock, req, faults, asks, shown, excused>>
vars == <<part, day, stock, valuesVars, serviceVars>>

RequestSymmetry == Permutations(Requests)

-----------------------------------------------------------------------------
(* A season decided day by day: forecast.rs, simulate.                     *)

SeasonRules == [y \in SeasonYears |-> [n \in Rules!SeasonBounds(y).first .. Rules!SeasonBounds(y).last |-> Rules!DayRules(n)]]
SeasonYear == given

\* Consumption at, above and far from each threshold.
Consumptions(rules, s) ==
    {-10000, 10000} \cup {t + more : t \in {Rules!RedThreshold(rules, s), Rules!WhiteThreshold(rules, s)}, more \in {0, 1}}

\* The days from one on that may be red, by the end of March, and that may be white, after it.
RedRoom(year, d) == {e \in d .. Rules!Ymd(year + 1, 3, 31) : Rules!RedAllowed(e)}
WhiteRoom(year, d) == {e \in Rules!Ymd(year + 1, 4, 1) .. Rules!SeasonBounds(year).last : d <= e /\ Rules!WhiteAllowed(e)}

\* A mild winter: the reds there is room for at the end of March are left on 20 March, the others
\* having gone to the first days that may be red.
Mild(year) ==
    LET day1 == Rules!Ymd(year + 1, 3, 20)
        early == {d \in Rules!Ymd(year, 11, 1) .. Rules!Ymd(year, 11, 30) : Rules!RedAllowed(d)}
        reds == {d \in early : Cardinality({e \in early : e <= d}) <= Rules!RedDays - Cardinality(RedRoom(year, day1))}
    IN  [d \in Rules!SeasonBounds(year).first .. day1 - 1 |-> IF d \in reds THEN "red" ELSE "blue"]

FirstStock(history, d) == Rules!Before(history, [red |-> Rules!RedDays, white |-> Rules!WhiteDays], d)

\* A season from its first day, and from 20 March of a mild winter.
Starts(year) ==
    LET from(d, history) == [day |-> d, stock |-> FirstStock(history, d)]
    IN  {from(Rules!SeasonBounds(year).first, <<>>), from(Rules!Ymd(year + 1, 3, 20), Mild(year))}

\* There is room for a stock: as many days that may be red by the end of March, as many that may be
\* white after it, and no more reds in a row than days of the week.
HasRoom(year, d, s) ==
    /\ s.red <= Cardinality(RedRoom(year, d)) /\ s.white <= Cardinality(WhiteRoom(year, d))
    /\ s.run <= Rules!Weekday(d)

\* Seasons are RTE's, the first that of 2014, and start with room for what is to be placed.
ASSUME SeasonAssumption ==
    /\ SeasonYears \subseteq 2014 .. 3000
    /\ \A year \in SeasonYears : \A start \in Starts(year) :
         /\ start.day \in Rules!SeasonBounds(year).first .. Rules!SeasonBounds(year).last
         /\ start.stock \in [red : Nat, white : Nat, run : Nat] /\ HasRoom(year, start.day, start.stock)

\* One day of one of simulate's runs.
DecideDay ==
    /\ part = "season" /\ day <= Rules!SeasonBounds(SeasonYear).last
    /\ LET rules == SeasonRules[SeasonYear][day] IN
         \E x \in Consumptions(rules, stock) : stock' = Rules!Take(stock, Rules!Decide(rules, x, stock))
    /\ day' = day + 1
    /\ UNCHANGED <<part, valuesVars, serviceVars>>

\* Whatever the weather, every red day of the quota is placed by 31 March and every white one by
\* 31 August, within five reds in a row, weekends and holidays (rules.rs: "At the end of a period
\* RTE places what is left, threshold or not").
QuotasPlaced ==
    part = "season" =>
      /\ day > Rules!Ymd(SeasonYear + 1, 3, 31) => stock.red = 0
      /\ day > Rules!SeasonBounds(SeasonYear).last => stock.white = 0

-----------------------------------------------------------------------------

\* The machines that rest.
NoValue == codec = "none" /\ wire = <<>> /\ read = Nil /\ cut = FALSE /\ phase = "none"
NoDay == day = 0 /\ stock = [red |-> 0, white |-> 0, run |-> 0]
NoService == T!TempoInit /\ file = [s \in {1, 2} |-> {}]

Init ==
    /\ part \in Parts
    /\ \/ part = "values" /\ ValuesInit /\ NoDay /\ NoService
       \/ /\ part = "season" /\ NoValue /\ NoService /\ given \in SeasonYears
          /\ \E start \in Starts(given) : day = start.day /\ stock = start.stock
       \/ part = "service" /\ NoValue /\ given = 0 /\ NoDay /\ T!TempoInit

Next ==
    \/ part = "values" /\ ValuesNext /\ UNCHANGED <<part, day, stock, serviceVars>>
    \/ DecideDay
    \/ part = "service" /\ T!TempoNext /\ UNCHANGED <<part, day, stock, valuesVars>>

Spec == Init /\ [][Next]_vars

\* Nobody is given the day before the one they asked on (tempo/mod.rs): Tempo.
AnsweredForToday == T!AnsweredForToday

\* What was shown of a season is in its file (tempo/mod.rs): Tempo.
ShownIsKept == T!ShownIsKept

=============================================================================
